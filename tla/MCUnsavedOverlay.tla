-------------------------- MODULE MCUnsavedOverlay --------------------------
(* Two files whose payloads do not fit into memory together.  One is       *)
(* created, changed or deleted, and created again; the other is there to   *)
(* take its place in memory.                                               *)
EXTENDS UnsavedOverlay

CONSTANTS s1, s2

MCSources == {s1, s2}
MCMaxEvents == [s \in MCSources |-> IF s = s1 THEN 3 ELSE 1]
MCMaxEventsFew == [s \in MCSources |-> IF s = s1 THEN 2 ELSE 1]
MCSize == [s \in MCSources |-> [body \in 1 .. 3 |-> IF s = s1 THEN 1 ELSE 2]]
(* The second content of s1 exceeds the budget on its own. *)
MCSizeGrowing == [MCSize EXCEPT ![s1][2] = 3]

(* What a job or a payload recorded is only ever compared with the present: *)
(* its pass, the file's event and the head that it expects.  Passes, events *)
(* and heads only grow, so states that differ in how far such a comparison  *)
(* fails behave alike; and a job that has become stale stays so.            *)
Age(p) == IF p = pass THEN 1 ELSE 0
AgeOfAsker(p) == IF p = 0 THEN 0 ELSE 1 + Age(p)
AgeOfBase(s, base) == IF base <= 0 THEN base ELSE IF base = disk[s].rev THEN 1 ELSE 2
AgeOfHead(s) == [disk[s] EXCEPT !.rev = IF @ = 0 THEN 0 ELSE 1]

AgeOfFacts(s, facts) == [facts EXCEPT !.pass = Age(@), !.base = AgeOfBase(s, @)]
AgeOfJob(s, job) == IF FactsCurrent(s, job) THEN AgeOfFacts(s, job) ELSE [NoJob EXCEPT !.by = job.by]
AgeOfEntry(e) ==
  IF FactsCurrent(e.source, e) THEN AgeOfFacts(e.source, e)
  ELSE [AgeOfFacts(e.source, e) EXCEPT !.body = Nothing, !.base = Unavailable]

AgeOfLane(s) ==
  [phase |-> lane[s].phase, ticket |-> lane[s].ticket /\ FactsCurrent(s, lane[s].job),
   job |-> AgeOfJob(s, lane[s].job), waits |-> lane[s].next # NoJob,
   next |-> AgeOfJob(s, lane[s].next)]

AgeOfTask == [task EXCEPT !.view.base = IF task.source = {} THEN @
                                        ELSE AgeOfBase(CHOOSE s \in task.source : TRUE, @)]

UpToAge ==
  <<host, due, [s \in Sources |-> AgeOfHead(s)],
    [i \in DOMAIN memory |-> AgeOfFacts(memory[i].source, memory[i])], memoryBytes, unsaved,
    pending, AgeOfTask, [s \in Sources |-> AgeOfAsker(askedBy[s])],
    [s \in Sources |-> AgeOfLane(s)],
    [flush EXCEPT !.entries = [i \in DOMAIN @ |-> AgeOfEntry(@[i])]], timer, disturbances, history>>
=============================================================================
