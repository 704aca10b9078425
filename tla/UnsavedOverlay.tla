---------------------------- MODULE UnsavedOverlay ----------------------------
(***************************************************************************)
(* The facts a repository holds when it cannot save them, in               *)
(* NeutralSourceRepository (src/src/index/SourceRepository.ts).            *)
(*                                                                         *)
(* A replacement that storage refuses leaves its facts in a bounded        *)
(* memory; a deletion is masked at once and retired by one task at a time. *)
(* Both are retried by a timer, while their caller still stands by them: a *)
(* handler of a vault event by the absence of the file, a pass of the      *)
(* inventory only until it is superseded.  Meanwhile the vault goes on     *)
(* changing, the next pass acquires what the last one did not save, and    *)
(* another connection may select a head of its own.  A reader asks, in     *)
(* this order: is a deletion pending, are there facts in memory, is the    *)
(* source marked unsaved, what is on disk.                                 *)
(*                                                                         *)
(* Contents are numbered by the vault event that made them, so an older    *)
(* content is a smaller number.  Each database transaction is an action;   *)
(* staging, fences and the ledger belong to other modules.                 *)
(***************************************************************************)
EXTENDS Integers, FiniteSets, SequencesExt

CONSTANTS
  Sources,
  MaxEvents,       \* vault events of each source (a bound)
  MaxDisturbances, \* failed transactions, foreign activations, superseded passes (a bound)
  MaxWriters,      \* MAX_WRITERS
  Budget,          \* MAX_UNSAVED_BYTES
  Size             \* the bytes a content of a source takes in memory

ASSUME OverlayAssumption ==
  /\ MaxEvents \in [Sources -> Nat]
  /\ MaxDisturbances \in Nat
  /\ MaxWriters \in Nat
  /\ Budget \in Nat
  /\ \A s \in Sources : \A body \in 1 .. MaxEvents[s] : Size[s][body] \in Nat

VARIABLES
  host,         \* the vault: the last event of each file, and whether it exists
  pass,         \* the lifetime of an inventory pass: its scope and host revisions
  due,          \* the files the inventory will look at
  disk,         \* the durable heads
  memory,       \* unsaved payloads, oldest first
  memoryBytes,  \* their accounted size
  unsaved,      \* sources whose newest facts are not durable
  pending,      \* deletions asked for and not settled: "drop" or "retain" bodies
  askedBy,      \* the pass that asked for them, 0 the handler of a vault event
  lane,         \* the writer lane of each source
  task,         \* the deletion being carried out
  flush,        \* the retry of what is unsaved
  timer,        \* is the retry timer armed
  disturbances,
  accepted,     \* history: the newest content the repository took over
  deletedAt     \* history: the newest event that asked for a deletion

masks == <<memory, memoryBytes, unsaved, pending, askedBy>>
history == <<accepted, deletedAt>>
vars == <<host, pass, due, disk, memory, memoryBytes, unsaved, pending, askedBy, lane, task,
          flush, timer, disturbances, accepted, deletedAt>>

Nothing == 0       \* no content: contents are numbered from 1
Unavailable == -1  \* the expectation of a catalog that could not be read

Contents == Nat
States == {"missing", "complete", "tombstone"}

Jobs == [by : {"inventory", "again", "retry"}, body : Contents, base : Int, pass : Nat]
NoJob == [by |-> "inventory", body |-> Nothing, base |-> Unavailable, pass |-> 0]

Entries == [source : Sources, state : {"complete", "tombstone"}, body : Contents,
            base : Int, size : Nat, pass : Nat]

FreeLane == [phase |-> "free", job |-> NoJob, ticket |-> FALSE, next |-> NoJob]

Views == [memory : BOOLEAN, body : Contents, base : Int, size : Nat]
NoView == [memory |-> FALSE, body |-> Nothing, base |-> Unavailable, size |-> 0]
NoTask == [phase |-> "none", source |-> {}, owned |-> FALSE, retain |-> FALSE, view |-> NoView]

IdleFlush == [phase |-> "idle", deletions |-> {}, entries |-> <<>>]

TypeOK ==
  /\ host \in [Sources -> [at : Contents, present : BOOLEAN]]
  /\ pass \in Nat
  /\ due \subseteq Sources
  /\ disk \in [Sources -> [state : States, body : Contents, rev : Nat]]
  /\ memory \in Seq(Entries)
  /\ \A i, j \in DOMAIN memory : memory[i].source = memory[j].source => i = j
  /\ memoryBytes \in 0 .. Budget
  /\ unsaved \subseteq Sources
  /\ pending \in [Sources -> {"none", "drop", "retain"}]
  /\ askedBy \in [Sources -> Nat]
  /\ lane \in [Sources -> [phase : {"free", "writing", "committed"}, job : Jobs,
                           ticket : BOOLEAN, next : Jobs]]
  /\ task \in [phase : {"none", "pin", "absent", "activate", "committed"},
               source : SUBSET Sources, owned : BOOLEAN, retain : BOOLEAN, view : Views]
  /\ flush \in [phase : {"idle", "lanes", "task", "deletions", "deleting", "memory", "writing"},
                deletions : SUBSET Sources, entries : Seq(Entries)]
  /\ timer \in BOOLEAN
  /\ disturbances \in 0 .. MaxDisturbances
  /\ accepted \in [Sources -> Contents]
  /\ deletedAt \in [Sources -> Contents]

Init ==
  /\ host = [s \in Sources |-> [at |-> 0, present |-> FALSE]]
  /\ pass = 1
  /\ due = {}
  /\ disk = [s \in Sources |-> [state |-> "missing", body |-> Nothing, rev |-> 0]]
  /\ memory = <<>>
  /\ memoryBytes = 0
  /\ unsaved = {}
  /\ pending = [s \in Sources |-> "none"]
  /\ askedBy = [s \in Sources |-> 0]
  /\ lane = [s \in Sources |-> FreeLane]
  /\ task = NoTask
  /\ flush = IdleFlush
  /\ timer = FALSE
  /\ disturbances = 0
  /\ accepted = [s \in Sources |-> Nothing]
  /\ deletedAt = [s \in Sources |-> Nothing]
-----------------------------------------------------------------------------
(* What the caller predicates see: facts are current while no later event  *)
(* touched their file and the pass that read them was not superseded; a    *)
(* deletion while the file is absent and, when the inventory asked for it, *)
(* while its pass was not superseded.                                      *)
Unchanged(s, body) == host[s].present /\ host[s].at = body
FactsCurrent(s, facts) == Unchanged(s, facts.body) /\ facts.pass = pass
DeletionWanted(s) == ~host[s].present /\ askedBy[s] \in {0, pass}

Disturb == disturbances < MaxDisturbances /\ disturbances' = disturbances + 1
Undisturbed == UNCHANGED disturbances

HeldBy(s) == {e \in ToSet(memory) : e.source = s}
Held(s) == HeldBy(s) # {}
Payload(s) == CHOOSE e \in HeldBy(s) : TRUE
Without(m, s) == RemoveFirstMatch(m, LAMBDA e : e.source = s)

(* Memory is keyed by source, so a byte is known by its payload's source   *)
(* and its place in there.                                                 *)
BytesOf(m) == Cardinality(UNION {{e.source} \X (1 .. e.size) : e \in ToSet(m)})

(* What pin() finds for an ordinary reader, and for one that may also read *)
(* the bodies a deletion retained (includeTombstone).                      *)
FromMemory(s) == [from |-> "memory", body |-> Payload(s).body]
FromDisk(s) == [from |-> "disk", body |-> disk[s].body]
Masked == [from |-> "nowhere", body |-> Nothing]

(* A slip: a source without facts in memory is read from disk, saved or not. *)
BodyViewUnmasked(s) == IF Held(s) THEN FromMemory(s) ELSE FromDisk(s)

BodyView(s) ==
  IF Held(s) THEN FromMemory(s) ELSE IF s \in unsaved THEN Masked ELSE FromDisk(s)

Hidden(s) ==
  \/ pending[s] # "none"
  \/ \E e \in HeldBy(s) : e.state = "tombstone"
  \/ ~Held(s) /\ disk[s].state # "complete"

(* visit() reads whatever was pinned. *)
ReaderView(s) == IF Hidden(s) THEN Masked ELSE BodyView(s)

(* readSelected() refuses facts in memory whose file has changed since.    *)
Stale(s) == \E e \in HeldBy(s) : ~FactsCurrent(s, e)
SelectedView(s) == IF Stale(s) THEN Masked ELSE ReaderView(s)

Retrying == flush.phase \in {"deletions", "deleting", "memory", "writing"}

(* scheduleRetry(): one timer, and none while the retry runs. *)
Arm(m, p) == timer \/ (~Retrying /\ (m # <<>> \/ \E s \in Sources : p[s] # "none"))

OwnBytes(s) == IF Held(s) THEN Payload(s).size ELSE 0
Evicted(m, k) == BytesOf(SubSeq(m, 1, k))

(* How many of the oldest payloads leave so that a new one fits. *)
Evictions(m, bytes, size) ==
  CHOOSE k \in 0 .. Len(m) :
    /\ bytes - Evicted(m, k) + size <= Budget \/ k = Len(m)
    /\ \A j \in 0 .. k - 1 : bytes - Evicted(m, j) + size > Budget

(* A slip: what is already there stays. *)
RememberAlso(e) ==
  LET others == Without(memory, e.source)
      bytes == memoryBytes - OwnBytes(e.source)
  IN IF e.size > Budget
     THEN memory' = others /\ memoryBytes' = bytes
     ELSE memory' = Append(others, e) /\ memoryBytes' = bytes + e.size

(* rememberMemory(): the source's own payload goes first, then the oldest  *)
(* ones until the new one fits; one that never fits is not kept at all.    *)
Remember(e) ==
  LET others == Without(memory, e.source)
      bytes == memoryBytes - OwnBytes(e.source)
      k == Evictions(others, bytes, e.size)
  IN IF e.size > Budget
     THEN memory' = others /\ memoryBytes' = bytes
     ELSE /\ memory' = SubSeq(others, k + 1, Len(others)) \o <<e>>
          /\ memoryBytes' = bytes - Evicted(others, k) + e.size

(* A slip: the payload goes, its bytes stay accounted. *)
ForgetLeaky(s) ==
  /\ memory' = Without(memory, s)
  /\ memoryBytes' = memoryBytes
  /\ unsaved' = unsaved \ {s}

(* forgetMemory() *)
Forget(s) ==
  /\ memory' = Without(memory, s)
  /\ memoryBytes' = memoryBytes - OwnBytes(s)
  /\ unsaved' = unsaved \ {s}

(* cancelSource(): the running write is fenced, the waiting one dropped. *)
Cancelled(s) ==
  IF lane[s].phase = "free" THEN lane
  ELSE [lane EXCEPT ![s].ticket = FALSE, ![s].next = NoJob]

(* The flush and the task recognise a deletion by identity: replacing or   *)
(* removing the request takes it away from both.                           *)
FlushWithout(s) == [flush EXCEPT !.deletions = @ \ {s}]
TaskWithout(s) == IF s \in task.source THEN [task EXCEPT !.owned = FALSE] ELSE task
-----------------------------------------------------------------------------
(* Deletions. *)

(* Once a newer payload is lost the body on disk is too old to be kept, and *)
(* a request that dropped retention is never upgraded.                     *)
CanRetain(s) ==
  IF pending[s] # "none" THEN pending[s] = "retain" ELSE s \notin unsaved \/ Held(s)

(* A request leaves the queue. *)
Dropped(s) ==
  /\ pending' = [pending EXCEPT ![s] = "none"]
  /\ askedBy' = [askedBy EXCEPT ![s] = 0]

(* tombstone(): mask at once; one task at a time, the others wait for the  *)
(* timer.  The new request replaces the one before, whoever asked for it.  *)
Request(s, keep, asker) ==
  LET retain == keep /\ CanRetain(s)
      asked == [pending EXCEPT ![s] = IF retain THEN "retain" ELSE "drop"]
  IN /\ lane' = Cancelled(s)
     /\ pending' = asked
     /\ askedBy' = [askedBy EXCEPT ![s] = asker]
     /\ unsaved' = unsaved \cup {s}
     /\ deletedAt' = [deletedAt EXCEPT ![s] = host'[s].at]
     /\ UNCHANGED <<memory, memoryBytes, accepted>>
     /\ IF task.phase = "none"
        THEN /\ task' = [phase |-> "pin", source |-> {s}, owned |-> TRUE,
                         retain |-> retain, view |-> NoView]
             /\ UNCHANGED timer
        ELSE task' = TaskWithout(s) /\ timer' = Arm(memory, asked)

TaskCurrent(s) == task.owned /\ DeletionWanted(s)

EndTask == task' = NoTask /\ timer' = Arm(memory', pending')

(* What the task leaves in memory when storage fails it, or when the bodies *)
(* it retains were never on disk.                                          *)
Tombstone(s) ==
  [source |-> s, state |-> "tombstone", base |-> task.view.base, size |-> task.view.size,
   body |-> IF task.retain THEN task.view.body ELSE Nothing, pass |-> askedBy[s]]

TaskGivesUp(s) ==
  /\ ~TaskCurrent(s)
  /\ UNCHANGED <<disk, masks, flush, disturbances>>
  /\ EndTask

DeletePins(s) ==
  /\ task.phase = "pin"
  /\ UNCHANGED <<disk, masks, flush>>
  /\ \/ TaskGivesUp(s)
     \/ /\ TaskCurrent(s) /\ Held(s) /\ Undisturbed
        /\ UNCHANGED timer
        /\ \E e \in HeldBy(s) :
             task' = [task EXCEPT !.phase = "activate",
                        !.view = [memory |-> TRUE, body |-> e.body, base |-> e.base, size |-> e.size]]
     \/ /\ TaskCurrent(s) /\ ~Held(s) /\ Undisturbed
        /\ UNCHANGED timer
        /\ task' = IF disk[s].state = "missing" THEN [task EXCEPT !.phase = "absent"]
                   ELSE [task EXCEPT !.phase = "activate", !.view.body = disk[s].body,
                                     !.view.base = disk[s].rev]
     \/ TaskCurrent(s) /\ Disturb /\ EndTask

(* No head: the absence is checked again in a transaction of its own. *)
DeleteAbsent(s) ==
  /\ task.phase = "absent"
  /\ UNCHANGED disk
  /\ \/ TaskGivesUp(s)
     \/ /\ TaskCurrent(s) /\ disk[s].state = "missing" /\ Undisturbed
        /\ Dropped(s)
        /\ flush' = FlushWithout(s)
        /\ Forget(s)
        /\ EndTask
     \/ /\ TaskCurrent(s) /\ disk[s].state # "missing" /\ Undisturbed
        /\ UNCHANGED <<masks, flush>>
        /\ EndTask
     \/ /\ TaskCurrent(s) /\ Disturb
        /\ UNCHANGED <<masks, flush>>
        /\ EndTask

SelectTombstone(s) ==
  /\ task.view.memory \/ task.view.base = disk[s].rev
  /\ disk' = [disk EXCEPT ![s] =
       [state |-> "tombstone", rev |-> disk[s].rev + 1,
        body |-> IF task.retain /\ ~task.view.memory THEN task.view.body ELSE Nothing]]

(* Storage refused, or its answer was lost: the facts in memory become a   *)
(* tombstone, the request stays.                                           *)
DeleteRefused(s) ==
  /\ Disturb
  /\ IF task.view.memory
     THEN Remember(Tombstone(s)) /\ unsaved' = unsaved \cup {s}
     ELSE UNCHANGED <<memory, memoryBytes, unsaved>>
  /\ UNCHANGED <<pending, askedBy, flush>>
  /\ EndTask

DeleteActivates(s) ==
  /\ task.phase = "activate"
  /\ \/ UNCHANGED disk /\ TaskGivesUp(s)
     \/ /\ TaskCurrent(s) /\ Undisturbed
        /\ SelectTombstone(s)
        /\ task' = [task EXCEPT !.phase = "committed"]
        /\ UNCHANGED <<masks, flush, timer>>
     \/ /\ TaskCurrent(s)
        /\ IF task.view.memory THEN Disturb
           ELSE task.view.base # disk[s].rev /\ Undisturbed
        /\ UNCHANGED <<disk, masks, flush>>
        /\ EndTask
     \/ TaskCurrent(s) /\ DeleteRefused(s) /\ UNCHANGED disk
     \/ TaskCurrent(s) /\ DeleteRefused(s) /\ SelectTombstone(s)

(* Only a request that is still the current one takes its masks away. *)
DeleteFinishes(s) ==
  /\ task.phase = "committed"
  /\ UNCHANGED disk
  /\ \/ TaskGivesUp(s)
     \/ /\ TaskCurrent(s) /\ Undisturbed
        /\ Dropped(s)
        /\ flush' = FlushWithout(s)
        /\ IF task.retain /\ task.view.memory
           THEN Remember(Tombstone(s)) /\ unsaved' = unsaved \ {s}
           ELSE Forget(s)
        /\ EndTask

TaskStep(s) ==
  /\ s \in task.source
  /\ DeletePins(s) \/ DeleteAbsent(s) \/ DeleteActivates(s) \/ DeleteFinishes(s)
  /\ UNCHANGED <<host, pass, due, lane, accepted, deletedAt>>
-----------------------------------------------------------------------------
(* Replacements. *)
Busy == {s \in Sources : lane[s].phase # "free"}

(* replace(), called while its facts are current: a pending deletion is    *)
(* dropped before anything else, even before the lanes are found full.     *)
Replace(s, job) ==
  /\ Dropped(s)
  /\ task' = TaskWithout(s)
  /\ lane' = IF lane[s].phase # "free"
             THEN [lane EXCEPT ![s].ticket = FALSE, ![s].next = job]
             ELSE IF Cardinality(Busy) >= MaxWriters THEN lane
             ELSE [lane EXCEPT ![s] = [phase |-> "writing", job |-> job,
                                       ticket |-> TRUE, next |-> NoJob]]

JobCurrent(s) == lane[s].ticket /\ FactsCurrent(s, lane[s].job)

(* drainLane(): the waiting replacement takes over, or the lane is free. *)
EndLane(s) ==
  lane' = IF lane[s].next = NoJob THEN [lane EXCEPT ![s] = FreeLane]
          ELSE [lane EXCEPT ![s] = [phase |-> "writing", job |-> lane[s].next,
                                    ticket |-> TRUE, next |-> NoJob]]

SelectFacts(s) ==
  /\ lane[s].job.base = disk[s].rev
  /\ disk' = [disk EXCEPT ![s] = [state |-> "complete", body |-> lane[s].job.body,
                                  rev |-> disk[s].rev + 1]]

(* acquire() writes once more, all families fresh, when the source it had  *)
(* inspected was saved.                                                    *)
AttemptEnds(s) ==
  \/ EndLane(s)
  \/ /\ lane[s].job.by = "inventory" /\ lane[s].job.base > 0
     /\ lane' = [lane EXCEPT ![s].phase = "writing", ![s].job.by = "again"]

(* A slip: facts that exceed the budget leave no mark. *)
FactsRefusedUnmarked(s) ==
  LET job == lane[s].job
      size == Size[s][job.body]
  IN /\ Disturb
     /\ IF size > Budget THEN UNCHANGED <<memory, memoryBytes, unsaved>>
        ELSE /\ Remember([source |-> s, state |-> "complete", body |-> job.body,
                          base |-> job.base, size |-> size, pass |-> job.pass])
             /\ unsaved' = unsaved \cup {s}
     /\ timer' = Arm(memory', pending)
     /\ accepted' = [accepted EXCEPT ![s] = job.body]
     /\ AttemptEnds(s)

(* Storage refused, or its answer was lost: the facts stay in memory; those *)
(* that exceed the budget are only known to be missing.                    *)
FactsRefused(s) ==
  LET job == lane[s].job
      size == Size[s][job.body]
  IN /\ Disturb
     /\ IF size > Budget THEN UNCHANGED <<memory, memoryBytes>>
        ELSE Remember([source |-> s, state |-> "complete", body |-> job.body,
                       base |-> job.base, size |-> size, pass |-> job.pass])
     /\ unsaved' = unsaved \cup {s}
     /\ timer' = Arm(memory', pending)
     /\ accepted' = [accepted EXCEPT ![s] = job.body]
     /\ AttemptEnds(s)

(* write() up to its activation: cancelled, selected, superseded, refused, *)
(* or rejected because a retained family could not be read.                *)
LaneWrites(s) ==
  /\ lane[s].phase = "writing"
  /\ \/ /\ ~JobCurrent(s)
        /\ EndLane(s)
        /\ UNCHANGED <<disk, memory, memoryBytes, unsaved, timer, disturbances, accepted>>
     \/ /\ JobCurrent(s)
        /\ SelectFacts(s)
        /\ lane' = [lane EXCEPT ![s].phase = "committed"]
        /\ UNCHANGED <<memory, memoryBytes, unsaved, timer, disturbances, accepted>>
     \/ /\ JobCurrent(s) /\ lane[s].job.base # disk[s].rev
        /\ EndLane(s)
        /\ UNCHANGED <<disk, memory, memoryBytes, unsaved, timer, disturbances, accepted>>
     \/ JobCurrent(s) /\ FactsRefused(s) /\ UNCHANGED disk
     \/ JobCurrent(s) /\ FactsRefused(s) /\ SelectFacts(s)
     \/ /\ JobCurrent(s) /\ Disturb
        /\ AttemptEnds(s)
        /\ UNCHANGED <<disk, memory, memoryBytes, unsaved, timer, accepted>>

(* A slip: a committed write clears the masks whoever is current by now. *)
LaneFinishesAnyway(s) ==
  /\ lane[s].phase = "committed"
  /\ EndLane(s)
  /\ Forget(s)
  /\ accepted' = [accepted EXCEPT ![s] = lane[s].job.body]
  /\ UNCHANGED <<disk, timer, disturbances>>

(* The rest of write(): an activation that is no longer live leaves the    *)
(* masks to the request that overtook it.                                  *)
LaneFinishes(s) ==
  /\ lane[s].phase = "committed"
  /\ EndLane(s)
  /\ IF JobCurrent(s)
     THEN Forget(s) /\ accepted' = [accepted EXCEPT ![s] = lane[s].job.body]
     ELSE UNCHANGED <<memory, memoryBytes, unsaved, accepted>>
  /\ UNCHANGED <<disk, timer, disturbances>>

LaneStep(s) ==
  /\ LaneWrites(s) \/ LaneFinishes(s)
  /\ UNCHANGED <<host, pass, due, pending, askedBy, task, flush, deletedAt>>
-----------------------------------------------------------------------------
(* flush() and retryMemory(). *)
FlushStarts ==
  /\ flush.phase = "idle" /\ timer
  /\ timer' = FALSE
  /\ flush' = [flush EXCEPT !.phase = IF Busy = {} THEN "task" ELSE "lanes"]
  /\ UNCHANGED <<disk, masks, lane, task, disturbances>>

FlushAwaitsLanes ==
  /\ flush.phase = "lanes" /\ Busy = {}
  /\ flush' = [flush EXCEPT !.phase = "task"]
  /\ UNCHANGED <<disk, masks, lane, task, timer, disturbances>>

FlushAwaitsTask ==
  /\ flush.phase = "task" /\ task.phase = "none"
  /\ timer' = FALSE
  /\ flush' = [flush EXCEPT !.phase = "deletions",
                            !.deletions = {s \in Sources : pending[s] # "none"}]
  /\ UNCHANGED <<disk, masks, lane, task, disturbances>>

(* A slip: whatever waits is dropped. *)
FlushDropsAny(s) ==
  /\ flush.phase = "deletions" /\ s \in flush.deletions
  /\ Dropped(s)
  /\ flush' = FlushWithout(s)
  /\ task' = TaskWithout(s)
  /\ UNCHANGED <<disk, memory, memoryBytes, unsaved, lane, timer, disturbances>>

(* A deletion whose file exists again, or whose pass was superseded, is    *)
(* not retried; its masks stay.                                            *)
FlushDropsDeletion(s) ==
  /\ flush.phase = "deletions" /\ s \in flush.deletions
  /\ ~DeletionWanted(s)
  /\ Dropped(s)
  /\ flush' = FlushWithout(s)
  /\ task' = TaskWithout(s)
  /\ UNCHANGED <<disk, memory, memoryBytes, unsaved, lane, timer, disturbances>>

FlushRetriesDeletion(s) ==
  /\ flush.phase = "deletions" /\ s \in flush.deletions
  /\ DeletionWanted(s)
  /\ Request(s, pending[s] = "retain", askedBy[s])
  /\ flush' = [FlushWithout(s) EXCEPT !.phase = IF task.phase = "none" THEN "deleting" ELSE @]
  /\ UNCHANGED <<disk, disturbances>>

FlushAwaitsDeletion ==
  /\ flush.phase = "deleting" /\ task.phase = "none"
  /\ flush' = [flush EXCEPT !.phase = "deletions"]
  /\ UNCHANGED <<disk, masks, lane, task, timer, disturbances>>

FlushTurnsToMemory ==
  /\ flush.phase = "deletions" /\ flush.deletions = {}
  /\ flush' = [flush EXCEPT !.phase = "memory", !.entries = memory]
  /\ UNCHANGED <<disk, masks, lane, task, timer, disturbances>>

EndFlush ==
  /\ flush' = IdleFlush
  /\ timer' = (timer \/ memory # <<>> \/ \E s \in Sources : pending[s] # "none")
  /\ UNCHANGED <<disk, masks, lane, task>>

FlushEnds ==
  /\ flush.phase = "memory" /\ flush.entries = <<>>
  /\ EndFlush
  /\ Undisturbed

(* What the catalog must still hold for a remembered payload to be saved. *)
RetryBase(e) == IF e.base = Unavailable THEN 0 ELSE e.base

Retriable(e) ==
  /\ e.state = "complete"
  /\ FactsCurrent(e.source, e)
  /\ lane[e.source].phase = "free"

FlushEntry ==
  /\ flush.phase = "memory" /\ flush.entries # <<>>
  /\ LET e == Head(flush.entries)
         s == e.source
         later == [flush EXCEPT !.entries = Tail(@)]
     IN \/ /\ ~Retriable(e) \/ RetryBase(e) # disk[s].rev
           /\ flush' = later
           /\ UNCHANGED <<disk, masks, lane, task, timer, disturbances>>
        \/ /\ Retriable(e) /\ Disturb
           /\ EndFlush
        \/ /\ Retriable(e) /\ RetryBase(e) = disk[s].rev
           /\ Replace(s, [by |-> "retry", body |-> e.body, base |-> RetryBase(e), pass |-> e.pass])
           /\ flush' = [later EXCEPT !.phase = IF lane' = lane THEN @ ELSE "writing"]
           /\ UNCHANGED <<disk, memory, memoryBytes, unsaved, timer, disturbances>>

RetryWriting(s) ==
  \/ lane[s].phase # "free" /\ lane[s].job.by = "retry"
  \/ lane[s].next # NoJob /\ lane[s].next.by = "retry"

FlushAwaitsWrite ==
  /\ flush.phase = "writing" /\ \A s \in Sources : ~RetryWriting(s)
  /\ flush' = [flush EXCEPT !.phase = "memory"]
  /\ UNCHANGED <<disk, masks, lane, task, timer, disturbances>>

FlushStep ==
  \/ /\ \/ FlushStarts \/ FlushAwaitsLanes \/ FlushAwaitsTask \/ FlushAwaitsDeletion
        \/ FlushTurnsToMemory \/ FlushEntry \/ FlushAwaitsWrite \/ FlushEnds
        \/ \E s \in Sources : FlushDropsDeletion(s)
     /\ UNCHANGED <<host, pass, due, history>>
  \/ /\ UNCHANGED <<host, pass, due>>
     /\ \E s \in Sources : FlushRetriesDeletion(s)
-----------------------------------------------------------------------------
(* The vault and the inventory of SourceAcquisition, which every event asks *)
(* for.  A broad pass goes on across a change of a known file; a file that  *)
(* comes or goes supersedes it.                                            *)
WholeInventory == {x \in Sources : host'[x].present \/ disk[x].state = "complete"}

HostWrites(s) ==
  /\ host[s].at < MaxEvents[s]
  /\ host' = [host EXCEPT ![s] = [at |-> host[s].at + 1, present |-> TRUE]]
  /\ pass' = IF host[s].present THEN pass ELSE pass + 1
  /\ due' = WholeInventory
  /\ lane' = Cancelled(s)
  /\ UNCHANGED <<disk, masks, task, flush, timer, disturbances, history>>

(* A deletion, or with keep a rename that may want the body. *)
HostDeletes(s, keep) ==
  /\ host[s].present /\ host[s].at < MaxEvents[s]
  /\ host' = [host EXCEPT ![s] = [at |-> host[s].at + 1, present |-> FALSE]]
  /\ pass' = pass + 1
  /\ due' = WholeInventory
  /\ Request(s, keep, 0)
  /\ flush' = FlushWithout(s)
  /\ UNCHANGED <<disk, disturbances>>

(* A slip: the drift is noticed, no pass is asked for. *)
PassSupersededQuietly ==
  /\ Disturb
  /\ pass' = pass + 1
  /\ UNCHANGED <<host, due, disk, masks, lane, task, flush, timer, history>>

(* The environment or the link resolution drifted, or a rebuild pauses the *)
(* inventory: whatever the pass asked for or read is void, and the next    *)
(* one looks at everything.                                                *)
PassSuperseded ==
  /\ Disturb
  /\ pass' = pass + 1
  /\ UNCHANGED host
  /\ due' = WholeInventory
  /\ UNCHANGED <<disk, masks, lane, task, flush, timer, history>>

(* A slip: facts in memory count as saved. *)
SavedOrHeld(s) ==
  /\ pending[s] = "none"
  /\ \/ \E e \in HeldBy(s) : e.state = "complete" /\ e.body = host[s].at
     \/ s \notin unsaved /\ disk[s].state = "complete" /\ disk[s].body = host[s].at

Saved(s) ==
  /\ pending[s] = "none" /\ ~Held(s) /\ s \notin unsaved
  /\ disk[s].state = "complete" /\ disk[s].body = host[s].at

(* acquire(): what inspect() expects of the catalog, read afresh when the  *)
(* inspection could not tell.                                              *)
Inspected(s, base) ==
  LET told == IF pending[s] = "none" THEN {e.base : e \in HeldBy(s)} ELSE {}
  IN IF told \subseteq {Unavailable}
     THEN (base = disk[s].rev /\ Undisturbed) \/ (base = Unavailable /\ Disturb)
     ELSE base \in told /\ Undisturbed

InventoryAcquires(s) ==
  /\ host[s].present /\ ~Saved(s)
  /\ \E base \in {disk[s].rev, Unavailable} \cup {e.base : e \in HeldBy(s)} :
       /\ Inspected(s, base)
       /\ Replace(s, [by |-> "inventory", body |-> host[s].at, base |-> base, pass |-> pass])
  /\ flush' = FlushWithout(s)
  /\ UNCHANGED <<disk, memory, memoryBytes, unsaved, timer, history>>

InventoryRetires(s, keep) ==
  /\ ~host[s].present /\ disk[s].state = "complete"
  /\ Request(s, keep, pass)
  /\ flush' = FlushWithout(s)
  /\ UNCHANGED <<disk, disturbances>>

InventorySkips(s) ==
  /\ IF host[s].present THEN Saved(s) ELSE disk[s].state # "complete"
  /\ UNCHANGED <<disk, masks, lane, task, flush, timer, disturbances, history>>

Inventory(s) ==
  /\ s \in due
  /\ due' = due \ {s}
  /\ UNCHANGED <<host, pass>>
  /\ \/ InventoryAcquires(s)
     \/ \E keep \in BOOLEAN : InventoryRetires(s, keep)
     \/ InventorySkips(s)

(* A pass that left a file unsaved was incomplete, and is taken up again   *)
(* once it has ended: by a timer, so not before a flush that awaited the   *)
(* lanes goes on, which a promise tells it.                                *)
Acquiring(s) ==
  \/ lane[s].phase # "free" /\ lane[s].job.by # "retry"
  \/ lane[s].next # NoJob /\ lane[s].next.by # "retry"

InventoryRepeats ==
  /\ due = {} /\ \A s \in Sources : ~Acquiring(s)
  /\ flush.phase # "lanes"
  /\ due' = {s \in Sources : host[s].present /\ ~Saved(s)}
  /\ UNCHANGED <<host, pass, disk, masks, lane, task, flush, timer, disturbances, history>>

(* Another connection selects a head of its own for the same file. *)
OtherActivates(s) ==
  /\ host[s].present
  /\ Disturb
  /\ disk' = [disk EXCEPT ![s] = [state |-> "complete", body |-> host[s].at,
                                  rev |-> disk[s].rev + 1]]
  /\ UNCHANGED <<host, pass, due, masks, lane, task, flush, timer, history>>

Next ==
  \/ \E s \in Sources : HostWrites(s)
  \/ \E s \in Sources, keep \in BOOLEAN : HostDeletes(s, keep)
  \/ PassSuperseded
  \/ \E s \in Sources : Inventory(s)
  \/ InventoryRepeats
  \/ \E s \in Sources : OtherActivates(s)
  \/ \E s \in Sources : LaneStep(s)
  \/ \E s \in Sources : TaskStep(s)
  \/ FlushStep

Spec == Init /\ [][Next]_vars

(* Storage answers, promises are continued and timers fire; the timer of   *)
(* requestInventory() and the poll take every pass up.                     *)
FairSpec ==
  /\ Spec
  /\ \A s \in Sources : WF_vars(LaneStep(s)) /\ WF_vars(TaskStep(s)) /\ WF_vars(Inventory(s))
  /\ WF_vars(FlushStep) /\ WF_vars(InventoryRepeats)
-----------------------------------------------------------------------------
(* The bytes accounted to the unsaved memory are those of its payloads,    *)
(* after any sequence of remembering, evicting and forgetting.             *)
BytesExact == memoryBytes = BytesOf(memory)

(* A reader never gets facts older than the newest ones the repository     *)
(* took over: not from memory, and not from a disk head whose successor    *)
(* was lost to eviction.                                                   *)
NoOlderFacts == \A s \in Sources : ReaderView(s).from # "nowhere" => ReaderView(s).body >= accepted[s]

(* The same of readSelected(), also for sources that exceed the whole      *)
(* memory budget: nothing remembers their facts, so only the mark keeps    *)
(* the older head on disk, and the check of currency keeps an older        *)
(* payload, from standing in for them.                                     *)
NoOlderSelection ==
  \A s \in Sources : SelectedView(s).from # "nowhere" => SelectedView(s).body >= accepted[s]

(* A disk head that a deletion was asked for is never read as live facts   *)
(* again, whether the deletion was carried out, retried, or dropped        *)
(* because the file came back.                                             *)
DeletedStaysMasked ==
  \A s \in Sources : ReaderView(s).from = "disk" => disk[s].body > deletedAt[s]

(* A body that a rename may reuse is never older than the newest facts the *)
(* repository took over ("If a newer unsaved payload was evicted, the      *)
(* older disk body's families cannot be retained for a rename").           *)
NoOlderBody ==
  \A s \in Sources : BodyView(s).body # Nothing => BodyView(s).body >= accepted[s]

(* While its file is gone a deletion leaves the queue with the durable head *)
(* retired, or because the pass that asked for it was superseded: then the *)
(* source stays masked and the next pass looks at it again.  Neither a     *)
(* retried payload nor the flush loses it.                                 *)
DeletionsKept ==
  [][\A s \in Sources : pending[s] # "none" /\ pending'[s] = "none" /\ ~host'[s].present
       => disk'[s].state # "complete" \/ s \in unsaved' \cap due']_vars

(* The head of a file that is gone is retired in the end, and its deletion *)
(* leaves the queue, however many passes were superseded and transactions  *)
(* failed, or the file comes back.                                         *)
DeletionsSettle ==
  \A s \in Sources :
    ~host[s].present /\ (pending[s] # "none" \/ disk[s].state = "complete")
      ~> host[s].present \/ (pending[s] = "none" /\ disk[s].state # "complete")

(* Facts of an unchanged file that still fit the catalog do not stay in    *)
(* memory for ever, though the retry skips them once their pass was        *)
(* superseded.                                                             *)
Savable(s) ==
  \E e \in HeldBy(s) :
    /\ e.state = "complete"
    /\ Unchanged(s, e.body)
    /\ RetryBase(e) = disk[s].rev

HeldFactsSaved == \A s \in Sources : Savable(s) ~> ~Savable(s)
=============================================================================
