----------------------- MODULE SettingsReconciliation -----------------------
(***************************************************************************)
(* One settings file and two writers: this window's queue of saves and     *)
(* whatever replaces the file from outside                                 *)
(* (src/src/adapters/obsidian/settingsReconciliation.ts and its host in    *)
(* src/src/main.ts).                                                       *)
(*                                                                         *)
(* A control changes the live settings and submits an intent: the keys it  *)
(* changed, with the remote epoch of each key.  A form leaves the live     *)
(* settings alone until its key is saved.  Saves run one at a time; each   *)
(* first reads the file and adopts what it finds.  The host's notices are  *)
(* read beside the queue, leave a candidate, and queue its adoption.       *)
(*                                                                         *)
(* A key stands for a domain: what conflicts and merges as a whole.  Every *)
(* await is a boundary between actions.                                    *)
(***************************************************************************)
EXTENDS Integers, Sequences, FiniteSetsExt, Functions

CONSTANTS
  Keys,
  Forms,           \* the keys that are edited by forms only
  Values,
  Submitted,       \* the values that the control or the form of a key produces
  Normal,          \* what migration and defaults make of a value
  InitialFile,
  Incoming,        \* the contents another device may store
  Attempts,        \* reads that one notification may take (3 in the code)
  MaxAnnounced,    \* replacements, and saves of its own the window is told of (a bound)
  MaxSubmissions,  \* local saves (a bound)
  MaxFailures,     \* failed reads and rejected writes (a bound)
  Torn,            \* contents that are no settings
  None             \* no contents: a failed read, an absent value

Snapshots == [Keys -> Values]
Candidates == [raw : Snapshots, snapshot : Snapshots, base : Snapshots, overwritten : BOOLEAN]

ASSUME SettingsAssumption ==
  /\ Forms \subseteq Keys
  /\ \A k \in Keys : Submitted[k] \subseteq Values
  /\ Normal \in [Values -> Values]
  /\ \A v \in Values : Normal[Normal[v]] = Normal[v]
  /\ InitialFile \in Snapshots /\ Incoming \subseteq Snapshots
  /\ Attempts \in Nat \ {0}
  /\ {MaxAnnounced, MaxSubmissions, MaxFailures} \subseteq Nat
  /\ {Torn, None} \cap (Values \cup Snapshots \cup Candidates) = {}
  /\ Torn # None

VARIABLES
  file,          \* what is stored, or Torn while it is torn or missing
  notices,       \* what the host has not told of yet
  live,          \* the settings the window works with
  accepted,      \* the effective snapshot agreed with the file
  expected,      \* expectedDisk: the raw contents it came from
  cursor,        \* what the next submission is compared with
  versions,      \* the remote epoch of each key
  generation,    \* notifications received
  attempted,     \* the newest notification some read answered
  reading,       \* the read beside the queue
  candidate,     \* what it found, or None
  failedRead,
  writeRevision,
  queue,         \* settingsWriteQueue, the running job first
  run,           \* how far that job is
  closed,
  announced, submissions, failures,
  content,       \* history: the last whole contents of the file
  foreign,       \* history: how often another writer changed each key
  raced,         \* history: was the file replaced behind a save's check
  overtaken,     \* history: was it replaced behind a read that overtakes a check
  beside,        \* history: did a save go on beside the read of a newer notice
  restored,      \* history: did a check find the expected contents put back
  unverified,    \* history: did the file stay unread after a rejected save
  received,      \* history: what the newest evidence changed, per key
  wanted,        \* history: the last value submitted for each key
  rewritten      \* history: was a value submitted that migration changes

host == <<file, notices, closed>>
owned == <<live, accepted, expected, cursor, versions>>
read == <<generation, attempted, reading, candidate, failedRead>>
write == <<writeRevision, queue, run>>
bounds == <<announced, submissions, failures>>
chances == <<raced, overtaken, beside, restored, unverified>>
requests == <<wanted, rewritten>>
history == <<content, foreign, chances, received, requests>>
vars == <<file, notices, live, accepted, expected, cursor, versions, generation, attempted,
          reading, candidate, failedRead, writeRevision, queue, run, closed, announced,
          submissions, failures, content, foreign, raced, overtaken, beside, restored, unverified,
          received, wanted, rewritten>>

Normalized(raw) == [k \in Keys |-> Normal[raw[k]]]

(* A snapshot has each key as it is stored or as migration leaves it. *)
Agrees(snapshot, raw) == \A k \in Keys : snapshot[k] \in {raw[k], Normal[raw[k]]}

(* Edits: the keys that change, with their new values. *)
Edits == UNION {[changed -> Values] : changed \in SUBSET Keys}
EditsBetween(before, after) == Restrict(after, {k \in Keys : before[k] # after[k]})

(* applyEdits() *)
Applied(settings, edits) ==
  [k \in DOMAIN settings \cup DOMAIN edits |-> IF k \in DOMAIN edits THEN edits[k] ELSE settings[k]]

NoEdits == EditsBetween(InitialFile, InitialFile)

NoRead == [phase |-> "idle", attempt |-> 0, generation |-> 0, revision |-> 0,
           writing |-> FALSE, base |-> InitialFile, raw |-> None]
NoRun == [phase |-> "idle", generation |-> 0, raw |-> None, next |-> None]

Jobs == [kind : {"control", "form", "adopt"}, edits : Edits, versions : [Keys -> Nat], entry : Edits]
AdoptJob == [kind |-> "adopt", edits |-> NoEdits, versions |-> [k \in Keys |-> 0], entry |-> NoEdits]

Readings == [phase : {"idle", "asked", "taken", "waiting"}, attempt : 0 .. Attempts,
             generation : Nat, revision : Nat, writing : BOOLEAN, base : Snapshots,
             raw : Snapshots \cup {Torn, None}]

Runs == [phase : {"idle", "awaiting", "awake", "checking", "checked", "reawaiting", "rewoken",
                  "refused", "prepared", "saving", "landed", "verifying", "verified"},
         generation : Nat, raw : Snapshots \cup {Torn, None}, next : Snapshots \cup {None}]

Writing == run.phase \in {"saving", "landed", "verifying", "verified"}

TypeOK ==
  /\ file \in Snapshots \cup {Torn}
  /\ announced \in 0 .. MaxAnnounced /\ notices \in 0 .. announced
  /\ {live, accepted, expected, cursor} \subseteq Snapshots
  /\ versions \in [Keys -> Nat]
  /\ generation \in Nat /\ attempted \in 0 .. generation
  /\ reading \in Readings
  /\ reading.phase = "waiting" => reading.attempt < Attempts
  /\ candidate \in Candidates \cup {None}
  /\ {failedRead, closed, raced, overtaken, beside, restored, unverified, rewritten} \subseteq BOOLEAN
  /\ writeRevision \in Nat /\ submissions \in Nat
  /\ queue \in Seq(Jobs)
  /\ run \in Runs
  /\ run.phase # "idle" => queue # <<>>
  /\ Writing => run.next \in Snapshots

Init ==
  /\ file = InitialFile
  /\ notices = 0
  /\ live = Normalized(InitialFile)
  /\ accepted = Normalized(InitialFile)
  /\ expected = InitialFile
  /\ cursor = Normalized(InitialFile)
  /\ versions = [k \in Keys |-> 0]
  /\ generation = 0
  /\ attempted = 0
  /\ reading = NoRead
  /\ candidate = None
  /\ failedRead = FALSE
  /\ writeRevision = 0
  /\ queue = <<>>
  /\ run = NoRun
  /\ closed = FALSE
  /\ announced = 0 /\ submissions = 0 /\ failures = 0
  /\ content = InitialFile
  /\ foreign = [k \in Keys |-> 0]
  /\ raced = FALSE /\ overtaken = FALSE /\ beside = FALSE /\ restored = FALSE
  /\ unverified = FALSE /\ rewritten = FALSE
  /\ received = [k \in Keys |-> None]
  /\ wanted = Normalized(InitialFile)
-----------------------------------------------------------------------------
(* A slip: a queued intent is shown again whatever was received since. *)
CurrentAlways(job, epochs) == DOMAIN job.edits

(* An intent's edits whose keys no remote change has taken over since. *)
Current(job, epochs) == {k \in DOMAIN job.edits : job.versions[k] = epochs[k]}

(* The snapshot with the intents that still wait for their save: the last  *)
(* one that still has a key decides.                                       *)
Visible(snapshot, epochs, jobs) ==
  [k \in Keys |->
     LET owning == {i \in DOMAIN jobs : k \in Current(jobs[i], epochs)}
     IN IF owning = {} THEN snapshot[k] ELSE jobs[Max(owning)].edits[k]]

(* A slip: what a save overwrote is adopted as it was read. *)
MergedAsRead(c) == c.snapshot

(* What was read while a save was in progress does not have that save's    *)
(* keys: they are put back, unless the other writer changed them too.      *)
Merged(c) ==
  LET theirs == DOMAIN EditsBetween(c.base, c.snapshot)
      ours == EditsBetween(c.base, accepted)
  IN IF c.overwritten THEN Applied(c.snapshot, Restrict(ours, DOMAIN ours \ theirs)) ELSE c.snapshot

(* adopt().  Installing migrates once more, the intents it shows included, *)
(* while the cursor keeps their values as they were submitted.             *)
Adopt(c) ==
  LET merged == Merged(c)
      changed == DOMAIN EditsBetween(accepted, merged)
      epochs == [k \in Keys |-> IF k \in changed THEN versions[k] + 1 ELSE versions[k]]
      visible == Visible(merged, epochs, queue)
  IN /\ expected' = IF c.overwritten THEN expected ELSE c.raw
     /\ IF changed = {} THEN UNCHANGED <<accepted, versions, cursor, live>>
        ELSE accepted' = merged /\ versions' = epochs /\ cursor' = visible /\ live' = Normalized(visible)

AdoptCandidate ==
  /\ candidate' = None
  /\ IF candidate = None THEN UNCHANGED owned ELSE Adopt(candidate)

(* History: what a piece of evidence says that its base did not. *)
Evidence(base, snapshot) ==
  received' = [k \in Keys |-> IF base[k] # snapshot[k] THEN snapshot[k] ELSE None]

(* A read takes the file as it is at some moment; it may also fail. *)
Take(raw) ==
  \/ raw = file /\ UNCHANGED failures
  \/ raw = None /\ failures < MaxFailures /\ failures' = failures + 1
-----------------------------------------------------------------------------
(* notice() and readNotices(). *)
Asked(attempt, gen) ==
  [phase |-> "asked", attempt |-> attempt, generation |-> gen, revision |-> writeRevision,
   writing |-> Writing, base |-> accepted, raw |-> None]

Notice ==
  /\ notices > 0
  /\ notices' = notices - 1
  /\ IF closed THEN UNCHANGED read
     ELSE /\ generation' = generation + 1
          /\ IF reading.phase = "idle"
             THEN reading' = Asked(1, generation + 1) /\ attempted' = generation + 1
             ELSE UNCHANGED <<reading, attempted>>
          /\ UNCHANGED <<candidate, failedRead>>
  /\ UNCHANGED <<file, closed, owned, write, bounds, history>>

(* The job that awaits this read goes on. *)
Woken ==
  CASE run.phase = "awaiting" -> [run EXCEPT !.phase = "awake"]
    [] run.phase = "reawaiting" -> [run EXCEPT !.phase = "rewoken"]
    [] OTHER -> run

(* queueExternalSettingsAdoption(): one adoption at a time in the queue. *)
Scheduled == IF \E i \in DOMAIN queue : queue[i].kind = "adopt" THEN queue ELSE Append(queue, AdoptJob)

(* The read is over; notices it did not answer start another one. *)
ReadEnds ==
  /\ run' = Woken
  /\ queue' = IF closed THEN queue ELSE Scheduled
  /\ IF ~closed /\ attempted # generation
     THEN /\ generation' = generation + 1 /\ attempted' = generation + 1
          /\ reading' = Asked(1, generation + 1)
     ELSE reading' = NoRead /\ UNCHANGED <<generation, attempted>>

ReadTakes ==
  /\ reading.phase = "asked"
  /\ \E raw \in {file, None} :
       /\ Take(raw)
       /\ reading' = [reading EXCEPT !.phase = "taken", !.raw = raw]
  /\ UNCHANGED <<host, owned, generation, attempted, candidate, failedRead, write,
                 announced, submissions, history>>

ReadAgain ==
  /\ reading' = Asked(reading.attempt + 1, generation)
  /\ attempted' = generation
  /\ UNCHANGED <<generation, queue, run>>

(* The continuation of ports.read(): closed, failed, overtaken by a newer  *)
(* notice, or a candidate.                                                 *)
ReadReturns ==
  /\ reading.phase = "taken"
  /\ \/ closed /\ ReadEnds /\ UNCHANGED <<candidate, failedRead, received>>
     \/ /\ ~closed
        /\ reading.raw = None \/ (reading.raw = Torn /\ reading.generation = generation)
        /\ failedRead' = TRUE
        /\ IF reading.attempt < Attempts
           THEN /\ reading' = [NoRead EXCEPT !.phase = "waiting", !.attempt = reading.attempt]
                /\ UNCHANGED <<generation, attempted, queue, run>>
           ELSE ReadEnds
        /\ UNCHANGED <<candidate, received>>
     \/ /\ ~closed /\ reading.raw # None /\ reading.generation # generation
        /\ IF reading.attempt < Attempts THEN ReadAgain ELSE ReadEnds
        /\ UNCHANGED <<candidate, failedRead, received>>
     \/ /\ ~closed /\ reading.raw \notin {None, Torn} /\ reading.generation = generation
        /\ candidate' = [raw |-> reading.raw, snapshot |-> Normalized(reading.raw), base |-> reading.base,
                         overwritten |-> reading.writing \/ Writing \/ reading.revision # writeRevision]
        /\ failedRead' = FALSE
        /\ Evidence(reading.base, Normalized(reading.raw))
        /\ ReadEnds
  /\ UNCHANGED <<host, owned, writeRevision, bounds, content, foreign, chances, requests>>

ReadRetries ==
  /\ reading.phase = "waiting"
  /\ IF closed THEN ReadEnds ELSE ReadAgain
  /\ UNCHANGED <<host, owned, candidate, failedRead, writeRevision, bounds, history>>
-----------------------------------------------------------------------------
(* capture() and enqueueSettingsWrite(). *)

(* A slip: the cursor stays, so an undo before the save is no edit. *)
SubmitFromAccepted(kind, settings, entry) ==
  /\ submissions < MaxSubmissions /\ ~closed
  /\ live' = settings
  /\ queue' = Append(queue, [kind |-> kind, edits |-> EditsBetween(accepted, settings),
                             versions |-> versions, entry |-> entry])
  /\ UNCHANGED cursor
  /\ submissions' = submissions + 1

Submit(kind, settings, entry) ==
  /\ submissions < MaxSubmissions /\ ~closed
  /\ live' = settings
  /\ queue' = Append(queue, [kind |-> kind, edits |-> EditsBetween(cursor, settings),
                             versions |-> versions, entry |-> entry])
  /\ cursor' = settings
  /\ submissions' = submissions + 1

UseControl(k, v) ==
  /\ k \notin Forms /\ v \in Submitted[k] \ {live[k]}
  /\ Submit("control", [live EXCEPT ![k] = v], NoEdits)
  /\ wanted' = [wanted EXCEPT ![k] = v]
  /\ rewritten' = (rewritten \/ Normal[v] # v)
  /\ UNCHANGED <<host, accepted, expected, versions, read, writeRevision, run, announced,
                 failures, content, foreign, chances, received>>

SubmitForm(k, v) ==
  /\ k \in Forms /\ v \in Submitted[k] \ {live[k]}
  /\ Submit("form", live, [key \in {k} |-> v])
  /\ wanted' = [wanted EXCEPT ![k] = v]
  /\ rewritten' = (rewritten \/ Normal[v] # v)
  /\ UNCHANGED <<host, accepted, expected, versions, read, writeRevision, run, announced,
                 failures, content, foreign, chances, received>>
-----------------------------------------------------------------------------
(* The running job. *)
Job == Head(queue)

(* A slip: the queue goes on without the context of its job being left. *)
FinishWithin(snapshot) ==
  /\ queue' = Tail(queue)
  /\ run' = run
  /\ cursor' = Visible(snapshot, versions, Tail(queue))

(* finish(), and the queue goes on. *)
Finish(snapshot) ==
  /\ queue' = Tail(queue)
  /\ run' = NoRun
  /\ cursor' = Visible(snapshot, versions, Tail(queue))

JobAwaits ==
  /\ run.phase = "idle" /\ queue # <<>> /\ reading.phase # "idle"
  /\ run' = [run EXCEPT !.phase = "awaiting"]
  /\ UNCHANGED <<host, owned, read, writeRevision, queue, bounds, history>>

(* prepare(): the candidate is adopted before the file is read again; an   *)
(* adoption is no more than that.                                          *)
JobPrepares ==
  /\ run.phase = "awake" \/ (run.phase = "idle" /\ queue # <<>> /\ reading.phase = "idle")
  /\ ~closed
  /\ AdoptCandidate
  /\ IF Job.kind = "adopt" THEN queue' = Tail(queue) /\ run' = NoRun
     ELSE /\ run' = [run EXCEPT !.phase = "checking", !.generation = generation]
          /\ UNCHANGED queue
  /\ beside' = (beside \/ (Job.kind # "adopt" /\ reading.phase # "idle"))
  /\ UNCHANGED <<host, generation, attempted, reading, failedRead, writeRevision, bounds,
                 content, foreign, raced, overtaken, restored, unverified, received, requests>>

(* Refused: closed, unreadable, or the keys belong to a remote change. *)
Refused ==
  /\ Finish(accepted)
  /\ UNCHANGED <<live, accepted, expected, versions>>

JobMeetsClose ==
  /\ closed
  /\ \/ run.phase \in {"awake", "checked", "rewoken", "prepared"}
     \/ run.phase = "idle" /\ queue # <<>> /\ reading.phase = "idle"
  /\ Refused
  /\ UNCHANGED <<host, read, writeRevision, bounds, history>>

CheckTakes ==
  /\ run.phase = "checking"
  /\ \E raw \in {file, None} : Take(raw) /\ run' = [run EXCEPT !.phase = "checked", !.raw = raw]
  /\ UNCHANGED <<host, owned, read, writeRevision, queue, announced, submissions, history>>

CheckReturns ==
  /\ run.phase = "checked" /\ ~closed
  /\ \/ /\ run.raw = None \/ (run.raw = Torn /\ run.generation = generation)
        /\ Refused
        /\ UNCHANGED <<failedRead, received, restored>>
     \/ /\ run.raw # None /\ run.generation # generation
        /\ run' = [NoRun EXCEPT !.phase = IF reading.phase = "idle" THEN "rewoken" ELSE "reawaiting"]
        /\ UNCHANGED <<owned, failedRead, queue, received, restored>>
     \/ /\ run.raw \notin {None, Torn, expected} /\ run.generation = generation
        /\ Adopt([raw |-> run.raw, snapshot |-> Normalized(run.raw), base |-> accepted, overwritten |-> FALSE])
        /\ Evidence(accepted, Normalized(run.raw))
        /\ failedRead' = FALSE
        /\ run' = [NoRun EXCEPT !.phase = "prepared"]
        /\ UNCHANGED <<queue, restored>>
     \/ /\ run.raw = expected /\ run.generation = generation
        /\ IF failedRead THEN Refused
           ELSE run' = [NoRun EXCEPT !.phase = "prepared"] /\ UNCHANGED <<owned, queue>>
        /\ restored' = (restored \/ ~Agrees(accepted, expected))
        /\ UNCHANGED <<failedRead, received>>
  /\ UNCHANGED <<host, generation, attempted, reading, candidate, writeRevision, bounds,
                 content, foreign, raced, overtaken, beside, unverified, requests>>

(* A notice overtook the check: what its read found is adopted instead.    *)
JobReprepares ==
  /\ run.phase = "rewoken" /\ ~closed
  /\ AdoptCandidate
  /\ run' = [run EXCEPT !.phase = IF failedRead THEN "refused" ELSE "prepared"]
  /\ beside' = (beside \/ reading.phase # "idle")
  /\ UNCHANGED <<host, generation, attempted, reading, failedRead, writeRevision, queue, bounds,
                 content, foreign, raced, overtaken, restored, unverified, received, requests>>

JobIsRefused ==
  /\ run.phase = "refused"
  /\ Refused
  /\ UNCHANGED <<host, read, writeRevision, bounds, history>>

(* settingsForWrite(): the agreed settings with the intent, migrated. *)
View == Normalized(Applied(accepted, Job.edits))

(* What the job saves: its intent, and the entry of a form. *)
JobEdits == Applied(Job.edits, EditsBetween(View, Applied(View, Job.entry)))

Unchanged == Job.kind = "form" /\ Applied(View, Job.entry) = View

(* A slip: the whole live settings are written. *)
WholeLive(edits) == Applied(live, edits)

Rebased(edits) == Applied(accepted, edits)

(* assertCurrent() and commit(), up to the write. *)
JobCommits ==
  /\ run.phase = "prepared" /\ ~closed
  /\ LET edits == JobEdits
         changed == DOMAIN edits
     IN IF changed = {} \/ Unchanged \/ \E k \in changed : Job.versions[k] # versions[k]
        THEN Refused /\ UNCHANGED <<writeRevision, received>>
        ELSE /\ writeRevision' = writeRevision + 1
             /\ run' = [run EXCEPT !.phase = "saving", !.next = Rebased(edits)]
             /\ received' = [k \in Keys |-> IF k \in changed THEN None ELSE received[k]]
             /\ UNCHANGED <<owned, queue>>
  /\ UNCHANGED <<host, read, bounds, content, foreign, chances, requests>>

(* The host knows its own save, or tells of it as of another's. *)
SaveLands ==
  /\ run.phase = "saving"
  /\ file' = run.next /\ content' = run.next
  /\ run' = [run EXCEPT !.phase = "landed"]
  /\ \/ UNCHANGED <<notices, announced>>
     \/ announced < MaxAnnounced /\ announced' = announced + 1 /\ notices' = notices + 1
  /\ UNCHANGED <<closed, owned, read, writeRevision, queue, submissions, failures, foreign, chances,
                 received, requests>>

(* A slip: what was read before the save is out of date, whatever it says. *)
AcceptWriteAlone ==
  /\ accepted' = run.next /\ expected' = run.next
  /\ candidate' = None

(* acceptWrite() *)
AcceptWrite ==
  /\ accepted' = run.next /\ expected' = run.next
  /\ candidate' = IF candidate # None /\ candidate.raw # run.next
                  THEN [candidate EXCEPT !.overwritten = TRUE] ELSE candidate

Saved ==
  /\ AcceptWrite
  /\ live' = Applied(live, Job.entry)
  /\ Finish(run.next)
  /\ UNCHANGED versions

SaveReturns ==
  /\ run.phase = "landed"
  /\ IF closed THEN Refused /\ UNCHANGED candidate ELSE Saved
  /\ UNCHANGED <<host, generation, attempted, reading, failedRead, writeRevision, bounds, history>>

(* Rejected, stored or not: the file is read back, nothing is replayed. *)
SaveRejected ==
  /\ run.phase \in {"saving", "landed"}
  /\ failures < MaxFailures /\ failures' = failures + 1
  /\ run' = [run EXCEPT !.phase = "verifying", !.generation = generation]
  /\ UNCHANGED <<host, owned, read, writeRevision, queue, announced, submissions, history>>

VerifyTakes ==
  /\ run.phase = "verifying"
  /\ \E raw \in {file, None} : Take(raw) /\ run' = [run EXCEPT !.phase = "verified", !.raw = raw]
  /\ UNCHANGED <<host, owned, read, writeRevision, queue, announced, submissions, history>>

VerifyReturns ==
  /\ run.phase = "verified"
  /\ \/ /\ run.raw = run.next /\ ~closed
        /\ Saved
        /\ UNCHANGED <<failedRead, received>>
     \/ /\ run.raw # run.next \/ closed
        /\ Finish(accepted)
        /\ UNCHANGED <<live, accepted, versions>>
        /\ \/ /\ run.raw = None \/ (run.raw = Torn /\ ~closed /\ run.generation = generation)
              /\ failedRead' = TRUE
              /\ UNCHANGED <<candidate, expected, received>>
           \/ /\ run.raw # None /\ (closed \/ run.generation # generation)
              /\ UNCHANGED <<failedRead, candidate, expected, received>>
           \/ /\ run.raw \notin {None, Torn} /\ ~closed /\ run.generation = generation
              /\ failedRead' = FALSE
              /\ IF run.raw = expected THEN UNCHANGED <<candidate, expected, received>>
                 ELSE /\ expected' = run.raw
                      /\ candidate' = [raw |-> run.raw, snapshot |-> Normalized(run.raw),
                                       base |-> accepted, overwritten |-> FALSE]
                      /\ Evidence(accepted, Normalized(run.raw))
  /\ unverified' = (unverified \/ run.raw = None)
  /\ UNCHANGED <<host, generation, attempted, reading, writeRevision, bounds, content, foreign,
                 raced, overtaken, beside, restored, requests>>
-----------------------------------------------------------------------------
(* Outside: another device replaces the file, or it is torn or missing for *)
(* a while; the host tells later.                                          *)
Checked == run.phase \notin {"idle", "awaiting", "awake", "checking"}
Overtaken == run.phase = "checking" /\ generation # run.generation /\ reading.phase # "asked"

Replaced(f) ==
  /\ announced < MaxAnnounced /\ f # file
  /\ announced' = announced + 1
  /\ notices' = notices + 1
  /\ file' = f
  /\ raced' = (raced \/ Checked)
  /\ overtaken' = (overtaken \/ Overtaken)
  /\ UNCHANGED <<closed, owned, read, write, submissions, beside, restored, unverified,
                 received, requests>>

OtherWrites(f) ==
  /\ Replaced(f)
  /\ content' = f
  /\ foreign' = [k \in Keys |-> IF Normal[f[k]] # Normal[content[k]] THEN foreign[k] + 1 ELSE foreign[k]]
  /\ UNCHANGED failures

FileTorn ==
  /\ Replaced(Torn)
  /\ failures < MaxFailures /\ failures' = failures + 1
  /\ UNCHANGED <<content, foreign>>

(* dispose() *)
Dispose ==
  /\ ~closed /\ closed' = TRUE
  /\ candidate' = None
  /\ generation' = generation + 1
  /\ UNCHANGED <<file, notices, owned, attempted, reading, failedRead, write, bounds, history>>

Next ==
  \/ \E k \in Keys, v \in Values : UseControl(k, v) \/ SubmitForm(k, v)
  \/ Notice \/ ReadTakes \/ ReadReturns \/ ReadRetries
  \/ JobAwaits \/ JobPrepares \/ JobMeetsClose \/ CheckTakes \/ CheckReturns \/ JobReprepares
  \/ JobIsRefused \/ JobCommits \/ SaveLands \/ SaveReturns \/ SaveRejected \/ VerifyTakes
  \/ VerifyReturns
  \/ \E f \in Incoming : OtherWrites(f)
  \/ FileTorn
  \/ Dispose

Spec == Init /\ [][Next]_vars
-----------------------------------------------------------------------------
(* Nothing is under way: every notice was given, read and adopted, every   *)
(* save has ended.                                                         *)
Quiet == notices = 0 /\ reading.phase = "idle" /\ queue = <<>> /\ ~closed

(* A replacement, or a save of its own, that the window had no read to     *)
(* take into account.                                                      *)
Missed == raced \/ overtaken \/ beside \/ restored \/ unverified

(* A key's remote epoch advances at most once for each time another writer *)
(* changed it: this window's own saves, read back before, during or after  *)
(* they land, never retire one of its own edits (adopt()).                 *)
NoSelfConflict == ~Missed /\ ~rewritten => \A k \in Keys : versions[k] <= foreign[k]

(* "Duplicate/own echoes and key reordering are no-ops": the same, also    *)
(* for values that migration changes (normalize()).                        *)
OwnEchoesAreNoOps == ~Missed => \A k \in Keys : versions[k] <= foreign[k]

(* In the end the window and the file agree, whatever order replacements,  *)
(* notices, reads and saves came in; only a control whose save failed      *)
(* keeps its value in the live settings (notice(), adopt()).               *)
Converged ==
  Quiet /\ ~Missed /\ ~rewritten /\ ~failedRead /\ file # Torn =>
    /\ accepted = Normalized(file)
    /\ failures = 0 => live = accepted /\ cursor = accepted

(* What was learnt from the file stays until a later save of its key, also *)
(* when a save that was in progress overwrote it (acceptWrite(), adopt()). *)
ReceivedSurvives == Quiet /\ ~beside => \A k \in Keys : received[k] # None => accepted[k] = received[k]

(* Every submission reaches the file in its order, an undo as well as the  *)
(* edit it undoes, unless another writer changed its key (capture()).      *)
SubmissionsKept ==
  Quiet /\ ~Missed /\ ~rewritten /\ failures = 0 =>
    \A k \in Keys : foreign[k] = 0 => Normal[file[k]] = wanted[k]

(* The step that stores a save leaves the other keys as another writer     *)
(* stored them.                                                            *)
OthersKept ==
  \A k \in Keys :
    file'[k] \notin {file[k], Normal[file[k]]} => k \in DOMAIN Job.edits \cup DOMAIN Job.entry

Landing == run.phase = "saving" /\ run'.phase = "landed"

(* A save changes no key it was not asked to change, and never replaces a  *)
(* file that was found torn or missing (commit()).                         *)
SavesRebased == [][Landing /\ ~Missed => file # Torn /\ OthersKept]_vars

(* Each save starts from "a fresh disk check at every unstarted write      *)
(* boundary" (prepare()): what another writer had stored before the check  *)
(* read the file is not undone by the save.                                *)
ChecksAreFresh == [][Landing /\ ~raced /\ file # Torn => OthersKept]_vars
=============================================================================
