------------------------- MODULE ForegroundScheduler -------------------------
(***************************************************************************)
(* The cooperative priority boundary of the indexer                        *)
(* (src/src/index/ForegroundWorkScheduler.ts).                             *)
(*                                                                         *)
(* Owners of foreground requests call begin() and later the returned       *)
(* release closure; long-running work calls checkpoint() between batches   *)
(* and is paused while a strictly higher lane (a smaller number) is        *)
(* active.  With injected pacing, the inventory and background lanes also  *)
(* share one idle window after each work slice.                            *)
(*                                                                         *)
(* Everything runs on one JavaScript thread, so each synchronous stretch   *)
(* is one action.  What interleaves is what an await separates: a resolved *)
(* promise and the continuation that runs later.  A checkpoint's callback  *)
(* returns a promise that the caller's own await adopts, so microtask hops *)
(* lie between the decision to go on and the work that goes on: the        *)
(* decision leaves the work "cleared", and it runs in a step of its own.   *)
(***************************************************************************)
EXTENDS Integers, FiniteSets

CONSTANTS
  Requests,      \* owners of foreground requests
  Checkpoints,   \* owners of pausable work
  RequestLane,   \* the lane each request begins in
  CheckpointLane,\* the lane each pausable work runs in
  Pacing,        \* TRUE iff the host injected pacing capabilities
  Windows        \* identities setTimeout gives to idle windows (a bound)

Lanes == 0 .. 4
UrlInventory == 3      \* first lane that is paced

(***************************************************************************)
(* Time since the slice started, in the units the three policies tell      *)
(* apart: 0 is under 6 ms, 1 under 12 ms, 2 under 24 ms, 3 is 24 ms or     *)
(* more.  A policy's work window is exhausted at its rank.                 *)
(***************************************************************************)
Throttles == {"responsive", "balanced", "faster"}
WorkWindow == [responsive |-> 1, balanced |-> 2, faster |-> 3]
Elapsed == 0 .. 3

NoWindow == "none"

ASSUME ConstantsAssumption ==
  /\ IsFiniteSet(Requests)
  /\ RequestLane \in [Requests -> Lanes]
  /\ CheckpointLane \in [Checkpoints -> Lanes]
  /\ Pacing \in BOOLEAN
  /\ NoWindow \notin Windows

VARIABLES
  active,     \* number of unreleased requests in each lane
  request,    \* "none", "held" or "released": the closure each owner holds
  work,       \* where each pausable work stands in its checkpoint
  closed,
  window,     \* the current idle window, or NoWindow
  timers,     \* host timers that have neither fired nor been cleared
  sliceSet,   \* sliceStarted is defined
  elapsed,    \* time since sliceStarted
  throttle    \* the live preference

vars == <<active, request, work, closed, window, timers, sliceSet, elapsed, throttle>>

(***************************************************************************)
(* running - outside a checkpoint; waiting - in the waiters set; idling -  *)
(* awaiting the idle window; woken - either wait resolved, the recheck of  *)
(* its then-callback still to run; cleared - the promise the caller awaits *)
(* is settled, the caller has not continued yet.                           *)
(***************************************************************************)
WorkStates == {"running", "waiting", "idling", "woken", "cleared"}

TypeOK ==
  /\ active \in [Lanes -> Nat]
  /\ request \in [Requests -> {"none", "held", "released"}]
  /\ work \in [Checkpoints -> WorkStates]
  /\ closed \in BOOLEAN
  /\ window \in Windows \cup {NoWindow}
  /\ timers \in SUBSET Windows
  /\ sliceSet \in BOOLEAN
  /\ elapsed \in Elapsed
  /\ throttle \in Throttles

Init ==
  /\ active = [l \in Lanes |-> 0]
  /\ request = [r \in Requests |-> "none"]
  /\ work = [c \in Checkpoints |-> "running"]
  /\ closed = FALSE
  /\ window = NoWindow
  /\ timers = {}
  /\ sliceSet = FALSE
  /\ elapsed = 0
  /\ throttle \in Throttles
-----------------------------------------------------------------------------
(* Only strictly higher lanes count, so a request never waits for itself. *)
HigherActive(counts, lane) == \E l \in Lanes : l < lane /\ counts[l] > 0

(* With pacing a resolved wait leads to a recheck; without it, the wait is *)
(* what the caller itself awaits.                                          *)
AfterWait == IF Pacing THEN "woken" ELSE "cleared"

(* A waiter's wake(): it stays while a higher lane is active and nothing is closed. *)
WokenBy(counts, isClosed, works) ==
  [c \in Checkpoints |->
     IF work[c] = "waiting" /\ (isClosed \/ ~HigherActive(counts, CheckpointLane[c]))
     THEN AfterWait ELSE works[c]]

(* A slip: the shared idle promise is dropped without being resolved. *)
IdleForgotten == work

(* finishIdle() resolves everyone awaiting the shared window. *)
IdleReleased == [c \in Checkpoints |-> IF work[c] = "idling" THEN "woken" ELSE work[c]]

(* A slip: the armed host timer is forgotten instead of cleared. *)
FinishIdleLeavesTimer ==
  /\ UNCHANGED timers
  /\ window' = NoWindow
  /\ sliceSet' = Pacing
  /\ elapsed' = 0

(* finishIdle(): cancel and resolve the single idle resource, restart the slice. *)
FinishIdle ==
  /\ timers' = timers \ {window}
  /\ window' = NoWindow
  /\ sliceSet' = Pacing
  /\ elapsed' = 0

IdleUnchanged == UNCHANGED <<window, timers, sliceSet, elapsed>>
-----------------------------------------------------------------------------
(* A slip: foreground admission leaves the idle window running. *)
BeginKeepsIdle(r) ==
  /\ request[r] # "held"
  /\ ~closed
  /\ request' = [request EXCEPT ![r] = "held"]
  /\ active' = [active EXCEPT ![RequestLane[r]] = @ + 1]
  /\ IdleUnchanged
  /\ UNCHANGED <<work, closed, throttle>>

(* begin(): a closed scheduler hands out a closure that does nothing; a    *)
(* foreground lane ends the idle window it would otherwise sit behind.     *)
Begin(r) ==
  /\ request[r] # "held"
  /\ ~closed
  /\ request' = [request EXCEPT ![r] = "held"]
  /\ active' = [active EXCEPT ![RequestLane[r]] = @ + 1]
  /\ IF RequestLane[r] < UrlInventory
     THEN FinishIdle /\ work' = IdleReleased
     ELSE IdleUnchanged /\ UNCHANGED work
  /\ UNCHANGED <<closed, throttle>>

(* A slip: every call of the closure decrements. *)
ReleaseEveryCall(r) ==
  /\ request[r] \in {"held", "released"}
  /\ request' = [request EXCEPT ![r] = "released"]
  /\ active' = [active EXCEPT ![RequestLane[r]] = @ - 1]
  /\ work' = WokenBy(active', closed, work)
  /\ IdleUnchanged
  /\ UNCHANGED <<closed, throttle>>

(* A slip: waiters are not told that a request ended. *)
ReleaseSilently(r) ==
  /\ request[r] = "held"
  /\ request' = [request EXCEPT ![r] = "released"]
  /\ active' = [active EXCEPT ![RequestLane[r]] = @ - 1]
  /\ UNCHANGED work
  /\ IdleUnchanged
  /\ UNCHANGED <<closed, throttle>>

(* The release closure: only its first call decrements, then every waiter  *)
(* rechecks.  It still counts after close.  A later call does nothing.     *)
Release(r) ==
  /\ request[r] = "held"
  /\ request' = [request EXCEPT ![r] = "released"]
  /\ active' = [active EXCEPT ![RequestLane[r]] = @ - 1]
  /\ work' = WokenBy(active', closed, work)
  /\ IdleUnchanged
  /\ UNCHANGED <<closed, throttle>>

(* pacedCheckpoint(): foreground lanes and a slice with time left go on;   *)
(* otherwise join the shared idle window, opening it if there is none.     *)
PacedCheckpoint(c) ==
  IF ~Pacing \/ CheckpointLane[c] < UrlInventory
  THEN /\ work' = [work EXCEPT ![c] = "cleared"]
       /\ IdleUnchanged
  ELSE /\ sliceSet' = TRUE
       /\ UNCHANGED elapsed
       /\ \/ /\ window = NoWindow
             /\ ~sliceSet \/ elapsed < WorkWindow[throttle]
             /\ work' = [work EXCEPT ![c] = "cleared"]
             /\ UNCHANGED <<window, timers>>
          \/ /\ window = NoWindow
             /\ sliceSet /\ elapsed >= WorkWindow[throttle]
             /\ \E w \in Windows \ timers :
                  /\ window' = w
                  /\ timers' = timers \cup {w}
             /\ work' = [work EXCEPT ![c] = "idling"]
          \/ /\ window # NoWindow
             /\ work' = [work EXCEPT ![c] = "idling"]
             /\ UNCHANGED <<window, timers>>

(* The body of checkpoint(). *)
Decide(c) ==
  /\ \/ /\ closed
        /\ work' = [work EXCEPT ![c] = "cleared"]
        /\ IdleUnchanged
     \/ /\ ~closed
        /\ HigherActive(active, CheckpointLane[c])
        /\ work' = [work EXCEPT ![c] = "waiting"]
        /\ IdleUnchanged
     \/ /\ ~closed
        /\ ~HigherActive(active, CheckpointLane[c])
        /\ PacedCheckpoint(c)
  /\ UNCHANGED <<active, request, closed, throttle>>

(* Work reaches a safe boundary and calls checkpoint(). *)
Checkpoint(c) == work[c] = "running" /\ Decide(c)

(* A slip: a resolved wait clears its work without rechecking. *)
ResumeUnchecked(c) ==
  /\ work[c] = "woken"
  /\ work' = [work EXCEPT ![c] = "cleared"]
  /\ IdleUnchanged
  /\ UNCHANGED <<active, request, closed, throttle>>

(* The then-callback of a resolved wait goes through checkpoint() again. *)
Resume(c) == work[c] = "woken" /\ Decide(c)

(* The caller's continuation: it runs its next batch without looking back, *)
(* whatever was begun since it was cleared.                                *)
Continue(c) ==
  /\ work[c] = "cleared"
  /\ work' = [work EXCEPT ![c] = "running"]
  /\ IdleUnchanged
  /\ UNCHANGED <<active, request, closed, throttle>>

(* The host timer of window w fires and calls finishIdle(). *)
TimerFires(w) ==
  /\ w \in timers
  /\ timers' = timers \ {w, window}
  /\ window' = NoWindow
  /\ sliceSet' = Pacing
  /\ elapsed' = 0
  /\ work' = IdleReleased
  /\ UNCHANGED <<active, request, closed, throttle>>

(* A slip: the waiters are woken before the mark is visible to them. *)
CloseMarksLast ==
  /\ ~closed
  /\ closed' = TRUE
  /\ FinishIdle
  /\ work' = WokenBy(active, FALSE, IdleReleased)
  /\ UNCHANGED <<active, request, throttle>>

(* close(): mark, cancel the idle window, wake every waiter. *)
Close ==
  /\ ~closed
  /\ closed' = TRUE
  /\ FinishIdle
  /\ work' = WokenBy(active, TRUE, IdleReleased)
  /\ UNCHANGED <<active, request, throttle>>

(* The host: time passes inside a slice, and the user changes the setting. *)
Elapse ==
  /\ sliceSet
  /\ elapsed < 3
  /\ elapsed' = elapsed + 1
  /\ UNCHANGED <<active, request, work, closed, window, timers, sliceSet, throttle>>

SetThrottle ==
  /\ Pacing
  /\ throttle' \in Throttles \ {throttle}
  /\ UNCHANGED <<active, request, work, closed, window, timers, sliceSet, elapsed>>

Next ==
  \/ \E r \in Requests : Begin(r) \/ Release(r)
  \/ \E c \in Checkpoints : Checkpoint(c) \/ Resume(c) \/ Continue(c)
  \/ \E w \in Windows : TimerFires(w)
  \/ Close
  \/ Elapse
  \/ SetThrottle

Spec == Init /\ [][Next]_vars

(***************************************************************************)
(* The host runs queued continuations and armed timers.  A continuation    *)
(* follows the callback that resolved it in the same microtask drain, so   *)
(* if the slice is fresh again and again when it is due, it runs at such   *)
(* a time.  Nothing obliges a user to begin, release or close.             *)
(***************************************************************************)
ResumeInFreshSlice(c) ==
  /\ window = NoWindow
  /\ elapsed < WorkWindow[throttle]
  /\ Resume(c)

Fairness ==
  /\ \A c \in Checkpoints :
       WF_vars(Resume(c)) /\ SF_vars(ResumeInFreshSlice(c)) /\ WF_vars(Continue(c))
  /\ \A w \in Windows : WF_vars(TimerFires(w))

FairSpec == Spec /\ Fairness
-----------------------------------------------------------------------------
(* Each lane counts exactly the requests begun in it and not yet released, *)
(* however often a release closure is called and across close().           *)
ActiveCountsHeld ==
  \A l \in Lanes :
    active[l] = Cardinality({r \in Requests : request[r] = "held" /\ RequestLane[r] = l})

(* No wake-up is lost: work sits in the waiters set only while a request   *)
(* in a strictly higher lane is unreleased and the scheduler is open.      *)
NoLostWake ==
  \A c \in Checkpoints :
    work[c] = "waiting" => ~closed /\ HigherActive(active, CheckpointLane[c])

(* The only armed timer is the one of the current window, so a timer that  *)
(* outlived its window can never cut a later one short.                    *)
NoStaleTimer == timers = IF window = NoWindow THEN {} ELSE {window}

(* Idling work always has a window that will release it, and no idle       *)
(* window is open while a mutation, navigation or visible-neighbourhood    *)
(* request is admitted: begin() ends it.                                   *)
IdleYieldsToForeground ==
  /\ window = NoWindow => \A c \in Checkpoints : work[c] # "idling"
  /\ window # NoWindow => ~closed /\ ~HigherActive(active, UrlInventory)

(* How much work is still ahead of a new request: the batch that is        *)
(* running, and before it the checkpoint that has already been passed.     *)
Ahead(state) ==
  CASE state = "cleared" -> 2
    [] state = "running" -> 1
    [] OTHER -> 0

(* A request that begins while lower work is cleared is overtaken by it,   *)
(* since its continuation is already queued - but by that one batch only.  *)
(* As long as a higher lane is active and the scheduler open, every step   *)
(* takes the work nearer its pause: running work is not cleared for        *)
(* another batch, and paused work stays paused, also when it is the        *)
(* request itself that resolved its idle window.                           *)
OvertakenByOneBatch ==
  [][\A c \in Checkpoints :
       HigherActive(active', CheckpointLane[c]) /\ ~closed'
         => Ahead(work'[c]) <= Ahead(work[c])]_vars

(* close() releases every paused continuation, whatever requests are still *)
(* unreleased.                                                             *)
CloseReleasesAll == \A c \in Checkpoints : closed ~> work[c] = "running"

(* Paused work is not starved by pacing: once the higher lanes stay quiet  *)
(* it gets to run.                                                         *)
QuietLanesLetWorkRun ==
  \A c \in Checkpoints :
    <>[]~HigherActive(active, CheckpointLane[c]) => []<>(work[c] = "running")
=============================================================================
