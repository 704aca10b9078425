---------------------- MODULE ForegroundSchedulerProofs ----------------------
(***************************************************************************)
(* The safety properties of ForegroundScheduler for any finite set of      *)
(* requests, any pausable work, any assignment of lanes and any supply of  *)
(* timers.  The properties are inductive only together: a lane count stays *)
(* a natural number because it equals the number of held requests, and the *)
(* window that a firing timer ends is the only one that is armed.          *)
(***************************************************************************)
EXTENDS ForegroundScheduler, FiniteSetTheorems, TLAPS

IInv ==
  /\ TypeOK
  /\ ActiveCountsHeld
  /\ NoLostWake
  /\ NoStaleTimer
  /\ IdleYieldsToForeground

Holders(lane) == {r \in Requests : request[r] = "held" /\ RequestLane[r] = lane}

(* A lane's holders are finitely many, so they can be counted. *)
LEMMA HoldersFinite == \A lane : IsFiniteSet(Holders(lane))
  BY ConstantsAssumption, FS_Subset DEF Holders

(* Beginning a request that is not held adds one to its lane only. *)
LEMMA BeginCounts ==
  ASSUME IInv, NEW r \in Requests, Begin(r)
  PROVE  ActiveCountsHeld'
<1>1. SUFFICES ASSUME NEW lane \in Lanes
               PROVE  active'[lane] = Cardinality(Holders(lane)')
  BY DEF ActiveCountsHeld, Holders
<1>2. active[lane] = Cardinality(Holders(lane)) /\ active[lane] \in Nat
  BY DEF IInv, TypeOK, ActiveCountsHeld, Holders
<1>3. CASE RequestLane[r] = lane
  <2>1. Holders(lane)' = Holders(lane) \cup {r} /\ r \notin Holders(lane)
    BY <1>3 DEF Begin, Holders, IInv, TypeOK
  <2>2. Cardinality(Holders(lane)') = Cardinality(Holders(lane)) + 1
    BY <2>1, HoldersFinite, FS_AddElement
  <2>3. active'[lane] = active[lane] + 1
    BY <1>3 DEF Begin, IInv, TypeOK
  <2> QED BY <1>2, <2>2, <2>3
<1>4. CASE RequestLane[r] # lane
  <2>1. Holders(lane)' = Holders(lane)
    BY <1>4 DEF Begin, Holders, IInv, TypeOK
  <2>2. active'[lane] = active[lane]
    BY <1>4 DEF Begin, IInv, TypeOK
  <2> QED BY <1>2, <2>1, <2>2
<1> QED BY <1>3, <1>4

(* The first call of a release closure takes one from a count that is not  *)
(* zero, so no lane ever counts below zero.                                *)
LEMMA ReleaseCounts ==
  ASSUME IInv, NEW r \in Requests, Release(r)
  PROVE  ActiveCountsHeld' /\ active' \in [Lanes -> Nat]
<1>1. SUFFICES ASSUME NEW lane \in Lanes
               PROVE  active'[lane] = Cardinality(Holders(lane)') /\ active'[lane] \in Nat
  BY DEF ActiveCountsHeld, Holders, Release, IInv, TypeOK
<1>2. active[lane] = Cardinality(Holders(lane)) /\ active[lane] \in Nat
  BY DEF IInv, TypeOK, ActiveCountsHeld, Holders
<1>3. CASE RequestLane[r] = lane
  <2>1. Holders(lane)' = Holders(lane) \ {r} /\ r \in Holders(lane)
    BY <1>3 DEF Release, Holders, IInv, TypeOK
  <2>2. IsFiniteSet(Holders(lane)') /\ Cardinality(Holders(lane)') = Cardinality(Holders(lane)) - 1
    BY <2>1, HoldersFinite, FS_RemoveElement
  <2>3. active'[lane] = active[lane] - 1
    BY <1>3 DEF Release, IInv, TypeOK
  <2>4. Cardinality(Holders(lane)') \in Nat
    BY <2>2, FS_CardinalityType
  <2> QED BY <1>2, <2>2, <2>3, <2>4
<1>4. CASE RequestLane[r] # lane
  <2>1. Holders(lane)' = Holders(lane)
    BY <1>4 DEF Release, Holders, IInv, TypeOK
  <2>2. active'[lane] = active[lane]
    BY <1>4 DEF Release, IInv, TypeOK
  <2> QED BY <1>2, <2>1, <2>2
<1> QED BY <1>3, <1>4

LEMMA InitIInv == Init => IInv
<1> SUFFICES ASSUME Init PROVE IInv
  OBVIOUS
<1>1. TypeOK
  <2>1. 0 \in Elapsed
    BY DEF Elapsed
  <2> QED BY <2>1 DEF Init, TypeOK, WorkStates
<1>2. ActiveCountsHeld
  <2> SUFFICES ASSUME NEW lane \in Lanes
               PROVE active[lane] = Cardinality({q \in Requests : request[q] = "held" /\ RequestLane[q] = lane})
    BY DEF ActiveCountsHeld
  <2>1. {q \in Requests : request[q] = "held" /\ RequestLane[q] = lane} = {}
    BY DEF Init
  <2> QED BY <2>1, FS_EmptySet DEF Init
<1>3. NoLostWake /\ NoStaleTimer /\ IdleYieldsToForeground
  BY DEF Init, NoLostWake, NoStaleTimer, IdleYieldsToForeground, HigherActive, UrlInventory, Lanes
<1> QED BY <1>1, <1>2, <1>3 DEF IInv

(* The counters and the closures are touched by Begin and Release alone. *)
LEMMA CountsUntouched ==
  ASSUME IInv, UNCHANGED <<active, request>>
  PROVE  ActiveCountsHeld'
  BY DEF IInv, ActiveCountsHeld

LEMMA DecideKeeps ==
  ASSUME IInv, NEW c \in Checkpoints, Decide(c)
  PROVE  IInv'
<1> USE DEF IInv, Decide
<1>1. ActiveCountsHeld'
  BY CountsUntouched
<1>2. CASE closed \/ HigherActive(active, CheckpointLane[c])
  <2>1. TypeOK'
    BY <1>2 DEF TypeOK, IdleUnchanged, WorkStates
  <2>2. NoLostWake'
    BY <1>2 DEF TypeOK, IdleUnchanged, NoLostWake, HigherActive, WorkStates
  <2>3. NoStaleTimer' /\ IdleYieldsToForeground'
    BY <1>2 DEF TypeOK, IdleUnchanged, NoStaleTimer, IdleYieldsToForeground, HigherActive, WorkStates
  <2> QED BY <1>1, <2>1, <2>2, <2>3
<1>3. CASE ~closed /\ ~HigherActive(active, CheckpointLane[c])
  <2>1. PacedCheckpoint(c) /\ UNCHANGED <<active, request, closed, throttle>>
    BY <1>3
  <2>2. TypeOK'
    BY <2>1 DEF PacedCheckpoint, TypeOK, IdleUnchanged, WorkStates
  <2>3. NoLostWake'
    BY <2>1, <1>3 DEF PacedCheckpoint, TypeOK, IdleUnchanged, NoLostWake, HigherActive, WorkStates
  <2>4. NoStaleTimer'
    BY <2>1, ConstantsAssumption DEF PacedCheckpoint, TypeOK, IdleUnchanged, NoStaleTimer
  <2>5. IdleYieldsToForeground'
    <3>1. CASE UNCHANGED window /\ work' = [work EXCEPT ![c] = "cleared"]
      BY <3>1, <2>1 DEF TypeOK, IdleYieldsToForeground, HigherActive
    <3>2. CASE window # NoWindow /\ UNCHANGED window
      BY <3>2, <2>1 DEF TypeOK, IdleYieldsToForeground, HigherActive
    <3>3. CASE window' # NoWindow /\ CheckpointLane[c] >= UrlInventory
      <4>1. ~HigherActive(active, UrlInventory)
        BY <1>3, <3>3, ConstantsAssumption DEF HigherActive, UrlInventory, Lanes
      <4> QED BY <4>1, <3>3, <1>3, <2>1 DEF IdleYieldsToForeground, HigherActive
    <3>4. \/ UNCHANGED window /\ work' = [work EXCEPT ![c] = "cleared"]
          \/ window # NoWindow /\ UNCHANGED window
          \/ window' # NoWindow /\ CheckpointLane[c] >= UrlInventory
      BY <2>1, ConstantsAssumption DEF PacedCheckpoint, IdleUnchanged, UrlInventory, Lanes, TypeOK
    <3> QED BY <3>1, <3>2, <3>3, <3>4
  <2> QED BY <1>1, <2>2, <2>3, <2>4, <2>5
<1> QED BY <1>2, <1>3

(* Only PacedCheckpoint opens a window; every other action of the work     *)
(* leaves the rest of the state alone.                                     *)
LEMMA NextIInv == IInv /\ [Next]_vars => IInv'
<1> SUFFICES ASSUME IInv, [Next]_vars PROVE IInv'
  OBVIOUS
<1> USE DEF IInv
<1>1. ASSUME NEW r \in Requests, Begin(r) PROVE IInv'
  <2>1. TypeOK'
    <3>1. active' \in [Lanes -> Nat] /\ request' \in [Requests -> {"none", "held", "released"}]
      <4>1. active' = [active EXCEPT ![RequestLane[r]] = active[RequestLane[r]] + 1]
        BY <1>1 DEF Begin
      <4>2. active[RequestLane[r]] + 1 \in Nat
        BY ConstantsAssumption DEF TypeOK
      <4>3. active' \in [Lanes -> Nat]
        BY <4>1, <4>2 DEF TypeOK
      <4> QED BY <1>1, <4>3 DEF Begin, TypeOK
    <3>2. CASE RequestLane[r] < UrlInventory
      BY <1>1, <3>1, <3>2, ConstantsAssumption
      DEF Begin, TypeOK, FinishIdle, IdleReleased, AfterWait, WorkStates, Elapsed
    <3>3. CASE ~(RequestLane[r] < UrlInventory)
      BY <1>1, <3>1, <3>3 DEF Begin, TypeOK, IdleUnchanged
    <3> QED BY <3>2, <3>3
  <2>2. \A l \in Lanes : active[l] > 0 => active'[l] > 0
    BY <1>1 DEF Begin, TypeOK
  <2>3. NoLostWake'
    BY <1>1, <2>2 DEF Begin, TypeOK, NoLostWake, HigherActive, IdleReleased
  <2>4. NoStaleTimer'
    BY <1>1 DEF Begin, FinishIdle, IdleUnchanged, NoStaleTimer
  <2>5. IdleYieldsToForeground'
    <3>1. CASE RequestLane[r] < UrlInventory
      BY <1>1, <3>1 DEF Begin, TypeOK, FinishIdle, IdleReleased, IdleYieldsToForeground
    <3>2. CASE ~(RequestLane[r] < UrlInventory)
      <4>1. \A l \in Lanes : l < UrlInventory => active'[l] = active[l]
        BY <1>1, <3>2 DEF Begin, TypeOK
      <4> QED BY <1>1, <3>2, <4>1 DEF Begin, IdleUnchanged, IdleYieldsToForeground, HigherActive
    <3> QED BY <3>1, <3>2
  <2> QED BY <1>1, <2>1, <2>3, <2>4, <2>5, BeginCounts
<1>2. ASSUME NEW r \in Requests, Release(r) PROVE IInv'
  <2>1. ActiveCountsHeld' /\ active' \in [Lanes -> Nat]
    BY <1>2, ReleaseCounts
  <2>2. TypeOK'
    BY <1>2, <2>1 DEF Release, TypeOK, WokenBy, AfterWait, IdleUnchanged, WorkStates
  <2>3. NoLostWake'
    BY <1>2 DEF Release, TypeOK, NoLostWake, WokenBy, AfterWait
  <2>4. NoStaleTimer'
    BY <1>2 DEF Release, IdleUnchanged, NoStaleTimer
  <2>5. \A l \in Lanes : active'[l] > 0 => active[l] > 0
    BY <1>2, <2>1, ConstantsAssumption DEF Release, TypeOK
  <2>6. IdleYieldsToForeground'
    BY <1>2, <2>5 DEF Release, IdleUnchanged, IdleYieldsToForeground, HigherActive, WokenBy, AfterWait, TypeOK
  <2> QED BY <2>1, <2>2, <2>3, <2>4, <2>6
<1>3. ASSUME NEW c \in Checkpoints, Checkpoint(c) PROVE IInv'
  BY <1>3, DecideKeeps DEF Checkpoint
<1>4. ASSUME NEW c \in Checkpoints, Resume(c) PROVE IInv'
  BY <1>4, DecideKeeps DEF Resume
<1>5. ASSUME NEW w \in Windows, TimerFires(w) PROVE IInv'
  <2>1. TypeOK'
    BY <1>5, ConstantsAssumption DEF TimerFires, TypeOK, IdleReleased, AfterWait, WorkStates, Elapsed
  <2>2. NoStaleTimer'
    BY <1>5 DEF TimerFires, NoStaleTimer
  <2>3. NoLostWake' /\ IdleYieldsToForeground'
    BY <1>5 DEF TimerFires, TypeOK, IdleReleased, NoLostWake, HigherActive, IdleYieldsToForeground
  <2> QED BY <1>5, <2>1, <2>2, <2>3, CountsUntouched DEF TimerFires
<1>6. ASSUME Close PROVE IInv'
  <2>1. TypeOK'
    BY <1>6, ConstantsAssumption DEF Close, FinishIdle, TypeOK, IdleReleased, WokenBy, AfterWait, WorkStates, Elapsed
  <2>2. NoStaleTimer' /\ NoLostWake' /\ IdleYieldsToForeground'
    BY <1>6 DEF Close, FinishIdle, TypeOK, NoStaleTimer, NoLostWake, IdleYieldsToForeground,
                IdleReleased, WokenBy, AfterWait
  <2> QED BY <1>6, <2>1, <2>2, CountsUntouched DEF Close
<1>7. ASSUME Elapse \/ SetThrottle PROVE IInv'
  <2>1. TypeOK' /\ UNCHANGED <<active, request, work, closed, window, timers>>
    BY <1>7 DEF Elapse, SetThrottle, TypeOK, Elapsed
  <2> QED BY <2>1, CountsUntouched DEF NoStaleTimer, NoLostWake, IdleYieldsToForeground, HigherActive
<1>8. ASSUME NEW c \in Checkpoints, Continue(c) PROVE IInv'
  <2>1. TypeOK' /\ NoLostWake' /\ NoStaleTimer' /\ IdleYieldsToForeground'
    BY <1>8 DEF Continue, TypeOK, IdleUnchanged, WorkStates, NoLostWake, HigherActive,
                NoStaleTimer, IdleYieldsToForeground
  <2> QED BY <1>8, <2>1, CountsUntouched DEF Continue
<1>9. CASE UNCHANGED vars
  BY <1>9, CountsUntouched
  DEF vars, TypeOK, NoStaleTimer, NoLostWake, IdleYieldsToForeground, HigherActive
<1> QED BY <1>1, <1>2, <1>3, <1>4, <1>5, <1>6, <1>7, <1>8, <1>9 DEF Next

LEMMA Invariance == Spec => []IInv
  BY InitIInv, NextIInv, PTL DEF Spec

(* Every state of the scheduler is well typed; in particular no sequence   *)
(* of releases ever takes a lane count below zero.                         *)
THEOREM TypeCorrect == Spec => []TypeOK
  BY Invariance, PTL DEF IInv

(* Each lane counts exactly the requests begun in it and not yet released. *)
THEOREM CountsCorrect == Spec => []ActiveCountsHeld
  BY Invariance, PTL DEF IInv

(* No wake-up is lost between a checkpoint, a release and close().         *)
THEOREM WakesCorrect == Spec => []NoLostWake
  BY Invariance, PTL DEF IInv

(* There is never a timer but that of the open idle window.                *)
THEOREM TimersCorrect == Spec => []NoStaleTimer
  BY Invariance, PTL DEF IInv

(* An idle window never stands between foreground work and its lane.       *)
THEOREM IdleCorrect == Spec => []IdleYieldsToForeground
  BY Invariance, PTL DEF IInv

Nearer(c) ==
  HigherActive(active', CheckpointLane[c]) /\ ~closed' => Ahead(work'[c]) <= Ahead(work[c])

LEMMA AheadRanks ==
  /\ Ahead("cleared") = 2
  /\ Ahead("running") = 1
  /\ Ahead("waiting") = 0 /\ Ahead("idling") = 0 /\ Ahead("woken") = 0
  BY DEF Ahead

(* Only a checkpoint that finds no higher lane active clears work. *)
LEMMA DecideNearer ==
  ASSUME IInv, NEW d \in Checkpoints, Decide(d), work[d] \in {"running", "woken"},
         NEW c \in Checkpoints
  PROVE  Nearer(c)
<1> USE DEF IInv, TypeOK
<1>1. CASE c # d
  <2>1. work'[c] = work[c]
    BY <1>1 DEF Decide, PacedCheckpoint
  <2>2. Ahead(work[c]) \in Nat
    BY AheadRanks DEF WorkStates
  <2> QED BY <2>1, <2>2 DEF Nearer
<1>2. CASE c = d
  <2>1. CASE closed \/ ~HigherActive(active, CheckpointLane[c])
    BY <1>2, <2>1 DEF Decide, Nearer, HigherActive
  <2>2. CASE ~closed /\ HigherActive(active, CheckpointLane[c])
    <3>1. work'[c] = "waiting"
      BY <1>2, <2>2 DEF Decide
    <3>2. Ahead(work[c]) \in Nat
      BY AheadRanks DEF WorkStates
    <3> QED BY <3>1, <3>2, AheadRanks DEF Nearer
  <2> QED BY <2>1, <2>2
<1> QED BY <1>1, <1>2

LEMMA StepNearer ==
  ASSUME IInv, Next, NEW c \in Checkpoints
  PROVE  Nearer(c)
<1> USE DEF IInv, TypeOK
<1>1. work[c] \in WorkStates /\ Ahead(work[c]) \in Nat
  BY AheadRanks DEF WorkStates
<1>2. (* A step that moves this work, if at all, from one pause to another. *)
      ASSUME work'[c] = work[c] \/ work'[c] \in {"waiting", "idling", "woken"}
      PROVE  Nearer(c)
  BY <1>1, <1>2, AheadRanks DEF Nearer
<1>3. CASE \E d \in Checkpoints : Checkpoint(d) \/ Resume(d)
  BY <1>3, DecideNearer DEF Checkpoint, Resume
<1>4. CASE \E d \in Checkpoints : Continue(d)
  <2>1. work'[c] = work[c] \/ (work[c] = "cleared" /\ work'[c] = "running")
    BY <1>4 DEF Continue
  <2> QED BY <2>1, <1>1, AheadRanks DEF Nearer
<1>5. CASE \E r \in Requests : Begin(r)
  <2>1. work'[c] = work[c] \/ work'[c] = "woken"
    BY <1>5 DEF Begin, IdleReleased
  <2> QED BY <2>1, <1>2
<1>6. CASE \E r \in Requests : Release(r)
  (* A release wakes only work that no higher lane holds back any more. *)
  <2>1. work'[c] = work[c] \/ closed \/ ~HigherActive(active', CheckpointLane[c])
    BY <1>6 DEF Release, WokenBy
  <2>2. closed' = closed
    BY <1>6 DEF Release
  <2> QED BY <2>1, <2>2, <1>2 DEF Nearer
<1>7. CASE \E w \in Windows : TimerFires(w)
  <2>1. work'[c] = work[c] \/ work'[c] = "woken"
    BY <1>7 DEF TimerFires, IdleReleased
  <2> QED BY <2>1, <1>2
<1>8. CASE Close
  BY <1>8 DEF Close, Nearer
<1>9. CASE Elapse \/ SetThrottle
  BY <1>9, <1>2 DEF Elapse, SetThrottle
<1> QED BY <1>3, <1>4, <1>5, <1>6, <1>7, <1>8, <1>9 DEF Next

(* With or without pacing, in any assignment of lanes, a request is never  *)
(* overtaken by more than the one batch of each lower work that was        *)
(* already running or cleared when it began: paused work stays paused.     *)
THEOREM PreemptionCorrect == Spec => OvertakenByOneBatch
<1>1. IInv /\ [Next]_vars =>
        [\A c \in Checkpoints :
           HigherActive(active', CheckpointLane[c]) /\ ~closed'
             => Ahead(work'[c]) <= Ahead(work[c])]_vars
  BY StepNearer DEF Nearer
<1> QED BY <1>1, Invariance, PTL DEF Spec, OvertakenByOneBatch
=============================================================================
