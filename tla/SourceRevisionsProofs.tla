------------------------ MODULE SourceRevisionsProofs ------------------------
(***************************************************************************)
(* What SourceRevisions promises for any repositories, sources, revisions  *)
(* and operations, and any number of chunks per revision.                  *)
(*                                                                         *)
(* That a selected head stays readable is not inductive: a reclamation     *)
(* looks only at the head and the leases of its own source, and an         *)
(* activation of a tombstone counts no chunks.  So the invariant says whom *)
(* every revision belongs to (Belongs), that a view is backed by leases    *)
(* (Held), and what the fresh revision of an unfinished writer can have on *)
(* disk (Shape).                                                           *)
(***************************************************************************)
EXTENDS SourceRevisions, FiniteSetTheorems, TLAPS

(* A writer that may still stage chunks of its own revision. *)
Staging(n) == n.kind = "write" /\ n.phase \in {"begin", "pin", "stage"}

(* What holds of each operation n in flight. *)
Shape(n) ==
  /\ n.kind = "none" => n.keep = {}
  /\ n.kind \in {"none", "cleanup"} \/ n.phase \in {"begin", "pin"} => n.view = {}
  /\ n.kind # "none" => n.source \in Sources
  /\ n.kind \in {"write", "delete"} /\ n.phase # "release" =>
       n.rev \in Revisions /\ ownerOf[n.rev] = n.source
  /\ n.kind = "delete" /\ n.phase \in {"activate", "release"} => n.keep \subseteq n.view
  /\ Staging(n) => stored[n.rev] <= n.staged /\ n.staged < ChunkCount
  /\ \A f \in n.keep \cup n.view : ownerOf[f] = n.source

Shapes == \A o \in Ops : Shape(op[o])

(* Whatever a head names belongs to its source. *)
Belongs == \A s \in Sources : \A f \in head[s].fams : ownerOf[f] = s

(* Every revision of an open view is leased by its reader. *)
Held == \A o \in Ops : \A f \in op[o].view : <<o, op[o].source, f>> \in leases

(* Revision ids are drawn once. *)
Drawn ==
  /\ \A r \in Revisions : ownerOf[r] = NoSource => stored[r] = 0
  /\ \A o, p \in Ops : Staging(op[o]) /\ Staging(op[p]) /\ op[o].rev = op[p].rev => o = p

(* What is known of the operations, and of the disk they work on. *)
Working == ViewReadable /\ LeasesOwned /\ Shapes /\ Held /\ Drawn

IInv == StateOK /\ HeadReadable /\ FencesCounted /\ Belongs /\ Working
-----------------------------------------------------------------------------
(* Operation o goes on as n: its pins stay, what it works on belongs to    *)
(* its source, and it stages only what it was staging.                     *)
GoesOn(o, n) ==
  /\ n \in Operations
  /\ n.view = op[o].view
  /\ n.view = {} \/ n.source = op[o].source
  /\ Shape(n)
  /\ Staging(n) => Staging(op[o]) /\ n.rev = op[o].rev

(* Replacing one operation leaves the others alone. *)
LEMMA OneOperation ==
  ASSUME StateOK, NEW o \in Ops, NEW n \in Operations, op' = [op EXCEPT ![o] = n]
  PROVE  /\ op' \in [Ops -> Operations]
         /\ op'[o] = n
         /\ \A p \in Ops : p # o => op'[p] = op[p]
  BY DEF StateOK

LEMMA IdleIsOperation == Idle \in Operations
  BY ConstantsAssumption DEF Idle, Operations, NoBase, Tickets, Phases

LEMMA CancelledIsOperation ==
  ASSUME NEW x \in Operations
  PROVE  [x EXCEPT !.live = FALSE] \in Operations
  BY DEF Operations

LEMMA EndedIsOperation ==
  ASSUME StateOK, NEW o \in Ops
  PROVE  /\ Ended(o) \in Operations
         /\ Ended(o).kind = op[o].kind /\ Ended(o).source = op[o].source
         /\ Ended(o).phase = "release" /\ Ended(o).rev = op[o].rev
         /\ Ended(o).view = op[o].view /\ Ended(o).keep = {}
<1>1. Ended(o) \in Operations
  BY IdleIsOperation DEF StateOK, Ended, Operations, Phases
<1> QED BY <1>1 DEF Ended, Idle

(* A step that changes neither chunks nor leases keeps the operations in   *)
(* order when its own operation merely goes on.                            *)
LEMMA GoingOnWorks ==
  ASSUME IInv, NEW o \in Ops, NEW n, GoesOn(o, n),
         op' = [op EXCEPT ![o] = n], UNCHANGED <<stored, ownerOf, leases>>
  PROVE  Working' /\ op' \in [Ops -> Operations]
<1>1. /\ op' \in [Ops -> Operations]
      /\ op'[o] = n
      /\ \A p \in Ops : p # o => op'[p] = op[p]
  BY OneOperation DEF IInv, GoesOn
<1>2. ViewReadable'
  BY <1>1 DEF IInv, Working, ViewReadable, GoesOn
<1>3. LeasesOwned'
  <2>1. SUFFICES ASSUME NEW l \in leases, l[1] # Lost
                 PROVE  l[2] = op'[l[1]].source /\ l[3] \in op'[l[1]].view
    BY DEF LeasesOwned
  <2>2. l[1] \in Ops /\ l[2] = op[l[1]].source /\ l[3] \in op[l[1]].view
    BY <2>1 DEF IInv, StateOK, Working, LeasesOwned
  <2> QED BY <1>1, <2>2 DEF GoesOn
<1>4. Shapes'
  BY <1>1 DEF IInv, Working, Shapes, Shape, Staging, GoesOn
<1>5. Held'
  BY <1>1 DEF IInv, Working, Held, GoesOn
<1>6. Drawn'
  BY <1>1 DEF IInv, Working, Drawn, GoesOn
<1> QED BY <1>1, <1>2, <1>3, <1>4, <1>5, <1>6 DEF Working
(* An operation that stops keeps its pins and stages no more. *)
LEMMA EndedGoesOn ==
  ASSUME IInv, NEW o \in Ops, op[o].kind \in {"write", "delete", "read"}
  PROVE  GoesOn(o, Ended(o))
<1>1. /\ Ended(o) \in Operations
      /\ Ended(o).kind = op[o].kind /\ Ended(o).source = op[o].source
      /\ Ended(o).phase = "release" /\ Ended(o).rev = op[o].rev
      /\ Ended(o).view = op[o].view /\ Ended(o).keep = {}
  BY EndedIsOperation DEF IInv
<1>2. Shape(op[o])
  BY DEF IInv, Working, Shapes
<1>3. Shape(Ended(o)) /\ ~Staging(Ended(o))
  BY <1>1, <1>2 DEF Shape, Staging
<1> QED BY <1>1, <1>3 DEF GoesOn

(* An operation without pins may become idle. *)
LEMMA IdleGoesOn ==
  ASSUME NEW o \in Ops, op[o].view = {}
  PROVE  GoesOn(o, Idle)
  BY IdleIsOperation DEF GoesOn, Shape, Staging, Idle

(* A step that leaves the disk but for the fences alone keeps the          *)
(* invariant if its operation merely goes on.                              *)
LEMMA GoingOn ==
  ASSUME IInv, NEW o \in Ops, NEW n, GoesOn(o, n), op' = [op EXCEPT ![o] = n],
         UNCHANGED <<head, sequence, stored, ownerOf, leases>>,
         dirty' \in [Sources -> Tickets], dirtyCount' \in Nat, FencesCounted'
  PROVE  IInv'
<1>1. Working' /\ op' \in [Ops -> Operations]
  BY GoingOnWorks
<1>2. StateOK'
  BY <1>1 DEF IInv, StateOK
<1>3. HeadReadable' /\ Belongs'
  BY DEF IInv, HeadReadable, Belongs
<1> QED BY <1>1, <1>2, <1>3 DEF IInv

LEMMA Unfenced ==
  ASSUME IInv, UNCHANGED <<dirty, dirtyCount>>
  PROVE  dirty' \in [Sources -> Tickets] /\ dirtyCount' \in Nat /\ FencesCounted'
  BY DEF IInv, StateOK, FencesCounted
-----------------------------------------------------------------------------
Raised == {s \in Sources : dirty[s] # NoRevision}

LEMMA RaisedFinite == IsFiniteSet(Raised)
  BY ConstantsAssumption, FS_Subset DEF Raised

(* Raising a fence counts the source exactly when it was not raised. *)
LEMMA RaiseCounts ==
  ASSUME IInv, NEW s \in Sources, NEW ticket \in Revisions, RaiseFence(s, ticket)
  PROVE  dirty' \in [Sources -> Tickets] /\ dirtyCount' \in Nat /\ FencesCounted'
<1>1. /\ dirty \in [Sources -> Tickets] /\ dirtyCount \in Nat
      /\ dirtyCount = Cardinality(Raised) /\ ticket # NoRevision
  BY ConstantsAssumption DEF IInv, StateOK, FencesCounted, Raised
<1>2. /\ dirty' \in [Sources -> Tickets]
      /\ Raised' = Raised \cup {s}
      /\ s \in Raised <=> dirty[s] # NoRevision
  BY <1>1 DEF RaiseFence, Raised, Tickets
<1>3. CASE dirty[s] = NoRevision
  <2>1. Cardinality(Raised') = Cardinality(Raised) + 1
    BY <1>2, <1>3, RaisedFinite, FS_AddElement
  <2>2. dirtyCount' = dirtyCount + 1
    BY <1>3 DEF RaiseFence
  <2> QED BY <1>1, <1>2, <2>1, <2>2 DEF FencesCounted, Raised
<1>4. CASE dirty[s] # NoRevision
  <2>1. Raised' = Raised
    BY <1>2, <1>4
  <2>2. dirtyCount' = dirtyCount
    BY <1>1, <1>4 DEF RaiseFence
  <2> QED BY <1>1, <1>2, <2>1, <2>2 DEF FencesCounted, Raised
<1> QED BY <1>3, <1>4

(* Settling a fence counts the source out exactly when the ticket raised it. *)
LEMMA SettleCounts ==
  ASSUME IInv, NEW s \in Sources, NEW ticket \in Revisions, SettleFence(s, ticket)
  PROVE  dirty' \in [Sources -> Tickets] /\ dirtyCount' \in Nat /\ FencesCounted'
<1>1. /\ dirty \in [Sources -> Tickets] /\ dirtyCount \in Nat
      /\ dirtyCount = Cardinality(Raised) /\ ticket # NoRevision
  BY ConstantsAssumption DEF IInv, StateOK, FencesCounted, Raised
<1>2. /\ dirty' \in [Sources -> Tickets]
      /\ Raised' = Raised \ {s}
      /\ s \in Raised <=> dirty[s] = ticket
  BY <1>1 DEF SettleFence, Raised, Tickets
<1>3. CASE dirty[s] = ticket
  <2>1. Cardinality(Raised') = Cardinality(Raised) - 1 /\ Cardinality(Raised') \in Nat
    BY <1>2, <1>3, RaisedFinite, FS_RemoveElement, FS_CardinalityType
  <2>2. dirtyCount' = dirtyCount - 1
    BY <1>3 DEF SettleFence
  <2> QED BY <1>1, <1>2, <2>1, <2>2 DEF FencesCounted, Raised
<1>4. CASE dirty[s] # ticket
  <2>1. Raised' = Raised
    BY <1>2, <1>4
  <2>2. dirtyCount' = dirtyCount
    BY <1>1, <1>4 DEF SettleFence
  <2> QED BY <1>1, <1>2, <2>1, <2>2 DEF FencesCounted, Raised
<1> QED BY <1>3, <1>4
-----------------------------------------------------------------------------
(* The steps that leave heads, chunks, owners and leases as they are. *)
LEMMA AbandonKeeps == ASSUME IInv, NEW o \in Ops, Abandon(o) PROVE IInv'
<1>1. GoesOn(o, Ended(o)) /\ op' = [op EXCEPT ![o] = Ended(o)]
  BY EndedGoesOn DEF Abandon, End
<1>2. UNCHANGED <<head, sequence, stored, ownerOf, leases, dirty, dirtyCount>>
  BY DEF Abandon, disk
<1> QED BY <1>1, <1>2, Unfenced, GoingOn

LEMMA RefuseActivationKeeps == ASSUME IInv, NEW o \in Ops, RefuseActivation(o) PROVE IInv'
<1>1. GoesOn(o, Ended(o)) /\ op' = [op EXCEPT ![o] = Ended(o)]
  BY EndedGoesOn DEF RefuseActivation, End
<1>2. UNCHANGED <<head, sequence, stored, ownerOf, leases, dirty, dirtyCount>>
  BY DEF RefuseActivation, disk
<1> QED BY <1>1, <1>2, Unfenced, GoingOn

LEMMA EndCleanupKeeps == ASSUME IInv, NEW o \in Ops, EndCleanup(o) PROVE IInv'
<1>1. GoesOn(o, Idle) /\ op' = [op EXCEPT ![o] = Idle]
  BY IdleGoesOn DEF EndCleanup, IInv, Working, Shapes, Shape
<1>2. UNCHANGED <<head, sequence, stored, ownerOf, leases, dirty, dirtyCount>>
  BY DEF EndCleanup, disk
<1> QED BY <1>1, <1>2, Unfenced, GoingOn

LEMMA BeginMutationKeeps == ASSUME IInv, NEW o \in Ops, BeginMutation(o) PROVE IInv'
<1> DEFINE n == [op[o] EXCEPT !.phase =
                   IF op[o].kind = "write" /\ op[o].keep = {} THEN "stage" ELSE "pin"]
<1>1. op[o] \in Operations /\ Shape(op[o]) /\ op[o].kind \in {"write", "delete"} /\ op[o].phase = "begin"
  BY DEF BeginMutation, IInv, StateOK, Working, Shapes
<1>2. n \in Operations /\ n.phase \in {"stage", "pin"} /\ n.kind = op[o].kind /\ n.source = op[o].source
      /\ n.rev = op[o].rev /\ n.keep = op[o].keep /\ n.view = op[o].view /\ n.staged = op[o].staged
  BY <1>1 DEF Operations, Phases
<1>3. GoesOn(o, n)
  <2>1. Shape(n)
    BY <1>1, <1>2 DEF Shape, Staging
  <2> QED BY <1>1, <1>2, <2>1 DEF GoesOn, Staging
<1>4. op' = [op EXCEPT ![o] = n] /\ UNCHANGED <<head, sequence, stored, ownerOf, leases>>
  BY DEF BeginMutation, To
<1>5. op[o].source \in Sources /\ op[o].rev \in Revisions
  BY <1>1 DEF Shape
<1>6. dirty' \in [Sources -> Tickets] /\ dirtyCount' \in Nat /\ FencesCounted'
  BY <1>5, RaiseCounts DEF BeginMutation
<1> QED BY <1>3, <1>4, <1>6, GoingOn

LEMMA SettleAbsentKeeps == ASSUME IInv, NEW o \in Ops, SettleAbsent(o) PROVE IInv'
<1>1. Shape(op[o]) /\ op[o].kind = "delete" /\ op[o].phase = "pin"
  BY DEF SettleAbsent, IInv, Working, Shapes
<1>2. GoesOn(o, Idle) /\ op[o].source \in Sources /\ op[o].rev \in Revisions
  BY <1>1, IdleGoesOn DEF Shape
<1>3. dirty' \in [Sources -> Tickets] /\ dirtyCount' \in Nat /\ FencesCounted'
  BY <1>2, SettleCounts DEF SettleAbsent
<1>4. op' = [op EXCEPT ![o] = Idle] /\ UNCHANGED <<head, sequence, stored, ownerOf, leases>>
  BY DEF SettleAbsent
<1> QED BY <1>2, <1>3, <1>4, GoingOn

LEMMA StartCleanupKeeps ==
  ASSUME IInv, NEW o \in Ops, NEW r \in Revisions, StartCleanup(o, r) PROVE IInv'
<1> DEFINE n == [Idle EXCEPT !.kind = "cleanup", !.source = ownerOf[r],
                             !.phase = "preflight", !.live = TRUE, !.keep = {r}]
<1>1. op[o].view = {} /\ ownerOf[r] \in Sources
  BY DEF StartCleanup, IInv, StateOK, Working, Shapes, Shape
<1>2. n \in Operations
  BY <1>1, IdleIsOperation DEF Operations, Phases
<1>3. n.kind = "cleanup" /\ n.source = ownerOf[r] /\ n.phase = "preflight" /\ n.keep = {r} /\ n.view = {}
  BY DEF Idle
<1> HIDE DEF n
<1>4. GoesOn(o, n)
  BY <1>1, <1>2, <1>3 DEF GoesOn, Shape, Staging
<1>5. op' = [op EXCEPT ![o] = n]
      /\ UNCHANGED <<head, sequence, stored, ownerOf, leases, dirty, dirtyCount>>
  BY DEF StartCleanup, disk, n
<1> QED BY <1>4, <1>5, Unfenced, GoingOn

LEMMA PreflightKeeps == ASSUME IInv, NEW o \in Ops, Preflight(o) PROVE IInv'
<1> DEFINE unnamed == {r \in op[o].keep : ~HeadNames(op[o].source, r)}
           n == [op[o] EXCEPT !.phase = "reclaim", !.keep = unnamed]
<1>1. op[o] \in Operations /\ Shape(op[o]) /\ op[o].kind = "cleanup"
  BY DEF Preflight, IInv, StateOK, Working, Shapes
<1>2. n \in Operations
  BY <1>1 DEF Operations, Phases
<1>3. n.kind = "cleanup" /\ n.source = op[o].source /\ n.phase = "reclaim"
      /\ n.keep \subseteq op[o].keep /\ n.view = op[o].view
  BY <1>1 DEF Operations
<1>4. op' = [op EXCEPT ![o] = n]
      /\ UNCHANGED <<head, sequence, stored, ownerOf, leases, dirty, dirtyCount>>
  BY DEF Preflight, disk
<1> HIDE DEF n
<1>5. GoesOn(o, n)
  BY <1>1, <1>2, <1>3 DEF GoesOn, Shape, Staging
<1> QED BY <1>4, <1>5, Unfenced, GoingOn
-----------------------------------------------------------------------------
(* Selecting a head whose families are whole and belong to its source. *)
LEMMA Selection ==
  ASSUME IInv, NEW o \in Ops, op[o].kind \in {"write", "delete"},
         NEW state \in {"complete", "tombstone"}, NEW fams \in SUBSET Revisions,
         SelectHead(o, state, fams),
         \A f \in fams : stored[f] = ChunkCount /\ ownerOf[f] = op[o].source
  PROVE  /\ head' \in [Sources -> Heads] /\ sequence' \in Nat
         /\ HeadReadable' /\ Belongs'
         /\ dirty' \in [Sources -> Tickets] /\ dirtyCount' \in Nat /\ FencesCounted'
         /\ UNCHANGED <<stored, ownerOf, leases>>
<1> DEFINE s == op[o].source
           h == [state |-> state, rev |-> op[o].rev, seq |-> sequence + 1, fams |-> fams]
<1>1. Shape(op[o]) /\ op[o].phase = "activate"
  BY DEF SelectHead, IInv, Working, Shapes
<1>2. s \in Sources /\ op[o].rev \in Revisions
  BY <1>1 DEF Shape
<1>3. h \in Heads /\ sequence' \in Nat
  BY <1>2 DEF Heads, Tickets, IInv, StateOK, SelectHead
<1>4. head' = [head EXCEPT ![s] = h] /\ UNCHANGED <<stored, ownerOf, leases>> /\ SettleFence(s, op[o].rev)
  BY DEF SelectHead
<1>5. h.fams = fams
  OBVIOUS
<1> HIDE DEF h, s
<1>6. head' \in [Sources -> Heads]
  BY <1>3, <1>4 DEF IInv, StateOK
<1>7. head'[s].fams = fams /\ \A x \in Sources : x # s => head'[x] = head[x]
  BY <1>2, <1>4, <1>5 DEF IInv, StateOK
<1>8. HeadReadable' /\ Belongs'
  BY <1>4, <1>7 DEF IInv, HeadReadable, Belongs, s
<1>9. dirty' \in [Sources -> Tickets] /\ dirtyCount' \in Nat /\ FencesCounted'
  BY <1>2, <1>4, SettleCounts
<1> QED BY <1>3, <1>4, <1>6, <1>8, <1>9

LEMMA ActivateWriteKeeps == ASSUME IInv, NEW o \in Ops, ActivateWrite(o) PROVE IInv'
<1> DEFINE fams == {op[o].rev} \cup op[o].keep
<1>1. /\ op[o] \in Operations /\ Shape(op[o])
      /\ op[o].kind = "write" /\ op[o].phase = "activate"
      /\ SelectHead(o, "complete", fams)
  BY DEF ActivateWrite, SelectHead, IInv, StateOK, Working, Shapes
<1>2. fams \in SUBSET Revisions /\ \A f \in fams : ownerOf[f] = op[o].source
  BY <1>1 DEF Shape, Operations
<1>3. \A f \in fams : stored[f] = ChunkCount
  BY <1>1 DEF SelectHead, FamiliesStored
<1> HIDE DEF fams
<1>4. /\ head' \in [Sources -> Heads] /\ sequence' \in Nat
      /\ HeadReadable' /\ Belongs'
      /\ dirty' \in [Sources -> Tickets] /\ dirtyCount' \in Nat /\ FencesCounted'
      /\ UNCHANGED <<stored, ownerOf, leases>>
  BY <1>1, <1>2, <1>3, Selection
<1>5. GoesOn(o, Ended(o)) /\ op' = [op EXCEPT ![o] = Ended(o)]
  BY <1>1, EndedGoesOn DEF ActivateWrite, End
<1>6. Working' /\ op' \in [Ops -> Operations]
  BY <1>4, <1>5, GoingOnWorks
<1>7. StateOK'
  BY <1>4, <1>6 DEF IInv, StateOK
<1> QED BY <1>4, <1>6, <1>7 DEF IInv

(* What a deletion keeps it has pinned, so it need not count chunks. *)
LEMMA ActivateDeleteKeeps == ASSUME IInv, NEW o \in Ops, ActivateDelete(o) PROVE IInv'
<1>1. /\ op[o] \in Operations /\ Shape(op[o])
      /\ op[o].kind = "delete" /\ op[o].phase = "activate"
      /\ SelectHead(o, "tombstone", op[o].keep)
  BY DEF ActivateDelete, SelectHead, IInv, StateOK, Working, Shapes
<1>2. op[o].keep \in SUBSET Revisions /\ \A f \in op[o].keep : ownerOf[f] = op[o].source
  BY <1>1 DEF Shape, Operations
<1>3. \A f \in op[o].keep : stored[f] = ChunkCount
  BY <1>1 DEF Shape, IInv, Working, ViewReadable
<1>4. /\ head' \in [Sources -> Heads] /\ sequence' \in Nat
      /\ HeadReadable' /\ Belongs'
      /\ dirty' \in [Sources -> Tickets] /\ dirtyCount' \in Nat /\ FencesCounted'
      /\ UNCHANGED <<stored, ownerOf, leases>>
  BY <1>1, <1>2, <1>3, Selection
<1>5. PICK stillCurrent \in BOOLEAN :
        op' = [op EXCEPT ![o] = [Ended(o) EXCEPT
          !.live = stillCurrent,
          !.keep = IF op[o].keep = {} /\ stillCurrent THEN op[o].view ELSE {}]]
  BY DEF ActivateDelete
<1> DEFINE n == [Ended(o) EXCEPT
                   !.live = stillCurrent,
                   !.keep = IF op[o].keep = {} /\ stillCurrent THEN op[o].view ELSE {}]
<1>6. /\ n \in Operations /\ n.kind = "delete" /\ n.source = op[o].source
      /\ n.phase = "release" /\ n.view = op[o].view /\ n.keep \subseteq op[o].view
  BY <1>1, <1>5, EndedIsOperation DEF IInv, Operations
<1>7. op' = [op EXCEPT ![o] = n]
  BY <1>5
<1> HIDE DEF n
<1>8. GoesOn(o, n)
  BY <1>1, <1>6 DEF GoesOn, Shape, Staging
<1>9. Working' /\ op' \in [Ops -> Operations]
  BY <1>4, <1>7, <1>8, GoingOnWorks
<1>10. StateOK'
  BY <1>4, <1>9 DEF IInv, StateOK
<1> QED BY <1>4, <1>9, <1>10 DEF IInv
-----------------------------------------------------------------------------
(* Pinning the families of a selected head: they are whole and leased. *)
LEMMA Pinning ==
  ASSUME IInv, NEW o \in Ops, NEW s \in Sources, op[o].view = {},
         NEW n \in Operations, n.source = s, n.view = head[s].fams, Shape(n),
         Staging(n) => Staging(op[o]) /\ n.rev = op[o].rev,
         op' = [op EXCEPT ![o] = n], leases' = Lease(o, s, head[s].fams),
         UNCHANGED <<head, sequence, stored, ownerOf, dirty, dirtyCount>>
  PROVE  IInv'
<1>1. /\ op' \in [Ops -> Operations]
      /\ op'[o] = n
      /\ \A p \in Ops : p # o => op'[p] = op[p]
  BY OneOperation DEF IInv
<1>2. head[s].fams \subseteq Revisions
  BY DEF IInv, StateOK, Heads
<1>3. StateOK'
  <2>1. leases' \in SUBSET ((Ops \cup {Lost}) \X Sources \X Revisions)
    BY <1>2 DEF IInv, StateOK, Lease
  <2> QED BY <1>1, <2>1 DEF IInv, StateOK
<1>4. HeadReadable' /\ Belongs' /\ FencesCounted'
  BY DEF IInv, HeadReadable, Belongs, FencesCounted
<1>5. ViewReadable'
  BY <1>1 DEF IInv, HeadReadable, Working, ViewReadable
<1>6. LeasesOwned'
  <2>1. SUFFICES ASSUME NEW l \in leases', l[1] # Lost
                 PROVE  l[2] = op'[l[1]].source /\ l[3] \in op'[l[1]].view
    BY DEF LeasesOwned
  <2>2. CASE l \in leases
    <3>1. l[1] \in Ops /\ l[2] = op[l[1]].source /\ l[3] \in op[l[1]].view
      BY <2>1, <2>2 DEF IInv, StateOK, Working, LeasesOwned
    <3>2. l[1] # o
      BY <3>1
    <3> QED BY <1>1, <3>1, <3>2
  <2>3. CASE l \in {o} \X {s} \X head[s].fams
    BY <1>1, <2>3
  <2> QED BY <2>1, <2>2, <2>3 DEF Lease
<1>7. Shapes'
  BY <1>1 DEF IInv, Working, Shapes, Shape, Staging
<1>8. Held'
  BY <1>1 DEF IInv, Working, Held, Lease
<1>9. Drawn'
  BY <1>1 DEF IInv, Working, Drawn
<1> QED BY <1>3, <1>4, <1>5, <1>6, <1>7, <1>8, <1>9 DEF IInv, Working

LEMMA PinForWriteKeeps == ASSUME IInv, NEW o \in Ops, PinForWrite(o) PROVE IInv'
<1> DEFINE s == op[o].source
           n == IF op[o].keep \subseteq head[s].fams
                THEN [op[o] EXCEPT !.phase = "stage", !.view = head[s].fams]
                ELSE [Ended(o) EXCEPT !.view = head[s].fams]
<1>1. /\ op[o] \in Operations /\ Shape(op[o])
      /\ op[o].kind = "write" /\ op[o].phase = "pin"
  BY DEF PinForWrite, IInv, StateOK, Working, Shapes
<1>2. s \in Sources /\ op[o].view = {}
  BY <1>1 DEF Shape
<1>3. head[s].fams \in SUBSET Revisions /\ \A f \in head[s].fams : ownerOf[f] = s
  BY <1>2 DEF IInv, StateOK, Heads, Belongs
<1>4. /\ op' = [op EXCEPT ![o] = n] /\ leases' = Lease(o, s, head[s].fams)
      /\ UNCHANGED <<head, sequence, stored, ownerOf, dirty, dirtyCount>>
  BY DEF PinForWrite
<1>5. CASE op[o].keep \subseteq head[s].fams
  <2>1. /\ n \in Operations /\ n.kind = "write" /\ n.phase = "stage" /\ n.source = s
        /\ n.rev = op[o].rev /\ n.keep = op[o].keep /\ n.view = head[s].fams
        /\ n.staged = op[o].staged
    BY <1>1, <1>3, <1>5 DEF Operations, Phases
  <2> HIDE DEF n
  <2>2. Shape(n) /\ Staging(n) /\ Staging(op[o])
    BY <1>1, <1>3, <2>1 DEF Shape, Staging
  <2> HIDE DEF s
  <2> QED BY <1>2, <1>4, <2>1, <2>2, Pinning
<1>6. CASE ~(op[o].keep \subseteq head[s].fams)
  <2>1. /\ n \in Operations /\ n.kind = "write" /\ n.phase = "release" /\ n.source = s
        /\ n.keep = {} /\ n.view = head[s].fams
    BY <1>1, <1>3, <1>6, EndedIsOperation DEF IInv, Operations
  <2> HIDE DEF n
  <2>2. Shape(n) /\ ~Staging(n)
    BY <1>2, <1>3, <2>1 DEF Shape, Staging
  <2> HIDE DEF s
  <2> QED BY <1>2, <1>4, <2>1, <2>2, Pinning
<1> QED BY <1>5, <1>6

LEMMA PinForDeleteKeeps ==
  ASSUME IInv, NEW o \in Ops, NEW retain \in BOOLEAN, PinForDelete(o, retain) PROVE IInv'
<1> DEFINE s == op[o].source
           n == [op[o] EXCEPT !.view = head[s].fams,
                              !.base = Coordinates(head[s]),
                              !.keep = IF retain THEN head[s].fams ELSE {},
                              !.phase = "activate"]
<1>1. /\ op[o] \in Operations /\ Shape(op[o])
      /\ op[o].kind = "delete" /\ op[o].phase = "pin"
  BY DEF PinForDelete, IInv, StateOK, Working, Shapes
<1>2. s \in Sources /\ op[o].view = {}
  BY <1>1 DEF Shape
<1>3. /\ head[s].fams \in SUBSET Revisions /\ \A f \in head[s].fams : ownerOf[f] = s
      /\ Coordinates(head[s]) \in [rev : Tickets, seq : Nat]
  BY <1>2 DEF IInv, StateOK, Heads, Belongs, Coordinates
<1>4. /\ op' = [op EXCEPT ![o] = n] /\ leases' = Lease(o, s, head[s].fams)
      /\ UNCHANGED <<head, sequence, stored, ownerOf, dirty, dirtyCount>>
  BY DEF PinForDelete
<1>5. /\ n \in Operations /\ n.kind = "delete" /\ n.phase = "activate" /\ n.source = s
      /\ n.rev = op[o].rev /\ n.keep \subseteq head[s].fams /\ n.view = head[s].fams
  BY <1>1, <1>3 DEF Operations, Phases
<1> HIDE DEF n
<1>6. Shape(n) /\ ~Staging(n)
  BY <1>1, <1>2, <1>3, <1>5 DEF Shape, Staging
<1> HIDE DEF s
<1> QED BY <1>2, <1>4, <1>5, <1>6, Pinning

LEMMA StartReadKeeps ==
  ASSUME IInv, NEW o \in Ops, NEW s \in Sources, StartRead(o, s) PROVE IInv'
<1> DEFINE n == [Idle EXCEPT !.kind = "read", !.source = s, !.phase = "read",
                             !.live = TRUE, !.view = head[s].fams]
<1>1. op[o].view = {}
  BY DEF StartRead, IInv, Working, Shapes, Shape
<1>2. head[s].fams \in SUBSET Revisions /\ \A f \in head[s].fams : ownerOf[f] = s
  BY DEF IInv, StateOK, Heads, Belongs
<1>3. n \in Operations
  BY <1>2, IdleIsOperation DEF Operations, Phases
<1>4. n.kind = "read" /\ n.phase = "read" /\ n.source = s /\ n.keep = {} /\ n.view = head[s].fams
  BY DEF Idle
<1>5. /\ op' = [op EXCEPT ![o] = n] /\ leases' = Lease(o, s, head[s].fams)
      /\ UNCHANGED <<head, sequence, stored, ownerOf, dirty, dirtyCount>>
  BY DEF StartRead
<1> HIDE DEF n
<1>6. Shape(n) /\ ~Staging(n)
  BY <1>2, <1>4 DEF Shape, Staging
<1> QED BY <1>1, <1>3, <1>4, <1>5, <1>6, Pinning
-----------------------------------------------------------------------------
(* A staged chunk goes to a revision that nothing names yet: it is still   *)
(* incomplete, and no other writer stages it.                              *)
LEMMA StageChunkKeeps == ASSUME IInv, NEW o \in Ops, StageChunk(o) PROVE IInv'
<1> DEFINE rev == op[o].rev
           n == [op[o] EXCEPT !.staged = @ + 1,
                              !.phase = IF op[o].staged + 1 = ChunkCount THEN "activate" ELSE "stage"]
<1>1. /\ op[o] \in Operations /\ Shape(op[o])
      /\ op[o].kind = "write" /\ op[o].phase = "stage"
  BY DEF StageChunk, IInv, StateOK, Working, Shapes
<1>2. /\ rev \in Revisions /\ ownerOf[rev] = op[o].source /\ op[o].source \in Sources
      /\ stored[rev] \in Nat /\ op[o].staged \in Nat /\ ChunkCount \in Nat
      /\ stored[rev] <= op[o].staged /\ op[o].staged < ChunkCount
  BY <1>1, ConstantsAssumption DEF Shape, Staging, Operations, IInv, StateOK
<1>3. /\ op' = [op EXCEPT ![o] = n] /\ stored' = [stored EXCEPT ![rev] = @ + 1]
      /\ UNCHANGED <<head, sequence, ownerOf, leases, dirty, dirtyCount>>
  BY DEF StageChunk
<1>4. /\ n \in Operations /\ n.kind = "write" /\ n.source = op[o].source /\ n.rev = rev
      /\ n.keep = op[o].keep /\ n.view = op[o].view /\ n.staged = op[o].staged + 1
      /\ n.phase \in {"stage", "activate"}
      /\ n.phase = "stage" => n.staged # ChunkCount
  <2>1. op[o].staged + 1 \in 0 .. ChunkCount
    BY <1>2
  <2>2. n \in Operations
    BY <1>1, <2>1 DEF Operations, Phases
  <2>3. n.phase = IF op[o].staged + 1 = ChunkCount THEN "activate" ELSE "stage"
    BY <1>1 DEF Operations
  <2>4. n.staged = op[o].staged + 1
    BY <1>1 DEF Operations
  <2>5. /\ n.kind = "write" /\ n.source = op[o].source /\ n.rev = rev
        /\ n.keep = op[o].keep /\ n.view = op[o].view
    BY <1>1 DEF Operations
  <2> HIDE DEF n
  <2> QED BY <2>2, <2>3, <2>4, <2>5
<1> HIDE DEF n
<1>5. /\ op' \in [Ops -> Operations]
      /\ op'[o] = n
      /\ \A p \in Ops : p # o => op'[p] = op[p]
  BY <1>3, <1>4, OneOperation DEF IInv
<1>6. /\ stored' \in [Revisions -> 0 .. ChunkCount]
      /\ stored'[rev] = stored[rev] + 1
      /\ \A r \in Revisions : r # rev => stored'[r] = stored[r]
  BY <1>2, <1>3 DEF IInv, StateOK
<1>7. stored[rev] # ChunkCount
  BY <1>2
<1>8. StateOK'
  BY <1>3, <1>5, <1>6 DEF IInv, StateOK
<1>9. HeadReadable'
  <2>1. SUFFICES ASSUME NEW s \in Sources, NEW f \in head[s].fams PROVE stored'[f] = ChunkCount
    BY <1>3 DEF HeadReadable
  <2>2. stored[f] = ChunkCount /\ f \in Revisions
    BY DEF IInv, HeadReadable, StateOK, Heads
  <2> QED BY <1>6, <1>7, <2>2
<1>10. Belongs' /\ FencesCounted'
  BY <1>3 DEF IInv, Belongs, FencesCounted
<1>11. ViewReadable'
  <2>1. SUFFICES ASSUME NEW p \in Ops, NEW f \in op[p].view PROVE stored'[f] = ChunkCount
    BY <1>4, <1>5 DEF ViewReadable
  <2>2. stored[f] = ChunkCount /\ f \in Revisions
    BY DEF IInv, Working, ViewReadable, StateOK, Operations
  <2> QED BY <1>6, <1>7, <2>2
<1>12. LeasesOwned'
  <2>1. SUFFICES ASSUME NEW l \in leases, l[1] # Lost
                 PROVE  l[2] = op'[l[1]].source /\ l[3] \in op'[l[1]].view
    BY <1>3 DEF LeasesOwned
  <2>2. l[1] \in Ops /\ l[2] = op[l[1]].source /\ l[3] \in op[l[1]].view
    BY <2>1 DEF IInv, StateOK, Working, LeasesOwned
  <2> QED BY <1>4, <1>5, <2>2
<1>13. Shapes'
  <2>1. SUFFICES ASSUME NEW p \in Ops PROVE Shape(op[p])'
    BY DEF Shapes
  <2>2. Shape(op[p]) /\ ownerOf' = ownerOf
    BY <1>3 DEF IInv, Working, Shapes
  <2>3. CASE p = o
    <3>1. Staging(n) => stored'[n.rev] <= n.staged /\ n.staged < ChunkCount
      BY <1>2, <1>4, <1>6 DEF Staging
    <3> QED BY <1>1, <1>2, <1>4, <1>5, <2>3, <2>2, <3>1 DEF Shape, Staging
  <2>4. CASE p # o
    <3>1. op'[p] = op[p]
      BY <1>5, <2>4
    <3>2. Staging(op[p]) => op[p].rev \in Revisions /\ op[p].rev # rev
      BY <1>1, <2>2, <2>4 DEF IInv, Working, Drawn, Staging, Shape
    <3>3. Staging(op[p]) => stored'[op[p].rev] = stored[op[p].rev]
      BY <1>6, <3>2
    <3> QED BY <2>2, <3>1, <3>3 DEF Shape, Staging
  <2> QED BY <2>3, <2>4
<1>14. Held'
  BY <1>3, <1>4, <1>5 DEF IInv, Working, Held
<1>15. Drawn'
  <2>1. \A r \in Revisions : ownerOf'[r] = NoSource => stored'[r] = 0
    BY <1>2, <1>3, <1>6, ConstantsAssumption DEF IInv, Working, Drawn
  <2>2. \A p \in Ops : Staging(op'[p]) => Staging(op[p]) /\ op'[p].rev = op[p].rev
    BY <1>1, <1>4, <1>5 DEF Staging
  <2> QED BY <2>1, <2>2 DEF IInv, Working, Drawn, Staging
<1> QED BY <1>8, <1>9, <1>10, <1>11, <1>12, <1>13, <1>14, <1>15 DEF IInv, Working

(* A reclaimed revision is named by no head and no view: a head or a view  *)
(* that named it would be of the same source, and the view leased.         *)
LEMMA ReclaimKeeps ==
  ASSUME IInv, NEW o \in Ops, NEW r \in Revisions, Reclaim(o, r) PROVE IInv'
<1> DEFINE n == [op[o] EXCEPT !.keep = @ \ {r}]
<1>1. /\ op[o] \in Operations /\ Shape(op[o]) /\ op[o].kind = "cleanup"
      /\ r \in op[o].keep /\ ownerOf[r] = op[o].source /\ op[o].source \in Sources
  BY DEF Reclaim, IInv, StateOK, Working, Shapes, Shape
<1>2. /\ op' = [op EXCEPT ![o] = n] /\ stored' = [stored EXCEPT ![r] = 0]
      /\ UNCHANGED <<head, sequence, ownerOf, leases, dirty, dirtyCount>>
  BY DEF Reclaim
<1>3. /\ n \in Operations /\ n.kind = "cleanup" /\ n.phase = op[o].phase
      /\ n.source = op[o].source /\ n.keep \subseteq op[o].keep /\ n.view = op[o].view
  BY <1>1 DEF Operations
<1> HIDE DEF n
<1>4. /\ op' \in [Ops -> Operations]
      /\ op'[o] = n
      /\ \A p \in Ops : p # o => op'[p] = op[p]
  BY <1>2, <1>3, OneOperation DEF IInv
<1>5. /\ stored' \in [Revisions -> 0 .. ChunkCount]
      /\ stored'[r] = 0
      /\ \A x \in Revisions : x # r => stored'[x] = stored[x]
  BY <1>2, ConstantsAssumption DEF IInv, StateOK
<1>6. StateOK'
  BY <1>2, <1>4, <1>5 DEF IInv, StateOK
<1>7. HeadReadable'
  <2>1. SUFFICES ASSUME NEW s \in Sources, NEW f \in head[s].fams PROVE stored'[f] = ChunkCount
    BY <1>2 DEF HeadReadable
  <2>2. stored[f] = ChunkCount /\ f \in Revisions /\ ownerOf[f] = s
    BY DEF IInv, HeadReadable, Belongs, StateOK, Heads
  <2>3. f # r
    BY <1>1, <2>2 DEF Reclaim, Authorized, HeadNames
  <2> QED BY <1>5, <2>2, <2>3
<1>8. Belongs' /\ FencesCounted'
  BY <1>2 DEF IInv, Belongs, FencesCounted
<1>9. ViewReadable'
  <2>1. SUFFICES ASSUME NEW p \in Ops, NEW f \in op[p].view PROVE stored'[f] = ChunkCount
    BY <1>3, <1>4 DEF ViewReadable
  <2>2. stored[f] = ChunkCount /\ f \in Revisions /\ ownerOf[f] = op[p].source
    BY DEF IInv, Working, ViewReadable, Shapes, Shape, StateOK, Operations
  <2>3. <<p, op[p].source, f>> \in leases
    BY DEF IInv, Working, Held
  <2>4. f # r
    BY <1>1, <2>2, <2>3 DEF Reclaim, Authorized, Leased
  <2> QED BY <1>5, <2>2, <2>4
<1>10. LeasesOwned'
  <2>1. SUFFICES ASSUME NEW l \in leases, l[1] # Lost
                 PROVE  l[2] = op'[l[1]].source /\ l[3] \in op'[l[1]].view
    BY <1>2 DEF LeasesOwned
  <2>2. l[1] \in Ops /\ l[2] = op[l[1]].source /\ l[3] \in op[l[1]].view
    BY <2>1 DEF IInv, StateOK, Working, LeasesOwned
  <2> QED BY <1>3, <1>4, <2>2
<1>11. Shapes'
  <2>1. SUFFICES ASSUME NEW p \in Ops PROVE Shape(op[p])'
    BY DEF Shapes
  <2>2. Shape(op[p]) /\ ownerOf' = ownerOf /\ op[p] \in Operations
    BY <1>2 DEF IInv, Working, Shapes, StateOK
  <2>3. CASE p = o
    BY <1>1, <1>3, <1>4, <2>2, <2>3 DEF Shape, Staging
  <2>4. CASE p # o
    <3>1. op'[p] = op[p]
      BY <1>4, <2>4
    <3>2. Staging(op[p]) => stored'[op[p].rev] <= op[p].staged
      <4>1. Staging(op[p]) => op[p].rev \in Revisions /\ stored[op[p].rev] <= op[p].staged
        BY <2>2 DEF Shape, Staging
      <4>2. op[p].staged \in Nat
        BY <2>2, ConstantsAssumption DEF Operations
      <4> QED BY <1>5, <4>1, <4>2
    <3> QED BY <2>2, <3>1, <3>2 DEF Shape, Staging
  <2> QED BY <2>3, <2>4
<1>12. Held'
  BY <1>2, <1>3, <1>4 DEF IInv, Working, Held
<1>13. Drawn'
  <2>1. \A x \in Revisions : ownerOf'[x] = NoSource => stored'[x] = 0
    BY <1>2, <1>5 DEF IInv, Working, Drawn
  <2>2. \A p \in Ops : Staging(op'[p]) => Staging(op[p]) /\ op'[p].rev = op[p].rev
    BY <1>3, <1>4 DEF Staging
  <2> QED BY <2>1, <2>2 DEF IInv, Working, Drawn, Staging
<1> QED BY <1>6, <1>7, <1>8, <1>9, <1>10, <1>11, <1>12, <1>13 DEF IInv, Working
-----------------------------------------------------------------------------
(* A drawn revision id belonged to nobody, so nothing names it and nothing *)
(* is stored under it.  A start may also retire operations, whose live     *)
(* flag the invariant does not mention.                                    *)
LEMMA Drawing ==
  ASSUME IInv, NEW o \in Ops, NEW s \in Sources, NEW r \in Revisions, ownerOf[r] = NoSource,
         ownerOf' = [ownerOf EXCEPT ![r] = s], UNCHANGED disk,
         op[o].kind = "none", op' \in [Ops -> Operations],
         op'[o].kind \in {"write", "delete"}, op'[o].phase = "begin", op'[o].source = s,
         op'[o].rev = r, op'[o].view = {}, op'[o].staged = 0,
         \A f \in op'[o].keep : ownerOf[f] = s,
         \A p \in Ops : p # o =>
           /\ op'[p].kind = op[p].kind /\ op'[p].phase = op[p].phase
           /\ op'[p].source = op[p].source /\ op'[p].rev = op[p].rev
           /\ op'[p].keep = op[p].keep /\ op'[p].view = op[p].view
           /\ op'[p].staged = op[p].staged
  PROVE  IInv'
<1>1. UNCHANGED <<head, sequence, stored, leases, dirty, dirtyCount>>
  BY DEF disk
<1>2. /\ ownerOf' \in [Revisions -> Sources \cup {NoSource}]
      /\ ownerOf'[r] = s /\ NoSource \notin Sources
      /\ \A x \in Revisions : x # r => ownerOf'[x] = ownerOf[x]
  BY ConstantsAssumption DEF IInv, StateOK
<1>3. \A x \in Revisions : ownerOf[x] \in Sources => x # r /\ ownerOf'[x] = ownerOf[x]
  BY <1>2
<1>4. op[o].view = {} /\ op[o].keep = {}
  BY DEF IInv, Working, Shapes, Shape
<1>5. StateOK'
  BY <1>1, <1>2 DEF IInv, StateOK
<1>6. HeadReadable' /\ FencesCounted'
  BY <1>1 DEF IInv, HeadReadable, FencesCounted
<1>7. Belongs'
  <2>1. SUFFICES ASSUME NEW x \in Sources, NEW f \in head[x].fams PROVE ownerOf'[f] = x
    BY <1>1 DEF Belongs
  <2>2. f \in Revisions /\ ownerOf[f] = x
    BY DEF IInv, Belongs, StateOK, Heads
  <2> QED BY <1>3, <2>2
<1>8. ViewReadable' /\ Held'
  BY <1>1 DEF IInv, Working, ViewReadable, Held
<1>9. LeasesOwned'
  <2>1. SUFFICES ASSUME NEW l \in leases, l[1] # Lost
                 PROVE  l[2] = op'[l[1]].source /\ l[3] \in op'[l[1]].view
    BY <1>1 DEF LeasesOwned
  <2>2. l[1] \in Ops /\ l[2] = op[l[1]].source /\ l[3] \in op[l[1]].view
    BY <2>1 DEF IInv, StateOK, Working, LeasesOwned
  <2> QED BY <1>4, <2>2
<1>10. Shapes'
  <2>1. SUFFICES ASSUME NEW p \in Ops PROVE Shape(op[p])'
    BY DEF Shapes
  <2>2. CASE p = o
    <3>1. stored'[r] = 0 /\ 0 <= 0 /\ 0 < ChunkCount
      BY <1>1, ConstantsAssumption DEF IInv, Working, Drawn
    <3>2. op'[o].keep \subseteq Revisions
      BY DEF Operations
    <3>3. \A f \in op'[o].keep : ownerOf'[f] = s
      BY <1>3, <3>2
    <3> QED BY <1>2, <2>2, <3>1, <3>3 DEF Shape, Staging
  <2>3. CASE p # o
    <3>1. Shape(op[p]) /\ op[p] \in Operations
      BY DEF IInv, Working, Shapes, StateOK
    <3>2. op[p].kind \in {"write", "delete"} /\ op[p].phase # "release" =>
            op[p].rev \in Revisions /\ ownerOf'[op[p].rev] = op[p].source
      BY <1>3, <3>1 DEF Shape
    <3>3. \A f \in op[p].keep \cup op[p].view : ownerOf'[f] = op[p].source
      <4>1. CASE op[p].kind = "none"
        BY <3>1, <4>1 DEF Shape
      <4>2. CASE op[p].kind # "none"
        BY <1>3, <3>1, <4>2 DEF Shape, Operations
      <4> QED BY <4>1, <4>2
    <3> QED BY <1>1, <2>3, <3>1, <3>2, <3>3 DEF Shape, Staging
  <2> QED BY <2>2, <2>3
<1>11. Drawn'
  <2>1. \A x \in Revisions : ownerOf'[x] = NoSource => stored'[x] = 0
    BY <1>1, <1>2 DEF IInv, Working, Drawn
  <2>2. \A p \in Ops : p # o /\ Staging(op[p]) => op[p].rev # r
    BY <1>2 DEF IInv, Working, Shapes, Shape, Staging
  <2>3. ASSUME NEW p \in Ops, NEW q \in Ops, Staging(op'[p]), Staging(op'[q]), op'[p].rev = op'[q].rev
        PROVE  p = q
    BY <2>2, <2>3 DEF IInv, Working, Drawn, Staging
  <2> QED BY <2>1, <2>3 DEF Drawn, Staging
<1> QED BY <1>5, <1>6, <1>7, <1>8, <1>9, <1>10, <1>11 DEF IInv, Working

LEMMA StartWriteKeeps ==
  ASSUME IInv, NEW o \in Ops, NEW s \in Sources, NEW keep \in SUBSET Revisions,
         NEW r \in Revisions, StartWrite(o, s, keep, r)
  PROVE  IInv'
<1> DEFINE n == [Idle EXCEPT !.kind = "write", !.source = s, !.phase = "begin", !.live = TRUE,
                             !.rev = r, !.base = Coordinates(head[s]), !.keep = keep]
<1>1. /\ n.kind = "write" /\ n.phase = "begin" /\ n.source = s /\ n.rev = r
      /\ n.keep = keep /\ n.view = {} /\ n.staged = 0
  BY DEF Idle
<1>2. n \in Operations
  <2>1. Coordinates(head[s]) \in [rev : Tickets, seq : Nat]
    BY DEF IInv, StateOK, Heads, Coordinates
  <2> QED BY <2>1, IdleIsOperation DEF Operations, Phases, Tickets
<1>3. op' = [p \in Ops |-> IF p = o THEN n
               ELSE IF Home[p] = Home[o] /\ op[p].kind = "delete" /\ op[p].source = s
               THEN [op[p] EXCEPT !.live = FALSE]
               ELSE op[p]]
  BY DEF StartWrite
<1> HIDE DEF n
<1>4. op'[o] = n /\ op' \in [Ops -> Operations]
  <2>1. \A p \in Ops : op[p] \in Operations /\ [op[p] EXCEPT !.live = FALSE] \in Operations
    BY CancelledIsOperation DEF IInv, StateOK
  <2> QED BY <1>2, <1>3, <2>1
<1>5. ASSUME NEW p \in Ops, p # o
      PROVE  /\ op'[p].kind = op[p].kind /\ op'[p].phase = op[p].phase
             /\ op'[p].source = op[p].source /\ op'[p].rev = op[p].rev
             /\ op'[p].keep = op[p].keep /\ op'[p].view = op[p].view
             /\ op'[p].staged = op[p].staged
  BY <1>3, <1>5 DEF IInv, StateOK, Operations
<1>6. \A f \in keep : ownerOf[f] = s
  BY DEF StartWrite, IInv, Belongs
<1>7. op[o].kind = "none" /\ ownerOf[r] = NoSource /\ ownerOf' = [ownerOf EXCEPT ![r] = s]
      /\ UNCHANGED disk
  BY DEF StartWrite
<1> QED BY <1>1, <1>4, <1>5, <1>6, <1>7, Drawing

LEMMA StartDeleteKeeps ==
  ASSUME IInv, NEW o \in Ops, NEW s \in Sources, NEW r \in Revisions, StartDelete(o, s, r)
  PROVE  IInv'
<1> DEFINE n == [Idle EXCEPT !.kind = "delete", !.source = s, !.phase = "begin", !.live = TRUE,
                             !.rev = r]
<1>1. /\ n.kind = "delete" /\ n.phase = "begin" /\ n.source = s /\ n.rev = r
      /\ n.keep = {} /\ n.view = {} /\ n.staged = 0
  BY DEF Idle
<1>2. n \in Operations
  BY IdleIsOperation DEF Operations, Phases, Tickets
<1>3. op' = [p \in Ops |-> IF p = o THEN n
               ELSE IF p \in Writing(Home[o], s)
               THEN [op[p] EXCEPT !.live = FALSE]
               ELSE op[p]]
  BY DEF StartDelete
<1> HIDE DEF n
<1>4. op'[o] = n /\ op' \in [Ops -> Operations]
  <2>1. \A p \in Ops : op[p] \in Operations /\ [op[p] EXCEPT !.live = FALSE] \in Operations
    BY CancelledIsOperation DEF IInv, StateOK
  <2> QED BY <1>2, <1>3, <2>1
<1>5. ASSUME NEW p \in Ops, p # o
      PROVE  /\ op'[p].kind = op[p].kind /\ op'[p].phase = op[p].phase
             /\ op'[p].source = op[p].source /\ op'[p].rev = op[p].rev
             /\ op'[p].keep = op[p].keep /\ op'[p].view = op[p].view
             /\ op'[p].staged = op[p].staged
  BY <1>3, <1>5 DEF IInv, StateOK, Operations
<1>6. op[o].kind = "none" /\ ownerOf[r] = NoSource /\ ownerOf' = [ownerOf EXCEPT ![r] = s]
      /\ UNCHANGED disk
  BY DEF StartDelete
<1> QED BY <1>1, <1>4, <1>5, <1>6, Drawing
-----------------------------------------------------------------------------
(* Releasing removes the leases of the one operation, whose view is closed. *)
LEMMA ReleaseKeeps == ASSUME IInv, NEW o \in Ops, Release(o) PROVE IInv'
<1> DEFINE n == IF op[o].kind = "delete" /\ op[o].live /\ op[o].keep # {}
                THEN [Idle EXCEPT !.kind = "cleanup", !.source = op[o].source,
                                  !.phase = "preflight", !.live = TRUE, !.keep = op[o].keep]
                ELSE Idle
<1>1. op[o] \in Operations /\ Shape(op[o])
  BY DEF IInv, StateOK, Working, Shapes
<1>2. n \in Operations
  <2>1. CASE op[o].kind = "delete" /\ op[o].live /\ op[o].keep # {}
    BY <1>1, <2>1, IdleIsOperation DEF Operations, Phases
  <2>2. CASE ~(op[o].kind = "delete" /\ op[o].live /\ op[o].keep # {})
    BY <2>2, IdleIsOperation
  <2> QED BY <2>1, <2>2
<1>3. n.view = {} /\ Shape(n) /\ ~Staging(n)
  BY <1>1 DEF Idle, Shape, Staging
<1>4. op' = [op EXCEPT ![o] = n] /\ UNCHANGED <<head, sequence, stored, ownerOf, dirty, dirtyCount>>
  BY DEF Release
<1> HIDE DEF n
<1>5. /\ op' \in [Ops -> Operations]
      /\ op'[o] = n
      /\ \A p \in Ops : p # o => op'[p] = op[p]
  BY <1>2, <1>4, OneOperation DEF IInv
<1>6. \A l \in leases' : l \in leases \ LeasesOf(o) \/ l \in OrphansOf(o)
  BY DEF Release
<1>7. StateOK'
  <2>1. OrphansOf(o) \subseteq (Ops \cup {Lost}) \X Sources \X Revisions
    BY DEF OrphansOf, IInv, StateOK
  <2>2. leases' \in SUBSET ((Ops \cup {Lost}) \X Sources \X Revisions)
    BY <1>6, <2>1 DEF IInv, StateOK
  <2> QED BY <1>4, <1>5, <2>2 DEF IInv, StateOK
<1>8. HeadReadable' /\ Belongs' /\ FencesCounted'
  BY <1>4 DEF IInv, HeadReadable, Belongs, FencesCounted
<1>9. ViewReadable'
  BY <1>3, <1>4, <1>5 DEF IInv, Working, ViewReadable
<1>10. LeasesOwned'
  <2>1. SUFFICES ASSUME NEW l \in leases', l[1] # Lost
                 PROVE  l[2] = op'[l[1]].source /\ l[3] \in op'[l[1]].view
    BY DEF LeasesOwned
  <2>2. l \in leases /\ l[1] # o
    BY <1>6, <2>1 DEF OrphansOf, LeasesOf
  <2>3. l[1] \in Ops /\ l[2] = op[l[1]].source /\ l[3] \in op[l[1]].view
    BY <2>1, <2>2 DEF IInv, StateOK, Working, LeasesOwned
  <2> QED BY <1>5, <2>2, <2>3
<1>11. Shapes'
  BY <1>3, <1>4, <1>5 DEF IInv, Working, Shapes, Shape, Staging
<1>12. Held'
  <2>1. \A l \in leases : l[1] # o => l \in leases'
    BY DEF Release, LeasesOf
  <2> QED BY <1>3, <1>5, <2>1 DEF IInv, Working, Held
<1>13. Drawn'
  BY <1>3, <1>4, <1>5 DEF IInv, Working, Drawn
<1> QED BY <1>7, <1>8, <1>9, <1>10, <1>11, <1>12, <1>13 DEF IInv, Working

(* A crash closes the views of one repository and orphans their leases. *)
LEMMA CrashKeeps == ASSUME IInv, NEW c \in Connections, Crash(c) PROVE IInv'
<1>1. UNCHANGED <<head, sequence, stored, ownerOf, dirty, dirtyCount>>
  BY DEF Crash
<1>2. /\ op' \in [Ops -> Operations]
      /\ \A p \in Ops : op'[p] = IF Home[p] = c THEN Idle ELSE op[p]
  BY IdleIsOperation DEF Crash, IInv, StateOK
<1>3. Idle.view = {} /\ Shape(Idle)' /\ ~Staging(Idle)
  BY DEF Idle, Shape, Staging
<1>4. \A l \in leases' :
        \/ l \in leases /\ (l[1] = Lost \/ Home[l[1]] # c)
        \/ \E m \in leases : l = <<Lost, m[2], m[3]>>
  BY DEF Crash
<1>5. StateOK'
  <2>1. leases' \in SUBSET ((Ops \cup {Lost}) \X Sources \X Revisions)
    BY <1>4 DEF IInv, StateOK
  <2> QED BY <1>1, <1>2, <2>1 DEF IInv, StateOK
<1>6. HeadReadable' /\ Belongs' /\ FencesCounted'
  BY <1>1 DEF IInv, HeadReadable, Belongs, FencesCounted
<1>7. ViewReadable'
  BY <1>1, <1>2, <1>3 DEF IInv, Working, ViewReadable
<1>8. LeasesOwned'
  <2>1. SUFFICES ASSUME NEW l \in leases', l[1] # Lost
                 PROVE  l[2] = op'[l[1]].source /\ l[3] \in op'[l[1]].view
    BY DEF LeasesOwned
  <2>2. l \in leases /\ Home[l[1]] # c
    BY <1>4, <2>1
  <2>3. l[1] \in Ops /\ l[2] = op[l[1]].source /\ l[3] \in op[l[1]].view
    BY <2>1, <2>2 DEF IInv, StateOK, Working, LeasesOwned
  <2> QED BY <1>2, <2>2, <2>3
<1>9. Shapes'
  BY <1>1, <1>2, <1>3 DEF IInv, Working, Shapes, Shape, Staging
<1>10. Held'
  <2>1. \A l \in leases : Home[l[1]] # c => l \in leases'
    BY DEF Crash
  <2> QED BY <1>2, <1>3, <2>1 DEF IInv, Working, Held
<1>11. Drawn'
  BY <1>1, <1>2, <1>3 DEF IInv, Working, Drawn
<1> QED BY <1>5, <1>6, <1>7, <1>8, <1>9, <1>10, <1>11 DEF IInv, Working
-----------------------------------------------------------------------------
LEMMA InitIInv == Init => IInv
<1> SUFFICES ASSUME Init PROVE IInv
  OBVIOUS
<1>1. StateOK
  <2>1. MissingHead \in Heads /\ 0 \in 0 .. ChunkCount
    BY ConstantsAssumption DEF MissingHead, Heads, Tickets
  <2> QED BY <2>1, IdleIsOperation DEF Init, StateOK, Tickets
<1>2. HeadReadable /\ Belongs
  BY DEF Init, HeadReadable, Belongs, MissingHead
<1>3. FencesCounted
  <2>1. {s \in Sources : dirty[s] # NoRevision} = {}
    BY DEF Init
  <2> QED BY <2>1, FS_EmptySet DEF Init, FencesCounted
<1>4. ViewReadable /\ LeasesOwned /\ Held
  BY DEF Init, ViewReadable, LeasesOwned, Held, Idle
<1>5. Shapes /\ Drawn
  BY DEF Init, Shapes, Shape, Staging, Drawn, Idle
<1> QED BY <1>1, <1>2, <1>3, <1>4, <1>5 DEF IInv, Working

LEMMA NextIInv == IInv /\ [Next]_vars => IInv'
<1> SUFFICES ASSUME IInv, [Next]_vars PROVE IInv'
  OBVIOUS
<1>1. CASE UNCHANGED vars
  BY <1>1 DEF vars, IInv, StateOK, HeadReadable, FencesCounted, Belongs, Working, ViewReadable,
              LeasesOwned, Shapes, Shape, Staging, Held, Drawn
<1>2. CASE \E c \in Connections : Crash(c)
  BY <1>2, CrashKeeps
<1>3. ASSUME NEW o \in Ops, NEW s \in Sources, NEW r \in Revisions,
             \/ \E keep \in SUBSET Revisions : StartWrite(o, s, keep, r)
             \/ StartDelete(o, s, r)
      PROVE  IInv'
  BY <1>3, StartWriteKeeps, StartDeleteKeeps
<1>4. ASSUME NEW o \in Ops,
             \/ Abandon(o) \/ BeginMutation(o) \/ SettleAbsent(o) \/ RefuseActivation(o)
             \/ Preflight(o) \/ EndCleanup(o)
      PROVE  IInv'
  BY <1>4, AbandonKeeps, BeginMutationKeeps, SettleAbsentKeeps, RefuseActivationKeeps,
     PreflightKeeps, EndCleanupKeeps
<1>5. ASSUME NEW o \in Ops,
             \/ PinForWrite(o)
             \/ \E retain \in BOOLEAN : PinForDelete(o, retain)
             \/ \E s \in Sources : StartRead(o, s)
             \/ Release(o)
      PROVE  IInv'
  BY <1>5, PinForWriteKeeps, PinForDeleteKeeps, StartReadKeeps, ReleaseKeeps
<1>6. ASSUME NEW o \in Ops, StageChunk(o) \/ ActivateWrite(o) \/ ActivateDelete(o)
      PROVE  IInv'
  BY <1>6, StageChunkKeeps, ActivateWriteKeeps, ActivateDeleteKeeps
<1>7. ASSUME NEW o \in Ops, \E r \in Revisions : StartCleanup(o, r) \/ Reclaim(o, r)
      PROVE  IInv'
  BY <1>7, StartCleanupKeeps, ReclaimKeeps
<1> QED BY <1>1, <1>2, <1>3, <1>4, <1>5, <1>6, <1>7 DEF Next

LEMMA SpecIInv == Spec => []IInv
<1> QED BY InitIInv, NextIInv, PTL DEF Spec

OvertakenTyped == overtaken \in SUBSET Ops

(* Every variable stays in its type: no count of the persisted state, in   *)
(* particular the count of raised fences, leaves the natural numbers.      *)
THEOREM TypeCorrect == Spec => []TypeOK
<1>1. IInv => StateOK
  BY DEF IInv
<1>2. Init => OvertakenTyped
  BY DEF Init, OvertakenTyped
<1>3. OvertakenTyped /\ [Next]_vars => OvertakenTyped'
  <2> SUFFICES ASSUME overtaken \in SUBSET Ops, [Next]_vars PROVE overtaken' \in SUBSET Ops
    BY DEF OvertakenTyped
  <2>1. ASSUME NEW o \in Ops, ActivateWrite(o) \/ ActivateDelete(o) PROVE overtaken' \in SUBSET Ops
    BY <2>1 DEF ActivateWrite, ActivateDelete, SelectHead
  <2>2. ASSUME NEW o \in Ops, NEW s \in Sources, NEW r \in Revisions,
               \/ \E keep \in SUBSET Revisions : StartWrite(o, s, keep, r)
               \/ StartDelete(o, s, r)
        PROVE  overtaken' \in SUBSET Ops
    BY <2>2 DEF StartWrite, StartDelete
  <2>3. ASSUME NEW o \in Ops,
               \/ Abandon(o) \/ BeginMutation(o) \/ PinForWrite(o) \/ SettleAbsent(o) \/ StageChunk(o)
               \/ RefuseActivation(o) \/ Release(o) \/ Preflight(o) \/ EndCleanup(o)
               \/ \E retain \in BOOLEAN : PinForDelete(o, retain)
               \/ \E s \in Sources : StartRead(o, s)
               \/ \E r \in Revisions : StartCleanup(o, r) \/ Reclaim(o, r)
        PROVE  overtaken' \in SUBSET Ops
    <3>1. UNCHANGED overtaken \/ overtaken' = overtaken \ {o}
      BY <2>3 DEF Abandon, BeginMutation, PinForWrite, SettleAbsent, StageChunk, RefuseActivation,
                  Release, Preflight, EndCleanup, PinForDelete, StartRead, StartCleanup, Reclaim
    <3> QED BY <3>1
  <2>4. CASE (\E c \in Connections : Crash(c)) \/ UNCHANGED vars
    BY <2>4 DEF Crash, vars
  <2> QED BY <2>1, <2>2, <2>3, <2>4 DEF Next
<1>4. StateOK /\ OvertakenTyped => TypeOK
  BY DEF OvertakenTyped, TypeOK
<1> QED BY <1>1, <1>2, <1>3, <1>4, SpecIInv, PTL DEF Spec

(* Whatever its writer, other writers, cleaners and crashes did since,     *)
(* every chunk of every family a selected head names is on disk.           *)
THEOREM HeadStaysReadable == Spec => []HeadReadable
<1>1. IInv => HeadReadable
  BY DEF IInv
<1> QED BY <1>1, SpecIInv, PTL

(* A pinned view stays readable until it is released.                      *)
THEOREM ViewStaysReadable == Spec => []ViewReadable
<1>1. IInv => ViewReadable
  BY DEF IInv, Working
<1> QED BY <1>1, SpecIInv, PTL

(* No terminal path leaks a lease of a living repository.                  *)
THEOREM LeasesStayOwned == Spec => []LeasesOwned
<1>1. IInv => LeasesOwned
  BY DEF IInv, Working
<1> QED BY <1>1, SpecIInv, PTL

(* The persisted count of fences is that of the unsettled sources.         *)
THEOREM FencesStayCounted == Spec => []FencesCounted
<1>1. IInv => FencesCounted
  BY DEF IInv
<1> QED BY <1>1, SpecIInv, PTL
=============================================================================
