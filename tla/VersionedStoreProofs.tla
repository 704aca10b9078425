-------------------------- MODULE VersionedStoreProofs --------------------------
(***************************************************************************)
(* SourceRevisions implements VersionedStore, for any repositories,        *)
(* sources, revisions and operations.                                      *)
(*                                                                         *)
(* That heads and views stay readable makes a value what its head names.   *)
(* What is left is that a selection keeps families of the head it          *)
(* replaces, not of an older one, which its comparison of coordinates      *)
(* implies because no two heads of a source share them (KeepsCurrent), and *)
(* that its new revision has been seen by nobody (Unselected).  From the   *)
(* same comparison no update is lost: who looked at a head that has been   *)
(* replaced since selects nothing (ObsoleteNeverSelects).                  *)
(***************************************************************************)
EXTENDS SourceRevisionsProofs

Writes(n) == n.kind = "write" /\ n.phase # "release"
Selects(n) == Writes(n) \/ (n.kind = "delete" /\ n.phase = "activate")

(* If the head an operation expects is still selected, it names what the   *)
(* operation keeps.                                                        *)
KeepOK(n) ==
  /\ n.base.seq <= sequence
  /\ HeadMatches(n.base, head[n.source]) => n.keep \subseteq head[n.source].fams

KeepsCurrent == \A o \in Ops : Selects(op[o]) => KeepOK(op[o])

SequencesPassed == \A s \in Sources : head[s].seq <= sequence

(* The revision of an unfinished writer is named by no head and no view. *)
Unnamed(r) ==
  /\ \A s \in Sources : r \notin head[s].fams
  /\ \A o \in Ops : r \notin op[o].view

Unselected ==
  /\ \A o \in Ops : Writes(op[o]) => Unnamed(op[o].rev)
  /\ \A o, p \in Ops : Writes(op[o]) /\ Writes(op[p]) /\ op[o].rev = op[p].rev => o = p

Selecting == KeepsCurrent /\ SequencesPassed /\ Unselected

JInv == IInv /\ Selecting
-----------------------------------------------------------------------------
(* Operation p goes on as n in a step that selects no head: a writer keeps *)
(* what it is about to select, a deletion may choose it now, and what is   *)
(* pinned is pinned already or named by a head.                            *)
Follows(p, n) ==
  /\ Writes(n) => /\ Writes(op[p]) /\ n.rev = op[p].rev /\ n.source = op[p].source
                  /\ n.base = op[p].base /\ n.keep = op[p].keep
  /\ n.kind = "delete" /\ n.phase = "activate" => KeepOK(n)
  /\ \A f \in n.view : f \in op[p].view \/ \E s \in Sources : f \in head[s].fams

LEMMA Following ==
  ASSUME JInv, UNCHANGED <<head, sequence>>, \A p \in Ops : Follows(p, op'[p])
  PROVE  Selecting'
<1>1. SequencesPassed'
  BY DEF JInv, Selecting, SequencesPassed
<1>2. KeepsCurrent'
  <2>1. SUFFICES ASSUME NEW p \in Ops, Selects(op[p])'
                 PROVE  KeepOK(op[p])'
    BY DEF KeepsCurrent
  <2>2. CASE Writes(op[p])'
    BY <2>2 DEF JInv, Selecting, KeepsCurrent, Follows, Selects, Writes, KeepOK
  <2>3. CASE ~Writes(op[p])'
    BY <2>1, <2>3 DEF Follows, Selects, Writes, KeepOK
  <2> QED BY <2>2, <2>3
<1>3. Unselected'
  <2>1. ASSUME NEW p \in Ops, Writes(op[p])'
        PROVE  Writes(op[p]) /\ op'[p].rev = op[p].rev
    BY <2>1 DEF Follows, Writes
  <2>2. ASSUME NEW r, Unnamed(r) PROVE Unnamed(r)'
    BY <2>2 DEF Unnamed, Follows
  <2>3. ASSUME NEW p \in Ops, Writes(op[p])' PROVE Unnamed(op[p].rev)'
    <3>1. Unnamed(op[p].rev)
      BY <2>1, <2>3 DEF JInv, Selecting, Unselected
    <3>2. Unnamed(op'[p].rev)
      BY <2>1, <2>3, <3>1
    <3> QED BY <3>2 DEF Unnamed, Follows
  <2>4. ASSUME NEW p \in Ops, NEW q \in Ops, Writes(op[p])', Writes(op[q])', op'[p].rev = op'[q].rev
        PROVE  p = q
    BY <2>1, <2>4 DEF JInv, Selecting, Unselected
  <2> QED BY <2>3, <2>4 DEF Unselected
<1> QED BY <1>1, <1>2, <1>3 DEF Selecting

LEMMA SameFollows ==
  ASSUME JInv, NEW p \in Ops PROVE Follows(p, op[p])
  BY DEF JInv, Selecting, KeepsCurrent, Selects, Follows

(* One operation goes on, the others stay as they are. *)
LEMMA OneFollows ==
  ASSUME JInv, UNCHANGED <<head, sequence>>, NEW o \in Ops, NEW n, op' = [op EXCEPT ![o] = n],
         Follows(o, n)
  PROVE  Selecting'
<1>1. op'[o] = n /\ \A p \in Ops : p # o => op'[p] = op[p]
  BY DEF JInv, IInv, StateOK
<1>2. \A p \in Ops : Follows(p, op'[p])
  BY <1>1, SameFollows
<1> QED BY <1>2, Following

LEMMA EndedFollows ==
  ASSUME JInv, NEW o \in Ops, op[o].kind \in {"write", "delete", "read"}
  PROVE  Follows(o, Ended(o))
<1>1. /\ Ended(o).phase = "release" /\ Ended(o).view = op[o].view
  BY EndedIsOperation DEF JInv, IInv
<1> QED BY <1>1 DEF Follows, Writes

LEMMA IdleFollows ==
  ASSUME NEW o \in Ops PROVE Follows(o, Idle)
  BY DEF Follows, Writes, Idle
-----------------------------------------------------------------------------
(* The steps that select no head and draw no revision. *)
LEMMA EndingSelects ==
  ASSUME JInv, NEW o \in Ops,
         \/ Abandon(o) \/ RefuseActivation(o) \/ SettleAbsent(o) \/ EndCleanup(o)
  PROVE  Selecting'
<1>1. CASE Abandon(o) \/ RefuseActivation(o)
  <2>1. op' = [op EXCEPT ![o] = Ended(o)] /\ Follows(o, Ended(o)) /\ UNCHANGED <<head, sequence>>
    BY <1>1, EndedFollows DEF Abandon, RefuseActivation, End, disk
  <2> QED BY <2>1, OneFollows
<1>2. CASE SettleAbsent(o) \/ EndCleanup(o)
  <2>1. op' = [op EXCEPT ![o] = Idle] /\ Follows(o, Idle) /\ UNCHANGED <<head, sequence>>
    BY <1>2, IdleFollows DEF SettleAbsent, EndCleanup, disk
  <2> QED BY <2>1, OneFollows
<1> QED BY <1>1, <1>2

LEMMA BeginMutationSelects == ASSUME JInv, NEW o \in Ops, BeginMutation(o) PROVE Selecting'
<1> DEFINE n == [op[o] EXCEPT !.phase =
                   IF op[o].kind = "write" /\ op[o].keep = {} THEN "stage" ELSE "pin"]
<1>1. op[o] \in Operations /\ op[o].kind \in {"write", "delete"} /\ op[o].phase = "begin"
  BY DEF BeginMutation, JInv, IInv, StateOK
<1>2. n.phase \in {"stage", "pin"} /\ n.kind = op[o].kind /\ n.source = op[o].source
      /\ n.rev = op[o].rev /\ n.keep = op[o].keep /\ n.view = op[o].view /\ n.base = op[o].base
  BY <1>1 DEF Operations
<1>3. op' = [op EXCEPT ![o] = n] /\ UNCHANGED <<head, sequence>>
  BY DEF BeginMutation, To
<1> HIDE DEF n
<1>4. Follows(o, n)
  BY <1>1, <1>2 DEF Follows, Writes
<1> QED BY <1>3, <1>4, OneFollows

LEMMA StageChunkSelects == ASSUME JInv, NEW o \in Ops, StageChunk(o) PROVE Selecting'
<1> DEFINE n == [op[o] EXCEPT !.staged = @ + 1,
                              !.phase = IF op[o].staged + 1 = ChunkCount THEN "activate" ELSE "stage"]
<1>1. op[o] \in Operations /\ op[o].kind = "write" /\ op[o].phase = "stage"
  BY DEF StageChunk, JInv, IInv, StateOK
<1>2. n.kind = op[o].kind /\ n.source = op[o].source
      /\ n.rev = op[o].rev /\ n.keep = op[o].keep /\ n.view = op[o].view /\ n.base = op[o].base
  BY <1>1 DEF Operations
<1>3. op' = [op EXCEPT ![o] = n] /\ UNCHANGED <<head, sequence>>
  BY DEF StageChunk
<1> HIDE DEF n
<1>4. Follows(o, n)
  BY <1>1, <1>2 DEF Follows, Writes
<1> QED BY <1>3, <1>4, OneFollows

LEMMA PinForWriteSelects == ASSUME JInv, NEW o \in Ops, PinForWrite(o) PROVE Selecting'
<1> DEFINE s == op[o].source
           n == IF op[o].keep \subseteq head[s].fams
                THEN [op[o] EXCEPT !.phase = "stage", !.view = head[s].fams]
                ELSE [Ended(o) EXCEPT !.view = head[s].fams]
<1>1. op[o] \in Operations /\ op[o].kind = "write" /\ op[o].phase = "pin" /\ s \in Sources
  BY DEF PinForWrite, JInv, IInv, StateOK, Working, Shapes, Shape
<1>2. Ended(o) \in Operations /\ Ended(o).kind = "write" /\ Ended(o).phase = "release"
  BY <1>1, EndedIsOperation DEF JInv, IInv
<1>3. /\ n.kind = "write" /\ n.view = head[s].fams
      /\ n.phase # "release" => /\ n.source = op[o].source /\ n.rev = op[o].rev
                                /\ n.keep = op[o].keep /\ n.base = op[o].base
  <2>1. CASE op[o].keep \subseteq head[s].fams
    BY <1>1, <2>1 DEF Operations
  <2>2. CASE ~(op[o].keep \subseteq head[s].fams)
    BY <1>2, <2>2 DEF Operations
  <2> QED BY <2>1, <2>2
<1>4. op' = [op EXCEPT ![o] = n] /\ UNCHANGED <<head, sequence>>
  BY DEF PinForWrite
<1> HIDE DEF n
<1>5. \A f \in n.view : \E x \in Sources : f \in head[x].fams
  BY <1>1, <1>3
<1>6. Follows(o, n)
  BY <1>1, <1>3, <1>5 DEF Follows, Writes
<1> QED BY <1>4, <1>6, OneFollows

LEMMA PinForDeleteSelects ==
  ASSUME JInv, NEW o \in Ops, NEW retain \in BOOLEAN, PinForDelete(o, retain) PROVE Selecting'
<1> DEFINE s == op[o].source
           n == [op[o] EXCEPT !.view = head[s].fams,
                              !.base = Coordinates(head[s]),
                              !.keep = IF retain THEN head[s].fams ELSE {},
                              !.phase = "activate"]
<1>1. op[o] \in Operations /\ op[o].kind = "delete" /\ s \in Sources
  BY DEF PinForDelete, JInv, IInv, StateOK, Working, Shapes, Shape
<1>2. n.kind = "delete" /\ n.source = s /\ n.base = Coordinates(head[s])
      /\ n.keep \subseteq head[s].fams /\ n.view = head[s].fams
  BY <1>1 DEF Operations
<1>3. op' = [op EXCEPT ![o] = n] /\ UNCHANGED <<head, sequence>>
  BY DEF PinForDelete
<1> HIDE DEF n
<1>4. head[s].seq <= sequence
  BY <1>1 DEF JInv, Selecting, SequencesPassed
<1>5. KeepOK(n)
  BY <1>2, <1>4 DEF KeepOK, Coordinates
<1>6. Follows(o, n)
  BY <1>1, <1>2, <1>5 DEF Follows, Writes
<1> QED BY <1>3, <1>6, OneFollows

LEMMA StartReadSelects ==
  ASSUME JInv, NEW o \in Ops, NEW s \in Sources, StartRead(o, s) PROVE Selecting'
<1> DEFINE n == [Idle EXCEPT !.kind = "read", !.source = s, !.phase = "read",
                             !.live = TRUE, !.view = head[s].fams]
<1>1. n.kind = "read" /\ n.view = head[s].fams
  BY DEF Idle
<1>2. op' = [op EXCEPT ![o] = n] /\ UNCHANGED <<head, sequence>>
  BY DEF StartRead
<1> HIDE DEF n
<1>3. Follows(o, n)
  BY <1>1 DEF Follows, Writes
<1> QED BY <1>2, <1>3, OneFollows

LEMMA CleaningFollows ==
  ASSUME JInv, UNCHANGED <<head, sequence>>, NEW o \in Ops, NEW n, op' = [op EXCEPT ![o] = n],
         n.kind \in {"cleanup", "none"}, n.view \subseteq op[o].view
  PROVE  Selecting'
<1>1. Follows(o, n)
  BY DEF Follows, Writes
<1> QED BY <1>1, OneFollows

LEMMA CleanupSelects ==
  ASSUME JInv, NEW o \in Ops,
         Release(o) \/ Preflight(o) \/ \E r \in Revisions : StartCleanup(o, r) \/ Reclaim(o, r)
  PROVE  Selecting'
<1>1. op[o] \in Operations
  BY DEF JInv, IInv, StateOK
<1>2. CASE Release(o)
  <2> DEFINE n == IF op[o].kind = "delete" /\ op[o].live /\ op[o].keep # {}
                  THEN [Idle EXCEPT !.kind = "cleanup", !.source = op[o].source,
                                    !.phase = "preflight", !.live = TRUE, !.keep = op[o].keep]
                  ELSE Idle
  <2>1. n.kind \in {"cleanup", "none"} /\ n.view \subseteq op[o].view
    BY DEF Idle
  <2>2. op' = [op EXCEPT ![o] = n] /\ UNCHANGED <<head, sequence>>
    BY <1>2 DEF Release
  <2> HIDE DEF n
  <2> QED BY <2>1, <2>2, CleaningFollows
<1>3. CASE Preflight(o)
  <2> DEFINE n == [op[o] EXCEPT !.phase = "reclaim",
                                !.keep = {r \in op[o].keep : ~HeadNames(op[o].source, r)}]
  <2>1. n.kind = "cleanup" /\ n.view = op[o].view
    BY <1>1, <1>3 DEF Operations, Preflight
  <2>2. op' = [op EXCEPT ![o] = n] /\ UNCHANGED <<head, sequence>>
    BY <1>3 DEF Preflight, disk
  <2> HIDE DEF n
  <2> QED BY <2>1, <2>2, CleaningFollows
<1>4. ASSUME NEW r \in Revisions, StartCleanup(o, r) PROVE Selecting'
  <2> DEFINE n == [Idle EXCEPT !.kind = "cleanup", !.source = ownerOf[r],
                               !.phase = "preflight", !.live = TRUE, !.keep = {r}]
  <2>1. n.kind = "cleanup" /\ n.view = {}
    BY DEF Idle
  <2>2. op' = [op EXCEPT ![o] = n] /\ UNCHANGED <<head, sequence>>
    BY <1>4 DEF StartCleanup, disk
  <2> HIDE DEF n
  <2> QED BY <2>1, <2>2, CleaningFollows
<1>5. ASSUME NEW r \in Revisions, Reclaim(o, r) PROVE Selecting'
  <2> DEFINE n == [op[o] EXCEPT !.keep = @ \ {r}]
  <2>1. n.kind = "cleanup" /\ n.view = op[o].view
    BY <1>1, <1>5 DEF Operations, Reclaim
  <2>2. op' = [op EXCEPT ![o] = n] /\ UNCHANGED <<head, sequence>>
    BY <1>5 DEF Reclaim
  <2> HIDE DEF n
  <2> QED BY <2>1, <2>2, CleaningFollows
<1> QED BY <1>2, <1>3, <1>4, <1>5

LEMMA CrashSelects == ASSUME JInv, NEW c \in Connections, Crash(c) PROVE Selecting'
<1>1. \A p \in Ops : Follows(p, op'[p])
  BY SameFollows, IdleFollows DEF Crash
<1> QED BY <1>1, Following DEF Crash

LEMMA StartDeleteSelects ==
  ASSUME JInv, NEW o \in Ops, NEW s \in Sources, NEW r \in Revisions, StartDelete(o, s, r)
  PROVE  Selecting'
<1> DEFINE n == [Idle EXCEPT !.kind = "delete", !.source = s, !.phase = "begin", !.live = TRUE,
                             !.rev = r]
           still(p) == [op[p] EXCEPT !.live = FALSE]
<1>1. n.kind = "delete" /\ n.phase = "begin" /\ n.view = {}
  BY DEF Idle
<1>2. \A p \in Ops : op'[p] = IF p = o THEN n ELSE IF p \in Writing(Home[o], s) THEN still(p) ELSE op[p]
  BY DEF StartDelete
<1>3. \A p \in Ops : p \in Writing(Home[o], s) => Follows(p, still(p))
  <2> SUFFICES ASSUME NEW p \in Ops, p \in Writing(Home[o], s) PROVE Follows(p, still(p))
    OBVIOUS
  <2>1. /\ still(p).kind = op[p].kind /\ still(p).phase = op[p].phase /\ still(p).rev = op[p].rev
        /\ still(p).source = op[p].source /\ still(p).base = op[p].base
        /\ still(p).keep = op[p].keep /\ still(p).view = op[p].view
    BY DEF JInv, IInv, StateOK, Operations
  <2> HIDE DEF still
  <2> QED BY <2>1 DEF Follows, Writes, Writing
<1> HIDE DEF n, still
<1>4. Follows(o, n)
  BY <1>1 DEF Follows, Writes
<1>5. \A p \in Ops : Follows(p, op'[p])
  BY <1>2, <1>3, <1>4, SameFollows
<1> QED BY <1>5, Following DEF StartDelete, disk
-----------------------------------------------------------------------------
(* A drawn revision belonged to nobody, so no head and no view names it. *)
LEMMA StartWriteSelects ==
  ASSUME JInv, NEW o \in Ops, NEW s \in Sources, NEW keep \in SUBSET Revisions,
         NEW r \in Revisions, StartWrite(o, s, keep, r)
  PROVE  Selecting'
<1> DEFINE n == [Idle EXCEPT !.kind = "write", !.source = s, !.phase = "begin", !.live = TRUE,
                             !.rev = r, !.base = Coordinates(head[s]), !.keep = keep]
<1>1. /\ n.kind = "write" /\ n.phase = "begin" /\ n.source = s /\ n.rev = r
      /\ n.base = Coordinates(head[s]) /\ n.keep = keep /\ n.view = {}
  BY DEF Idle
<1>2. op' = [p \in Ops |-> IF p = o THEN n
               ELSE IF Home[p] = Home[o] /\ op[p].kind = "delete" /\ op[p].source = s
               THEN [op[p] EXCEPT !.live = FALSE]
               ELSE op[p]]
  BY DEF StartWrite
<1> HIDE DEF n
<1>3. op'[o] = n /\ UNCHANGED <<head, sequence>>
  BY <1>2 DEF StartWrite, disk
<1>4. ASSUME NEW p \in Ops, p # o
      PROVE  /\ op'[p].kind = op[p].kind /\ op'[p].phase = op[p].phase
             /\ op'[p].source = op[p].source /\ op'[p].rev = op[p].rev
             /\ op'[p].base = op[p].base
             /\ op'[p].keep = op[p].keep /\ op'[p].view = op[p].view
  BY <1>2, <1>4 DEF JInv, IInv, StateOK, Operations
<1>5. keep \subseteq head[s].fams /\ ownerOf[r] = NoSource /\ NoSource \notin Sources
  BY ConstantsAssumption DEF StartWrite
<1>6. Unnamed(r)
  <2>1. \A x \in Sources : r \notin head[x].fams
    BY <1>5 DEF JInv, IInv, Belongs
  <2>2. \A p \in Ops : r \notin op[p].view
    BY <1>5 DEF JInv, IInv, Working, Shapes, Shape
  <2> QED BY <2>1, <2>2 DEF Unnamed
<1>7. \A p \in Ops : Writes(op[p]) => op[p].rev # r
  BY <1>5 DEF JInv, IInv, Working, Shapes, Shape, Writes
<1>8. SequencesPassed'
  BY <1>3 DEF JInv, Selecting, SequencesPassed
<1>9. KeepsCurrent'
  <2>1. SUFFICES ASSUME NEW p \in Ops, Selects(op[p])'
                 PROVE  KeepOK(op[p])'
    BY DEF KeepsCurrent
  <2>2. CASE p = o
    BY <1>1, <1>3, <1>5, <2>2 DEF JInv, Selecting, SequencesPassed, KeepOK, Coordinates
  <2>3. CASE p # o
    <3>1. KeepOK(op[p])
      BY <1>4, <2>1, <2>3 DEF JInv, Selecting, KeepsCurrent, Selects, Writes
    <3> QED BY <1>3, <1>4, <2>3, <3>1 DEF KeepOK
  <2> QED BY <2>2, <2>3
<1>10. Unselected'
  <2>1. \A x : Unnamed(x) => Unnamed(x)'
    BY <1>1, <1>3, <1>4 DEF Unnamed
  <2>2. ASSUME NEW p \in Ops, Writes(op[p])' PROVE Unnamed(op[p].rev)'
    <3>1. CASE p = o
      BY <1>1, <1>3, <1>6, <2>1, <3>1 DEF Unnamed
    <3>2. CASE p # o
      <4>1. Unnamed(op[p].rev) /\ op'[p].rev = op[p].rev
        BY <1>4, <2>2, <3>2 DEF JInv, Selecting, Unselected, Writes
      <4> QED BY <2>1, <4>1 DEF Unnamed
    <3> QED BY <3>1, <3>2
  <2>3. ASSUME NEW p \in Ops, NEW q \in Ops, Writes(op[p])', Writes(op[q])', op'[p].rev = op'[q].rev
        PROVE  p = q
    BY <1>1, <1>3, <1>4, <1>7, <2>3 DEF JInv, Selecting, Unselected, Writes
  <2> QED BY <2>2, <2>3 DEF Unselected
<1> QED BY <1>8, <1>9, <1>10 DEF Selecting

(* A selection passes every sequence, so no other operation can still find *)
(* the head it expects, and the families it selects were its own or were   *)
(* named by the head it replaces.                                          *)
LEMMA SelectionSelects ==
  ASSUME JInv, NEW o \in Ops, Selects(op[o]), NEW state, NEW fams, SelectHead(o, state, fams),
         \A f \in fams : f \in op[o].keep \/ (Writes(op[o]) /\ f = op[o].rev),
         op'[o].phase = "release", op'[o].view = op[o].view,
         \A p \in Ops : p # o => op'[p] = op[p]
  PROVE  Selecting'
<1> DEFINE s == op[o].source
<1>1. s \in Sources /\ sequence \in Nat /\ sequence' = sequence + 1
  BY DEF Selects, Writes, SelectHead, JInv, IInv, StateOK, Working, Shapes, Shape
<1>2. /\ head'[s].seq = sequence + 1 /\ head'[s].fams = fams
      /\ \A x \in Sources : x # s => head'[x] = head[x]
  BY <1>1 DEF SelectHead, JInv, IInv, StateOK
<1>3. op[o].keep \subseteq head[s].fams
  BY DEF SelectHead, JInv, Selecting, KeepsCurrent, KeepOK
<1>4. \A x \in Sources : head[x].seq \in Nat /\ head[x].seq <= sequence
  BY DEF JInv, IInv, StateOK, Heads, Selecting, SequencesPassed
<1> HIDE DEF s
<1>5. SequencesPassed'
  <2>1. SUFFICES ASSUME NEW x \in Sources PROVE head'[x].seq <= sequence'
    BY DEF SequencesPassed
  <2>2. head[x].seq \in Nat /\ head[x].seq <= sequence
    BY <1>4
  <2> QED BY <1>1, <1>2, <2>2
<1>6. KeepsCurrent'
  <2>1. SUFFICES ASSUME NEW p \in Ops, Selects(op'[p])
                 PROVE  KeepOK(op[p])'
    BY DEF KeepsCurrent, Selects, Writes
  <2>2. p # o /\ op'[p] = op[p]
    BY <2>1 DEF Selects, Writes
  <2>3. KeepOK(op[p]) /\ op[p].base.seq \in Nat /\ op[p].source \in Sources
    BY <2>1, <2>2 DEF JInv, Selecting, KeepsCurrent, IInv, StateOK, Operations, Working, Shapes, Shape, Selects, Writes
  <2>4. op[p].base.seq <= sequence /\ op[p].base.seq # sequence + 1
    BY <1>1, <2>3 DEF KeepOK
  <2>5. op[p].base.seq <= sequence'
    BY <1>1, <2>3, <2>4
  <2>6. HeadMatches(op[p].base, head'[op[p].source]) => op[p].source # s
    BY <1>2, <2>4 DEF HeadMatches, Coordinates
  <2> QED BY <1>2, <2>2, <2>3, <2>5, <2>6 DEF KeepOK, HeadMatches
<1>7. Unselected'
  <2>1. ASSUME NEW p \in Ops, Writes(op'[p])
        PROVE  p # o /\ op'[p] = op[p]
    BY <2>1 DEF Writes
  <2>2. ASSUME NEW p \in Ops, Writes(op'[p]) PROVE Unnamed(op[p].rev)'
    <3>1. op'[p] = op[p] /\ Unnamed(op[p].rev) /\ (Writes(op[o]) => op[p].rev # op[o].rev)
      BY <2>1, <2>2 DEF JInv, Selecting, Unselected
    <3>2. \A x \in Sources : op[p].rev \notin head'[x].fams
      BY <1>1, <1>2, <1>3, <3>1 DEF Unnamed
    <3>3. \A q \in Ops : op[p].rev \notin op'[q].view
      BY <3>1 DEF Unnamed
    <3> QED BY <3>1, <3>2, <3>3 DEF Unnamed
  <2>3. ASSUME NEW p \in Ops, NEW q \in Ops, Writes(op'[p]), Writes(op'[q]), op'[p].rev = op'[q].rev
        PROVE  p = q
    BY <2>1, <2>3 DEF JInv, Selecting, Unselected
  <2> QED BY <2>2, <2>3 DEF Unselected, Writes
<1> QED BY <1>5, <1>6, <1>7 DEF Selecting

LEMMA ActivationSelects ==
  ASSUME JInv, NEW o \in Ops, ActivateWrite(o) \/ ActivateDelete(o)
  PROVE  /\ Selecting' /\ op[o].keep \subseteq head[op[o].source].fams
         /\ op[o].source \in Sources
         /\ \A p \in Ops : op'[p].view = op[p].view
<1>1. op[o].phase = "activate" /\ Selects(op[o]) /\ op[o] \in Operations /\ HeadMatches(op[o].base, head[op[o].source])
  BY DEF ActivateWrite, ActivateDelete, SelectHead, Selects, Writes, JInv, IInv, StateOK
<1>2. op[o].keep \subseteq head[op[o].source].fams /\ op[o].source \in Sources
  BY <1>1 DEF JInv, Selecting, KeepsCurrent, KeepOK, Selects, Writes, IInv, Working, Shapes, Shape
<1>3. Ended(o) \in Operations /\ Ended(o).phase = "release" /\ Ended(o).view = op[o].view
  BY EndedIsOperation DEF JInv, IInv
<1>4. CASE ActivateWrite(o)
  <2>1. op'[o] = Ended(o) /\ \A p \in Ops : p # o => op'[p] = op[p]
    BY <1>4 DEF ActivateWrite, End, JInv, IInv, StateOK
  <2>2. SelectHead(o, "complete", {op[o].rev} \cup op[o].keep) /\ Writes(op[o])
    BY <1>1, <1>4 DEF ActivateWrite, Writes
  <2>3. \A f \in {op[o].rev} \cup op[o].keep : f \in op[o].keep \/ (Writes(op[o]) /\ f = op[o].rev)
    BY <2>2
  <2>4. op'[o].phase = "release" /\ op'[o].view = op[o].view
    BY <1>3, <2>1
  <2>5. Selecting'
    BY <1>1, <2>1, <2>2, <2>3, <2>4, SelectionSelects
  <2> QED BY <1>2, <2>1, <2>4, <2>5
<1>5. CASE ActivateDelete(o)
  <2>1. PICK stillCurrent \in BOOLEAN :
          op' = [op EXCEPT ![o] = [Ended(o) EXCEPT
            !.live = stillCurrent,
            !.keep = IF op[o].keep = {} /\ stillCurrent THEN op[o].view ELSE {}]]
    BY <1>5 DEF ActivateDelete
  <2>2. /\ op'[o].phase = "release" /\ op'[o].view = op[o].view
        /\ \A p \in Ops : p # o => op'[p] = op[p]
    BY <1>3, <2>1 DEF JInv, IInv, StateOK, Operations
  <2>3. SelectHead(o, "tombstone", op[o].keep)
    BY <1>5 DEF ActivateDelete
  <2>4. Selecting'
    BY <1>1, <2>2, <2>3, SelectionSelects
  <2> QED BY <1>2, <2>2, <2>4
<1> QED BY <1>4, <1>5
-----------------------------------------------------------------------------
LEMMA InitJInv == Init => JInv
<1> SUFFICES ASSUME Init PROVE JInv
  OBVIOUS
<1>1. \A o \in Ops : ~Selects(op[o]) /\ ~Writes(op[o])
  BY DEF Init, Idle, Selects, Writes
<1>2. SequencesPassed
  BY DEF Init, SequencesPassed, MissingHead
<1> QED BY <1>1, <1>2, InitIInv DEF JInv, Selecting, KeepsCurrent, Unselected

LEMMA NextJInv == JInv /\ [Next]_vars => JInv'
<1> SUFFICES ASSUME JInv, [Next]_vars PROVE Selecting'
  BY NextIInv DEF JInv
<1>1. CASE UNCHANGED vars
  BY <1>1, SameFollows, Following DEF vars
<1>2. CASE \E c \in Connections : Crash(c)
  BY <1>2, CrashSelects
<1>3. ASSUME NEW o \in Ops, NEW s \in Sources, NEW r \in Revisions,
             \/ \E keep \in SUBSET Revisions : StartWrite(o, s, keep, r)
             \/ StartDelete(o, s, r)
      PROVE  Selecting'
  BY <1>3, StartWriteSelects, StartDeleteSelects
<1>4. ASSUME NEW o \in Ops,
             \/ Abandon(o) \/ BeginMutation(o) \/ SettleAbsent(o) \/ RefuseActivation(o)
             \/ Preflight(o) \/ EndCleanup(o)
      PROVE  Selecting'
  BY <1>4, EndingSelects, BeginMutationSelects, CleanupSelects
<1>5. ASSUME NEW o \in Ops,
             \/ PinForWrite(o)
             \/ \E retain \in BOOLEAN : PinForDelete(o, retain)
             \/ \E s \in Sources : StartRead(o, s)
             \/ Release(o)
      PROVE  Selecting'
  BY <1>5, PinForWriteSelects, PinForDeleteSelects, StartReadSelects, CleanupSelects
<1>6. ASSUME NEW o \in Ops, StageChunk(o) \/ ActivateWrite(o) \/ ActivateDelete(o)
      PROVE  Selecting'
  BY <1>6, StageChunkSelects, ActivationSelects
<1>7. ASSUME NEW o \in Ops, \E r \in Revisions : StartCleanup(o, r) \/ Reclaim(o, r)
      PROVE  Selecting'
  BY <1>7, CleanupSelects
<1> QED BY <1>1, <1>2, <1>3, <1>4, <1>5, <1>6, <1>7 DEF Next

LEMMA SpecJInv == Spec => []JInv
<1> QED BY InitJInv, NextJInv, PTL DEF Spec
-----------------------------------------------------------------------------
(* What the store is mapped to: nothing a head names and nothing a view    *)
(* pins is torn, so a value is what its head names.                        *)
Value == [s \in Sources |-> {Content(f) : f \in head[s].fams}]
Seen == [o \in Ops |-> {Content(f) : f \in op[o].view}]

LEMMA NothingTorn ==
  ASSUME IInv
  PROVE  /\ \A s \in Sources : Value[s] = head[s].fams
         /\ \A o \in Ops : Seen[o] = op[o].view
<1>1. ASSUME NEW s \in Sources PROVE Value[s] = head[s].fams
  <2>1. \A f \in head[s].fams : Content(f) = f
    BY DEF IInv, HeadReadable, Content
  <2> QED BY <2>1 DEF Value
<1>2. ASSUME NEW o \in Ops PROVE Seen[o] = op[o].view
  <2>1. \A f \in op[o].view : Content(f) = f
    BY DEF IInv, Working, ViewReadable, Content
  <2> QED BY <2>1 DEF Seen
<1> QED BY <1>1, <1>2

LEMMA NothingBecomesTorn ==
  ASSUME IInv'
  PROVE  /\ \A s \in Sources : Value'[s] = head'[s].fams
         /\ \A o \in Ops : Seen'[o] = op'[o].view
<1>1. ASSUME NEW s \in Sources PROVE Value'[s] = head'[s].fams
  <2>1. \A f \in head'[s].fams : Content(f)' = f
    BY DEF IInv, HeadReadable, Content
  <2> QED BY <2>1 DEF Value
<1>2. ASSUME NEW o \in Ops PROVE Seen'[o] = op'[o].view
  <2>1. \A f \in op'[o].view : Content(f)' = f
    BY DEF IInv, Working, ViewReadable, Content
  <2> QED BY <2>1 DEF Seen
<1> QED BY <1>1, <1>2

(* A step that selects no head and pins nothing closes some views. *)
LEMMA ClosingStep ==
  ASSUME IInv, IInv', \A s \in Sources : head'[s].fams = head[s].fams,
         \A o \in Ops : op'[o].view \in {op[o].view, {}}
  PROVE  Store!Next
<1>0. PICK closed \in SUBSET Ops : \A o \in Ops : o \in closed <=> op'[o].view = {}
  <2>1. {o \in Ops : op'[o].view = {}} \in SUBSET Ops
    OBVIOUS
  <2> QED BY <2>1
<1>1. Value' = Value
  <2>1. \A s \in Sources : Value'[s] = Value[s]
    BY NothingTorn, NothingBecomesTorn
  <2> QED BY <2>1 DEF Value
<1>2. Seen' = [o \in Ops |-> IF o \in closed THEN {} ELSE Seen[o]]
  <2>1. \A o \in Ops : Seen'[o] = IF o \in closed THEN {} ELSE Seen[o]
    BY <1>0, NothingTorn, NothingBecomesTorn
  <2> QED BY <2>1 DEF Seen
<1>3. Store!Close(closed)
  BY <1>1, <1>2 DEF Store!Close, Value, Seen
<1> QED BY <1>3 DEF Store!Next

(* Pinning what a head names is looking at its source. *)
LEMMA LookingStep ==
  ASSUME IInv, IInv', UNCHANGED head, NEW o \in Ops, NEW s \in Sources, op[o].view = {},
         NEW n, op' = [op EXCEPT ![o] = n], n.view = head[s].fams
  PROVE  Store!Next
<1>1. Value' = Value
  <2>1. \A x \in Sources : Value'[x] = Value[x]
    BY NothingTorn, NothingBecomesTorn
  <2> QED BY <2>1 DEF Value
<1>2. Seen' = [Seen EXCEPT ![o] = Value[s]] /\ Seen[o] = {}
  <2>1. op'[o] = n /\ \A p \in Ops : p # o => op'[p] = op[p]
    BY DEF IInv, StateOK
  <2>2. \A p \in Ops : Seen'[p] = IF p = o THEN Value[s] ELSE Seen[p]
    BY <2>1, NothingTorn, NothingBecomesTorn
  <2>3. Seen[o] = {}
    BY NothingTorn
  <2> QED BY <2>2, <2>3 DEF Seen
<1>3. Store!Look(o, s)
  BY <1>1, <1>2 DEF Store!Look, Value, Seen
<1> QED BY <1>3 DEF Store!Next

(* Selecting a head replaces a value at once. *)
LEMMA SelectingStep ==
  ASSUME IInv, IInv', NEW s \in Sources, NEW fams, head'[s].fams = fams,
         \A x \in Sources : x # s => head'[x] = head[x],
         \A o \in Ops : op'[o].view = op[o].view
  PROVE  /\ Value' = [Value EXCEPT ![s] = fams]
         /\ Seen' = Seen
<1>1. \A x \in Sources : Value'[x] = IF x = s THEN fams ELSE Value[x]
  BY NothingTorn, NothingBecomesTorn
<1>2. \A o \in Ops : Seen'[o] = Seen[o]
  BY NothingTorn, NothingBecomesTorn
<1>3. Value' = [Value EXCEPT ![s] = fams]
  BY <1>1 DEF Value
<1>4. Seen' = Seen
  BY <1>2 DEF Seen
<1> QED BY <1>3, <1>4

LEMMA ActivationStep ==
  ASSUME JInv, IInv', NEW o \in Ops, ActivateWrite(o) \/ ActivateDelete(o)
  PROVE  Store!Next
<1>1. PICK s \in Sources : s = op[o].source
  BY ActivationSelects
<1>2. PICK kept : kept = op[o].keep
  OBVIOUS
<1>3. IInv /\ kept \subseteq head[s].fams /\ \A p \in Ops : op'[p].view = op[p].view
  BY <1>1, <1>2, ActivationSelects DEF JInv
<1>4. kept \in SUBSET Value[s]
  BY <1>3, NothingTorn
<1>5. CASE ActivateWrite(o)
  <2>1. PICK c : c = op[o].rev
    OBVIOUS
  <2>2. /\ head'[s].fams = {c} \cup kept
        /\ \A x \in Sources : x # s => head'[x] = head[x]
    BY <1>1, <1>2, <1>5, <2>1 DEF ActivateWrite, SelectHead, JInv, IInv, StateOK
  <2>3. Value' = [Value EXCEPT ![s] = {c} \cup kept] /\ Seen' = Seen
    BY <1>3, <2>2, SelectingStep
  <2>4. Writes(op[o])
    BY <1>5 DEF ActivateWrite, SelectHead, Writes
  <2>5. Unnamed(c) /\ c \in Revisions
    BY <2>1, <2>4 DEF JInv, Selecting, Unselected, IInv, Working, Shapes, Shape, Writes
  <2>6. /\ \A x \in Sources : c \notin Value[x]
        /\ \A p \in Ops : c \notin Seen[p]
    BY <1>3, <2>5, NothingTorn DEF Unnamed
  <2>7. Store!Replace(s, c, kept)
    BY <2>3, <2>6 DEF Store!Replace, Store!Fresh, Value, Seen
  <2> QED BY <1>4, <2>5, <2>7 DEF Store!Next, Value
<1>6. CASE ActivateDelete(o)
  <2>1. /\ head'[s].fams = kept
        /\ \A x \in Sources : x # s => head'[x] = head[x]
    BY <1>1, <1>2, <1>6 DEF ActivateDelete, SelectHead, JInv, IInv, StateOK
  <2>2. Value' = [Value EXCEPT ![s] = kept] /\ Seen' = Seen
    BY <1>3, <2>1, SelectingStep
  <2>3. Store!Retire(s, kept)
    BY <2>2 DEF Store!Retire, Value, Seen
  <2> QED BY <1>4, <2>3 DEF Store!Next, Value
<1> QED BY <1>5, <1>6

LEMMA PinningStep ==
  ASSUME IInv, IInv', NEW o \in Ops,
         \/ PinForWrite(o)
         \/ \E retain \in BOOLEAN : PinForDelete(o, retain)
         \/ \E s \in Sources : StartRead(o, s)
  PROVE  Store!Next
<1>1. op[o] \in Operations /\ Shape(op[o]) /\ Ended(o) \in Operations
  BY EndedIsOperation DEF IInv, StateOK, Working, Shapes
<1>2. CASE PinForWrite(o)
  <2> DEFINE s == op[o].source
             n == IF op[o].keep \subseteq head[s].fams
                  THEN [op[o] EXCEPT !.phase = "stage", !.view = head[s].fams]
                  ELSE [Ended(o) EXCEPT !.view = head[s].fams]
  <2>1. n.view = head[s].fams
    BY <1>1 DEF Operations
  <2>2. op' = [op EXCEPT ![o] = n] /\ UNCHANGED head
    BY <1>2 DEF PinForWrite
  <2>3. s \in Sources /\ op[o].view = {}
    BY <1>1, <1>2 DEF PinForWrite, Shape
  <2> HIDE DEF n, s
  <2> QED BY <2>1, <2>2, <2>3, LookingStep
<1>3. ASSUME NEW retain \in BOOLEAN, PinForDelete(o, retain) PROVE Store!Next
  <2> DEFINE s == op[o].source
             n == [op[o] EXCEPT !.view = head[s].fams,
                                !.base = Coordinates(head[s]),
                                !.keep = IF retain THEN head[s].fams ELSE {},
                                !.phase = "activate"]
  <2>1. n.view = head[s].fams
    BY <1>1 DEF Operations
  <2>2. op' = [op EXCEPT ![o] = n] /\ UNCHANGED head
    BY <1>3 DEF PinForDelete
  <2>3. s \in Sources /\ op[o].view = {}
    BY <1>1, <1>3 DEF PinForDelete, Shape
  <2> HIDE DEF n, s
  <2> QED BY <2>1, <2>2, <2>3, LookingStep
<1>4. ASSUME NEW s \in Sources, StartRead(o, s) PROVE Store!Next
  <2> DEFINE n == [Idle EXCEPT !.kind = "read", !.source = s, !.phase = "read",
                               !.live = TRUE, !.view = head[s].fams]
  <2>1. n.view = head[s].fams
    BY DEF Idle
  <2>2. op' = [op EXCEPT ![o] = n] /\ UNCHANGED head
    BY <1>4 DEF StartRead
  <2>3. op[o].view = {}
    BY <1>1, <1>4 DEF StartRead, Shape
  <2> HIDE DEF n
  <2> QED BY <2>1, <2>2, <2>3, LookingStep
<1> QED BY <1>2, <1>3, <1>4

(* The steps that select no head and pin nothing. *)
LEMMA OtherStep ==
  ASSUME IInv, IInv', NEW o \in Ops,
         \/ \E s \in Sources, r \in Revisions :
              \/ \E keep \in SUBSET Revisions : StartWrite(o, s, keep, r)
              \/ StartDelete(o, s, r)
         \/ Abandon(o) \/ BeginMutation(o) \/ SettleAbsent(o) \/ StageChunk(o) \/ RefuseActivation(o)
         \/ Release(o) \/ Preflight(o) \/ EndCleanup(o)
         \/ \E r \in Revisions : StartCleanup(o, r) \/ Reclaim(o, r)
  PROVE  Store!Next
<1>1. op \in [Ops -> Operations] /\ Idle.view = {} /\ Ended(o).view = op[o].view
  BY EndedIsOperation DEF IInv, StateOK, Idle
<1>2. ASSUME \A p \in Ops : op'[p].view \in {op[p].view, {}}, UNCHANGED head
      PROVE  Store!Next
  BY <1>2, ClosingStep
<1>3. ASSUME NEW s \in Sources, NEW r \in Revisions,
             \/ \E keep \in SUBSET Revisions : StartWrite(o, s, keep, r)
             \/ StartDelete(o, s, r)
      PROVE  Store!Next
  <2>1. ASSUME NEW p \in Ops PROVE op'[p].view \in {op[p].view, {}}
    <3>1. [op[p] EXCEPT !.live = FALSE].view = op[p].view
      BY <1>1 DEF Operations
    <3>2. p # o => op'[p] \in {op[p], [op[p] EXCEPT !.live = FALSE]}
      BY <1>3 DEF StartWrite, StartDelete
    <3>3. op'[o].view = {}
      <4>1. ASSUME NEW keep, StartWrite(o, s, keep, r) PROVE op'[o].view = {}
        BY <4>1 DEF StartWrite, Idle
      <4>2. ASSUME StartDelete(o, s, r) PROVE op'[o].view = {}
        BY <4>2 DEF StartDelete, Idle
      <4> QED BY <1>3, <4>1, <4>2
    <3> QED BY <3>1, <3>2, <3>3
  <2>2. UNCHANGED head
    BY <1>3 DEF StartWrite, StartDelete, disk
  <2> QED BY <1>2, <2>1, <2>2
<1>4. CASE Abandon(o) \/ RefuseActivation(o) \/ SettleAbsent(o) \/ EndCleanup(o)
  <2>1. \A p \in Ops : op'[p].view \in {op[p].view, {}}
    BY <1>1, <1>4 DEF Abandon, RefuseActivation, SettleAbsent, EndCleanup, End
  <2>2. UNCHANGED head
    BY <1>4 DEF Abandon, RefuseActivation, SettleAbsent, EndCleanup, disk
  <2> QED BY <1>2, <2>1, <2>2
<1>5. CASE BeginMutation(o) \/ StageChunk(o) \/ Release(o)
  <2>1. \A p \in Ops : op'[p].view \in {op[p].view, {}}
    <3>1. CASE BeginMutation(o)
      BY <1>1, <3>1 DEF BeginMutation, To, Operations
    <3>2. CASE StageChunk(o)
      BY <1>1, <3>2 DEF StageChunk, Operations
    <3>3. CASE Release(o)
      BY <1>1, <3>3 DEF Release, Idle
    <3> QED BY <1>5, <3>1, <3>2, <3>3
  <2>2. UNCHANGED head
    BY <1>5 DEF BeginMutation, StageChunk, Release
  <2> QED BY <1>2, <2>1, <2>2
<1>6. ASSUME NEW r \in Revisions, StartCleanup(o, r) \/ Reclaim(o, r)
      PROVE  Store!Next
  <2>1. \A p \in Ops : op'[p].view \in {op[p].view, {}}
    <3>1. CASE StartCleanup(o, r)
      BY <1>1, <3>1 DEF StartCleanup, Idle
    <3>2. CASE Reclaim(o, r)
      BY <1>1, <3>2 DEF Reclaim, Operations
    <3> QED BY <1>6, <3>1, <3>2
  <2>2. UNCHANGED head
    BY <1>6 DEF StartCleanup, Reclaim, disk
  <2> QED BY <1>2, <2>1, <2>2
<1>7. CASE Preflight(o)
  <2>1. \A p \in Ops : op'[p].view \in {op[p].view, {}}
    BY <1>1, <1>7 DEF Preflight, Operations
  <2>2. UNCHANGED head
    BY <1>7 DEF Preflight, disk
  <2> QED BY <1>2, <2>1, <2>2
<1> QED BY <1>3, <1>4, <1>5, <1>6, <1>7

LEMMA StoreStep == JInv /\ IInv' /\ [Next]_vars => [Store!Next]_(Store!storeVars)
<1> SUFFICES ASSUME JInv, IInv', [Next]_vars PROVE Store!Next
  OBVIOUS
<1>1. IInv
  BY DEF JInv
<1>2. CASE UNCHANGED vars
  BY <1>1, <1>2, ClosingStep DEF vars
<1>3. CASE \E c \in Connections : Crash(c)
  <2>1. UNCHANGED head /\ \A p \in Ops : op'[p].view \in {op[p].view, {}}
    BY <1>3 DEF Crash, Idle
  <2> QED BY <1>1, <2>1, ClosingStep
<1>4. CASE \E o \in Ops : ActivateWrite(o) \/ ActivateDelete(o)
  BY <1>4, ActivationStep
<1>5. ASSUME NEW o \in Ops, ~ActivateWrite(o) /\ ~ActivateDelete(o),
             \/ PinForWrite(o)
             \/ \E retain \in BOOLEAN : PinForDelete(o, retain)
             \/ \E s \in Sources : StartRead(o, s)
      PROVE  Store!Next
  BY <1>1, <1>5, PinningStep
<1> QED BY <1>1, <1>2, <1>3, <1>4, <1>5, OtherStep DEF Next

LEMMA StoreInit == Init => Store!Init
  BY DEF Init, Store!Init, MissingHead, Idle

(* The repository's transactions, leases, fences, reclamation and crashes, *)
(* in any number of windows, implement a store whose values change at once *)
(* and whose readers see one whole value until they close.                 *)
THEOREM Implementation == Spec => StoreImplemented
<1>1. JInv => IInv
  BY DEF JInv
<1> QED BY <1>1, StoreInit, StoreStep, SpecJInv, PTL DEF Spec, StoreImplemented, Store!Spec
-----------------------------------------------------------------------------
(* The head an overtaken operation looked at has a sequence that its       *)
(* source has passed, so no comparison of coordinates can succeed again.   *)
OvertakenIsPast ==
  \A o \in overtaken : o \in Ops /\ (Selects(op[o]) => op[o].base.seq < head[op[o].source].seq)

KInv == JInv /\ OvertakenIsPast

(* An operation that goes on without looking again keeps what it expects. *)
LEMMA StaysOvertaken ==
  ASSUME KInv, NEW o \in Ops, UNCHANGED head,
         \A p \in Ops : p # o => op'[p] = op[p],
         \/ ~Selects(op'[o]) /\ overtaken' = overtaken
         \/ overtaken' = overtaken \ {o}
         \/ /\ Selects(op[o]) /\ overtaken' = overtaken
            /\ op'[o].base = op[o].base /\ op'[o].source = op[o].source
  PROVE  OvertakenIsPast'
  BY DEF KInv, OvertakenIsPast, Selects, Writes

LEMMA SelectionOvertakes ==
  ASSUME KInv, JInv', NEW o \in Ops, ActivateWrite(o) \/ ActivateDelete(o)
  PROVE  /\ OvertakenIsPast'
         /\ o \notin overtaken
         /\ \A p \in Ops : p # o => op'[p] = op[p]
<1>1. PICK state, fams : SelectHead(o, state, fams)
  BY DEF ActivateWrite, ActivateDelete
<1>2. /\ Selects(op[o]) /\ op[o].source \in Sources /\ sequence \in Nat
      /\ head \in [Sources -> Heads]
  BY ActivationSelects DEF ActivateWrite, ActivateDelete, SelectHead, Selects, Writes, KInv, JInv, IInv, StateOK
<1> DEFINE s == op[o].source
<1>3. /\ head'[s].seq = sequence + 1 /\ head'[s].rev = op[o].rev
      /\ \A x \in Sources : x # s => head'[x] = head[x]
  BY <1>1, <1>2 DEF SelectHead
<1>4. /\ \A p \in Ops : p # o => op'[p] = op[p]
      /\ ~Selects(op'[o])
  <2>1. op'[o].phase = "release"
    <3>1. Ended(o).phase = "release" /\ Ended(o) \in Operations
      BY EndedIsOperation, <1>2 DEF KInv, JInv, IInv, ActivateWrite, ActivateDelete
    <3>2. op \in [Ops -> Operations]
      BY DEF KInv, JInv, IInv, StateOK
    <3>3. CASE ActivateWrite(o)
      BY <3>1, <3>2, <3>3 DEF ActivateWrite, End
    <3>4. CASE ActivateDelete(o)
      <4>1. PICK stillCurrent \in BOOLEAN :
              op' = [op EXCEPT ![o] = [Ended(o) EXCEPT
                !.live = stillCurrent,
                !.keep = IF op[o].keep = {} /\ stillCurrent THEN op[o].view ELSE {}]]
        BY <3>4 DEF ActivateDelete
      <4> QED BY <3>1, <3>2, <4>1 DEF Operations
    <3> QED BY <3>3, <3>4
  <2>2. \A p \in Ops : p # o => op'[p] = op[p]
    BY DEF ActivateWrite, ActivateDelete, End, KInv, JInv, IInv, StateOK
  <2> QED BY <2>1, <2>2 DEF Selects, Writes
<1>5. \A p \in Ops : Selects(op[p]) => op[p].base.seq \in Nat /\ op[p].base.seq <= sequence
  BY DEF KInv, JInv, Selecting, KeepsCurrent, KeepOK, IInv, StateOK, Operations
<1>6. overtaken' = overtaken \cup {p \in Ops : p # o /\ Looked(p) /\ op[p].source = s}
  BY <1>1 DEF SelectHead
<1> HIDE DEF s
<1>7. ASSUME NEW p \in overtaken', Selects(op'[p])
      PROVE  op'[p].base.seq < head'[op'[p].source].seq
  <2>1. p \in Ops /\ op'[p] = op[p] /\ Selects(op[p])
    BY <1>4, <1>6, <1>7 DEF KInv, OvertakenIsPast
  <2>2. op[p].base.seq \in Nat /\ op[p].base.seq <= sequence /\ op[p].source \in Sources
    BY <1>5, <2>1 DEF KInv, JInv, IInv, Working, Shapes, Shape, Selects, Writes
  <2>3. CASE op[p].source = s
    BY <1>2, <1>3, <2>1, <2>2, <2>3
  <2>4. CASE op[p].source # s
    BY <1>3, <1>6, <2>1, <2>2, <2>4 DEF KInv, OvertakenIsPast
  <2> QED BY <2>3, <2>4
<1>8. OvertakenIsPast'
  BY <1>6, <1>7 DEF KInv, OvertakenIsPast
<1> USE DEF s
<1>9. o \notin overtaken
  <2>1. op[o].base.seq = head[s].seq
    BY <1>1, <1>2 DEF SelectHead, HeadMatches, Coordinates
  <2>2. op[o].base.seq \in Nat
    BY <1>2, <1>5
  <2> QED BY <1>2, <2>1, <2>2 DEF KInv, OvertakenIsPast
<1> QED BY <1>4, <1>8, <1>9

(* Every step that selects no head leaves its operation's look alone, or   *)
(* is a new look, or ends the operation.                                   *)
LEMMA OthersStayOvertaken ==
  ASSUME KInv, JInv', NEW o \in Ops,
         \/ \E s \in Sources, r \in Revisions :
              \/ \E keep \in SUBSET Revisions : StartWrite(o, s, keep, r)
              \/ StartDelete(o, s, r)
         \/ Abandon(o) \/ BeginMutation(o) \/ PinForWrite(o) \/ SettleAbsent(o) \/ StageChunk(o)
         \/ RefuseActivation(o) \/ Release(o) \/ Preflight(o) \/ EndCleanup(o)
         \/ \E retain \in BOOLEAN : PinForDelete(o, retain)
         \/ \E s \in Sources : StartRead(o, s)
         \/ \E r \in Revisions : StartCleanup(o, r) \/ Reclaim(o, r)
  PROVE  OvertakenIsPast' /\ UNCHANGED head
<1> USE DEF KInv
<1>1. op \in [Ops -> Operations] /\ op[o] \in Operations
  BY DEF JInv, IInv, StateOK
<1>2. Ended(o).phase = "release" /\ Ended(o).kind = op[o].kind
  <2>1. Ended(o) = [Idle EXCEPT !.kind = op[o].kind, !.source = op[o].source, !.phase = "release",
                                !.rev = op[o].rev, !.view = op[o].view]
    BY DEF Ended
  <2> QED BY <2>1 DEF Idle
<1>3. CASE \E s \in Sources, r \in Revisions :
              \/ \E keep \in SUBSET Revisions : StartWrite(o, s, keep, r)
              \/ StartDelete(o, s, r)
  <2>1. PICK s \in Sources, r \in Revisions :
              \/ \E keep \in SUBSET Revisions : StartWrite(o, s, keep, r)
              \/ StartDelete(o, s, r)
    BY <1>3
  <2>2. /\ UNCHANGED head
        /\ \A p \in Ops : p # o =>
             \/ op'[p] = op[p]
             \/ op'[p] = [op[p] EXCEPT !.live = FALSE]
        /\ overtaken' = overtaken \ {o} \/ (overtaken' = overtaken /\ op'[o].kind = "delete" /\ op'[o].phase = "begin")
    BY <2>1 DEF StartWrite, StartDelete, disk, Idle
  <2>3. \A p \in Ops : p # o =>
          /\ Selects(op'[p]) => Selects(op[p])
          /\ op'[p].base = op[p].base /\ op'[p].source = op[p].source
    <3> SUFFICES ASSUME NEW p \in Ops, p # o
                 PROVE  /\ Selects(op'[p]) => Selects(op[p])
                        /\ op'[p].base = op[p].base /\ op'[p].source = op[p].source
      OBVIOUS
    <3>1. CASE op'[p] = op[p]
      BY <3>1
    <3>2. CASE op'[p] = [op[p] EXCEPT !.live = FALSE]
      <4>1. op[p] \in Operations
        BY <1>1
      <4>2. /\ op'[p].kind = op[p].kind /\ op'[p].phase = op[p].phase
            /\ op'[p].base = op[p].base /\ op'[p].source = op[p].source
        BY <3>2, <4>1 DEF Operations
      <4> QED BY <4>2 DEF Selects, Writes
    <3> QED BY <2>2, <3>1, <3>2
  <2> QED BY <2>2, <2>3 DEF OvertakenIsPast, Selects, Writes
<1>4. CASE Abandon(o) \/ RefuseActivation(o)
  <2>1. /\ UNCHANGED <<head, overtaken>> /\ op' = [op EXCEPT ![o] = Ended(o)]
    BY <1>4 DEF Abandon, RefuseActivation, End, disk
  <2>2. ~Selects(op'[o])
    BY <1>1, <1>2, <2>1 DEF Selects, Writes
  <2> QED BY <1>1, <2>1, <2>2, StaysOvertaken
<1>5. CASE BeginMutation(o) \/ StageChunk(o)
  <2>1. /\ UNCHANGED <<head, overtaken>>
        /\ \A p \in Ops : p # o => op'[p] = op[p]
        /\ op'[o].kind = op[o].kind /\ op'[o].base = op[o].base /\ op'[o].source = op[o].source
        /\ op'[o].phase = "activate" => op[o].kind = "write"
        /\ op[o].phase \in {"begin", "stage"}
    BY <1>1, <1>5 DEF BeginMutation, StageChunk, To, Operations
  <2> QED BY <2>1, StaysOvertaken DEF Selects, Writes
<1>6. CASE PinForWrite(o)
  <2>1. /\ UNCHANGED <<head, overtaken>> /\ op[o].kind = "write" /\ op[o].phase = "pin"
        /\ \A p \in Ops : p # o => op'[p] = op[p]
    BY <1>6 DEF PinForWrite
  <2>2. CASE op[o].keep \subseteq head[op[o].source].fams
    <3>1. op'[o].base = op[o].base /\ op'[o].source = op[o].source
      BY <1>1, <1>6, <2>2 DEF PinForWrite, Operations
    <3> QED BY <2>1, <3>1, StaysOvertaken DEF Selects, Writes
  <2>3. CASE ~(op[o].keep \subseteq head[op[o].source].fams)
    <3>1. op'[o].phase = "release"
      BY <1>1, <1>6, <2>3 DEF PinForWrite, Ended, Idle
    <3> QED BY <2>1, <3>1, StaysOvertaken DEF Selects, Writes
  <2> QED BY <2>2, <2>3
<1>7. CASE SettleAbsent(o) \/ Release(o) \/ \E retain \in BOOLEAN : PinForDelete(o, retain)
  <2>1. /\ UNCHANGED head /\ overtaken' = overtaken \ {o}
        /\ \A p \in Ops : p # o => op'[p] = op[p]
    BY <1>7, <1>1 DEF SettleAbsent, Release, PinForDelete
  <2> QED BY <2>1, StaysOvertaken
<1>8. CASE \/ Preflight(o) \/ EndCleanup(o)
           \/ \E s \in Sources : StartRead(o, s)
           \/ \E r \in Revisions : StartCleanup(o, r) \/ Reclaim(o, r)
  <2>1. CASE Preflight(o) \/ EndCleanup(o)
    <3>1. /\ UNCHANGED <<head, overtaken>>
          /\ \A p \in Ops : p # o => op'[p] = op[p]
          /\ op'[o].kind \in {"none", "cleanup"}
      BY <2>1, <1>1 DEF Preflight, EndCleanup, Idle, disk, Operations
    <3> QED BY <3>1, StaysOvertaken DEF Selects, Writes
  <2>2. CASE \E s \in Sources : StartRead(o, s)
    <3>1. /\ UNCHANGED <<head, overtaken>>
          /\ \A p \in Ops : p # o => op'[p] = op[p]
          /\ op'[o].kind = "read"
      BY <2>2, <1>1 DEF StartRead, Idle
    <3> QED BY <3>1, StaysOvertaken DEF Selects, Writes
  <2>3. CASE \E r \in Revisions : StartCleanup(o, r) \/ Reclaim(o, r)
    <3>1. PICK r \in Revisions : StartCleanup(o, r) \/ Reclaim(o, r)
      BY <2>3
    <3>2. UNCHANGED <<head, overtaken>> /\ \A p \in Ops : p # o => op'[p] = op[p]
      BY <3>1, <1>1 DEF StartCleanup, Reclaim, disk
    <3>3. op'[o].kind = "cleanup"
      <4>1. CASE StartCleanup(o, r)
        BY <4>1, <1>1 DEF StartCleanup, Idle
      <4>2. CASE Reclaim(o, r)
        <5>1. op' = [op EXCEPT ![o] = [op[o] EXCEPT !.keep = op[o].keep \ {r}]] /\ op[o].kind = "cleanup"
          BY <4>2 DEF Reclaim
        <5> QED BY <5>1, <1>1 DEF Operations
      <4> QED BY <3>1, <4>1, <4>2
    <3> QED BY <3>2, <3>3, StaysOvertaken DEF Selects, Writes
  <2> QED BY <1>8, <2>1, <2>2, <2>3
<1> QED BY <1>3, <1>4, <1>5, <1>6, <1>7, <1>8

LEMMA NextKInv ==
  ASSUME KInv, JInv', [Next]_vars
  PROVE  OvertakenIsPast' /\ (UNCHANGED head \/ \E o \in Ops \ overtaken : \A p \in Ops : p # o => op'[p] = op[p])
<1>1. CASE UNCHANGED vars
  BY <1>1 DEF vars, KInv, OvertakenIsPast, Selects, Writes
<1>2. CASE \E c \in Connections : Crash(c)
  <2>1. UNCHANGED head /\ \A p \in overtaken' : p \in overtaken /\ op'[p] = op[p]
    BY <1>2 DEF Crash, KInv, OvertakenIsPast
  <2> QED BY <2>1 DEF KInv, OvertakenIsPast, Selects, Writes
<1>3. CASE \E o \in Ops : ActivateWrite(o) \/ ActivateDelete(o)
  BY <1>3, SelectionOvertakes
<1>4. CASE \E o \in Ops :
         \/ \E s \in Sources, r \in Revisions :
              \/ \E keep \in SUBSET Revisions : StartWrite(o, s, keep, r)
              \/ StartDelete(o, s, r)
         \/ Abandon(o) \/ BeginMutation(o) \/ PinForWrite(o) \/ SettleAbsent(o) \/ StageChunk(o)
         \/ RefuseActivation(o) \/ Release(o) \/ Preflight(o) \/ EndCleanup(o)
         \/ \E retain \in BOOLEAN : PinForDelete(o, retain)
         \/ \E s \in Sources : StartRead(o, s)
         \/ \E r \in Revisions : StartCleanup(o, r) \/ Reclaim(o, r)
  BY <1>4, OthersStayOvertaken
<1> QED BY <1>1, <1>2, <1>3, <1>4 DEF Next

(* Whatever the windows, writers, deletions and crashes: no operation that *)
(* looked at a head since replaced ever selects one of its own.            *)
THEOREM NoUpdateLost == Spec => ObsoleteNeverSelects
<1>1. Init => OvertakenIsPast
  BY DEF Init, OvertakenIsPast
<1>2. JInv /\ OvertakenIsPast /\ JInv' /\ [Next]_vars => OvertakenIsPast'
  BY NextKInv DEF KInv
<1>3. JInv /\ OvertakenIsPast /\ JInv' /\ [Next]_vars =>
        [\A o \in overtaken : op'[o] # op[o] => UNCHANGED head]_vars
  <2> SUFFICES ASSUME JInv, OvertakenIsPast, JInv', [Next]_vars,
                      NEW p \in overtaken, op'[p] # op[p]
               PROVE  UNCHANGED head
    OBVIOUS
  <2>1. p \in Ops
    BY DEF OvertakenIsPast
  <2> QED BY <2>1, NextKInv DEF KInv
<1> QED BY <1>1, <1>2, <1>3, SpecJInv, PTL DEF Spec, ObsoleteNeverSelects
=============================================================================
