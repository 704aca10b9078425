----------------------- MODULE LocalDependenciesProofs -----------------------
(***************************************************************************)
(* What the ledger's journal promises for any repositories, sources,       *)
(* revisions, projections and page sizes.                                  *)
(*                                                                         *)
(* None of the invariants about rows is inductive: each action moves rows  *)
(* and cursors together, and looks at one source only.  The invariant      *)
(* says exactly which rows are on disk (Exact): those of the selected      *)
(* revision, and those the source's record has yet to take out.  For that, *)
(* every id must belong to one source (Owned), a record must be of a form  *)
(* that fits the owner (Recorded), and an operation must work on a         *)
(* revision that is not selected yet, or no longer (Works).                *)
(***************************************************************************)
EXTENDS LocalDependencies, FiniteSetTheorems, TLAPS

(* A writer that has not selected its revision. *)
Early(x) == x.kind = "write" /\ x.then = "prepare"

Marks(p, r) == IsPrivate(p) /\ p.from = r

(* What an operation may be, whatever is on disk. *)
Shape(x) ==
  /\ x.kind = "none" => x.phase = "done"
  /\ x.kind \in {"write", "delete", "settle", "clean"} => x.source \in Sources
  /\ x.kind = "write" => x.rev \in Revisions /\ x.then \in {"prepare", "done"}
  /\ x.kind = "delete" => x.then \in {"pin", "done"}
  /\ x.kind = "settle" => x.then = "done"
  /\ x.kind = "clean" => x.rev \in Revisions /\ x.then = "sweep"
  /\ x.phase \in {"settle", "repair", "reclaim"} => x.kind \in {"write", "delete", "settle", "clean"}
  /\ x.phase \in {"prepare", "stage", "authenticate"} => Early(x)
  /\ x.phase = "activate" => x.kind = "delete" \/ Early(x)
  /\ x.phase = "pin" => x.kind = "delete"
  /\ x.phase \in {"preflight", "sweep", "retire"} => x.kind = "clean"
  /\ x.phase \in {"count", "scan"} => x.kind = "lookup" /\ x.key \in Keys

(* What an operation knows of the disk. *)
Works(x) ==
  /\ x.kind = "write" => sourceOf[x.rev] = x.source /\ x.base <= sequence
  /\ Early(x) =>
       /\ owner[x.source].rev # x.rev
       /\ <<x.source, x.rev>> \notin retired
       /\ x.old # None /\ owner[x.source].seq = x.base =>
            owner[x.source].state = "complete" /\ owner[x.source].rev = x.old
  /\ x.kind = "clean" => <<x.source, x.rev>> \in retired
  /\ x.phase \in {"sweep", "retire"} => ~Marks(repair[x.source], x.rev)

(* Revision ids are drawn once, for a projection that is not empty. *)
Drawn ==
  /\ \A r \in Revisions : sourceOf[r] # None => Len(content[r]) > 0
  /\ \A o, p \in Ops : op[o].kind = "write" /\ op[p].kind = "write" /\ op[o].rev = op[p].rev => o = p

(* Whatever the owner, the record or the retired set names belongs to s. *)
Owned(s) ==
  /\ owner[s].state = "complete" <=> owner[s].rev # None
  /\ owner[s].seq <= sequence
  /\ \A r \in Revisions :
       owner[s].rev = r \/ repair[s].from = r \/ repair[s].to = r \/ <<s, r>> \in retired
         => sourceOf[r] = s
  /\ <<s, owner[s].rev>> \notin retired

(* A private record names an unselected revision; a journal leads to the   *)
(* selected one.                                                           *)
Recorded(s) ==
  LET p == repair[s] IN
  /\ IsPrivate(p) => p.from # owner[s].rev
  /\ IsSelected(p) => /\ p.to = owner[s].rev
                      /\ p.from # p.to
                      /\ p.to # None => p.toRecords = Len(content[p.to])

(* The i-th row of revision r is needed by a source that selected v and   *)
(* has the record p.                                                       *)
Needed(v, p, r, i) ==
  \/ v = r /\ i < Len(content[r])
  \/ IsPrivate(p) /\ p.from = r /\ p.toIndex <= i /\ i < p.toRecords
  \/ IsSelected(p) /\ p.from = r /\ p.fromIndex <= i /\ i < p.fromRecords

Exact ==
  \A r \in Revisions, i \in Nat :
    LET s == sourceOf[r] IN <<r, i>> \in rows <=> s # None /\ Needed(owner[s].rev, repair[s], r, i)

IInv ==
  /\ TypeOK
  /\ IsFiniteSet(rows)
  /\ \A o \in Ops : Shape(op[o]) /\ Works(op[o])
  /\ Drawn
  /\ \A s \in Sources : Owned(s) /\ Recorded(s)
  /\ Exact
-----------------------------------------------------------------------------
(* Pages and the encodings of a record. *)
LEMMA InPage ==
  ASSUME NEW r, NEW first \in Int, NEW last \in Int, NEW q, NEW i
  PROVE  <<q, i>> \in Page(r, first, last) <=> q = r /\ i \in Int /\ first <= i /\ i < last
  BY DEF Page

LEMMA PageFinite ==
  ASSUME NEW r, NEW first \in Int, NEW last \in Int
  PROVE  IsFiniteSet(Page(r, first, last))
<1>1. last - 1 \in Int
  OBVIOUS
<1>2. IsFiniteSet(first .. last - 1)
  BY <1>1, FS_Interval
<1>3. IsFiniteSet({r})
  BY FS_Singleton
<1> QED BY <1>2, <1>3, FS_Product DEF Page

LEMMA NoneIsNoId == None \notin Revisions /\ None \notin Sources
  BY ConstantsAssumption

LEMMA NoRepairIsNoMark == NoRepair \in Repairs /\ Valid(NoRepair) /\ ~IsPrivate(NoRepair) /\ ~IsSelected(NoRepair)
  BY DEF NoRepair, Repairs, Valid, IsPrivate, IsStaging, IsReclaim, IsSelected

LEMMA SidesTell ==
  ASSUME NEW p \in Repairs
  PROVE  /\ IsPrivate(p) => p.from = p.to /\ p.from # None /\ ~IsSelected(p) /\ p # NoRepair
         /\ p.from # p.to => IsSelected(p) /\ ~IsPrivate(p)
  BY DEF NoRepair, IsPrivate, IsStaging, IsReclaim, IsSelected

LEMMA StagingMarks ==
  ASSUME NEW r \in Revisions, NEW n \in Nat
  PROVE  LET p == StagingOf(r, n) IN
         /\ p \in Repairs /\ Valid(p) /\ IsStaging(p) /\ IsPrivate(p) /\ ~IsSelected(p)
         /\ p.from = r /\ p.to = r /\ p.fromRecords = n /\ p.toRecords = n
         /\ p.fromIndex = 0 /\ p.toIndex = 0
  BY NoneIsNoId DEF StagingOf, Repairs, Valid, IsPrivate, IsStaging, IsSelected

LEMMA ReclaimMarks ==
  ASSUME NEW r \in Revisions, NEW n \in Nat, n > 0
  PROVE  LET p == ReclaimOf(r, n) IN
         /\ p \in Repairs /\ Valid(p) /\ IsPrivate(p) /\ ~IsSelected(p)
         /\ p.from = r /\ p.to = r /\ p.toRecords = n /\ p.toIndex = 0
  BY NoneIsNoId DEF ReclaimOf, StagingOf, Repairs, Valid, IsPrivate, IsReclaim, IsSelected
-----------------------------------------------------------------------------
(* Operations. *)
LEMMA IdleIsOperation == Idle \in Operations /\ Shape(Idle) /\ Idle.kind = "none"
  BY ConstantsAssumption DEF Idle, Operations, Phases, Shape

LEMMA OneOperation ==
  ASSUME TypeOK, NEW o \in Ops, NEW n \in Operations, op' = [op EXCEPT ![o] = n]
  PROVE  /\ op' \in [Ops -> Operations]
         /\ op'[o] = n
         /\ \A p \in Ops : p # o => op'[p] = op[p]
  BY DEF TypeOK

(* What operation o may go on as without a change on disk. *)
GoesOn(o, n) ==
  /\ n \in Operations
  /\ Shape(n)
  /\ Works(n)
  /\ n.kind = "write" => op[o].kind = "write" /\ n.rev = op[o].rev

LEMMA GoingOn ==
  ASSUME IInv, NEW o \in Ops, NEW n, GoesOn(o, n), op' = [op EXCEPT ![o] = n],
         UNCHANGED <<disk, ids, retired>>
  PROVE  IInv'
<1>1. /\ op' \in [Ops -> Operations]
      /\ op'[o] = n
      /\ \A p \in Ops : p # o => op'[p] = op[p]
  BY OneOperation DEF IInv, GoesOn
<1>2. TypeOK'
  BY <1>1 DEF IInv, TypeOK, disk, ids
<1>3. IsFiniteSet(rows)' /\ Exact' /\ \A s \in Sources : (Owned(s) /\ Recorded(s))'
  BY DEF IInv, disk, ids, Exact, Needed, Owned, Recorded
<1>4. ASSUME NEW p \in Ops
      PROVE  (Shape(op[p]) /\ Works(op[p]))'
  <2>1. Shape(op'[p]) /\ Works(op'[p])
    BY <1>1 DEF IInv, GoesOn
  <2>2. Shape(op[p])'
    BY <2>1 DEF Shape, Early
  <2>3. Works(op[p])'
    BY <2>1 DEF Works, Early, disk, ids
  <2> QED BY <2>2, <2>3
<1>5. Drawn'
  BY <1>1 DEF IInv, GoesOn, Drawn, ids
<1> QED BY <1>2, <1>3, <1>4, <1>5 DEF IInv

(* The operation moves to another phase. *)
LEMMA Going ==
  ASSUME IInv, NEW o \in Ops, NEW phase \in Phases, Go(o, phase),
         Shape([op[o] EXCEPT !.phase = phase]),
         phase \in {"sweep", "retire"} => ~Marks(repair[op[o].source], op[o].rev),
         UNCHANGED <<disk, ids, retired>>
  PROVE  IInv'
<1> DEFINE n == [op[o] EXCEPT !.phase = phase]
<1>1. op[o] \in Operations /\ Works(op[o])
  BY DEF IInv, TypeOK
<1>2. /\ n \in Operations /\ n.phase = phase
      /\ n.kind = op[o].kind /\ n.source = op[o].source /\ n.rev = op[o].rev /\ n.then = op[o].then
      /\ n.old = op[o].old /\ n.base = op[o].base
  BY <1>1 DEF Operations
<1>3. op' = [op EXCEPT ![o] = n]
  BY DEF Go
<1>4. Shape(n)
  OBVIOUS
<1> HIDE DEF n
<1>5. Works(n)
  BY <1>1, <1>2 DEF Works, Early
<1> QED BY <1>2, <1>3, <1>4, <1>5, GoingOn DEF GoesOn

LEMMA Finishing ==
  ASSUME IInv, NEW o \in Ops, Finish(o), UNCHANGED <<disk, ids, retired>>
  PROVE  IInv'
<1>1. Works(Idle)
  BY DEF Works, Early, Idle
<1> QED BY <1>1, IdleIsOperation, GoingOn DEF GoesOn, Finish

(* The operation goes on with the same task. *)
SameTask(x, n) ==
  /\ n \in Operations /\ Shape(n)
  /\ n.kind = x.kind /\ n.source = x.source /\ n.rev = x.rev
  /\ n.then = x.then /\ n.old = x.old /\ n.base = x.base

LEMMA SamePhase ==
  ASSUME TypeOK, NEW o \in Ops, NEW phase \in Phases, Go(o, phase),
         Shape([op[o] EXCEPT !.phase = phase])
  PROVE  \E n : SameTask(op[o], n) /\ n.phase = phase /\ op' = [op EXCEPT ![o] = n]
<1> DEFINE n == [op[o] EXCEPT !.phase = phase]
<1>1. op[o] \in Operations
  BY DEF TypeOK
<1>2. /\ n \in Operations /\ n.phase = phase
      /\ n.kind = op[o].kind /\ n.source = op[o].source /\ n.rev = op[o].rev /\ n.then = op[o].then
      /\ n.old = op[o].old /\ n.base = op[o].base
  BY <1>1 DEF Operations
<1>3. op' = [op EXCEPT ![o] = n]
  BY DEF Go
<1>4. Shape(n)
  OBVIOUS
<1> HIDE DEF n
<1> QED BY <1>2, <1>3, <1>4 DEF SameTask

(* The record and the rows of one source change together; nothing that    *)
(* selects a revision does.                                                *)
LEMMA Marking ==
  ASSUME IInv, NEW o \in Ops, NEW s \in Sources, NEW q \in Repairs, Valid(q),
         NEW n, SameTask(op[o], n), op' = [op EXCEPT ![o] = n],
         n.phase \in {"sweep", "retire"} => n.source = s /\ ~IsPrivate(q),
         repair' = [repair EXCEPT ![s] = q],
         UNCHANGED <<owner, content, sourceOf, retired, sequence>>,
         count' \in [Keys -> Nat], pending' \in Nat, revision' \in Nat,
         rows' \in SUBSET (Revisions \X Nat), IsFiniteSet(rows'),
         \A r \in Revisions : q.from = r \/ q.to = r => sourceOf[r] = s,
         IsPrivate(q) => q.from # owner[s].rev /\ (<<s, q.from>> \in retired => Marks(repair[s], q.from)),
         IsSelected(q) => /\ q.to = owner[s].rev
                          /\ q.from # q.to
                          /\ q.to # None => q.toRecords = Len(content[q.to]),
         \A r \in Revisions, i \in Nat :
           <<r, i>> \in rows' <=> IF sourceOf[r] = s THEN Needed(owner[s].rev, q, r, i) ELSE <<r, i>> \in rows
  PROVE  IInv'
<1> USE DEF IInv
<1>1. /\ op' \in [Ops -> Operations]
      /\ op'[o] = n
      /\ \A p \in Ops : p # o => op'[p] = op[p]
  BY OneOperation DEF SameTask
<1>2. /\ repair' \in [Sources -> Repairs]
      /\ repair'[s] = q
      /\ \A x \in Sources : x # s => repair'[x] = repair[x]
  BY DEF TypeOK
<1>3. TypeOK'
  BY <1>1, <1>2 DEF TypeOK
<1>4. ASSUME NEW p \in Ops
      PROVE  (Shape(op[p]) /\ Works(op[p]))'
  <2>1. Shape(op'[p])
    BY <1>1 DEF SameTask
  <2>2. Shape(op[p])'
    BY <2>1 DEF Shape, Early
  <2>3. CASE p = o
    <3>1. /\ n.kind = op[o].kind /\ n.source = op[o].source /\ n.rev = op[o].rev
          /\ n.then = op[o].then /\ n.old = op[o].old /\ n.base = op[o].base
      BY DEF SameTask
    <3>2. n.phase \in {"sweep", "retire"} => ~Marks(repair'[n.source], n.rev)
      BY <1>2 DEF Marks
    <3>3. Works(op[o])
      OBVIOUS
    <3>4. op'[p] = n
      BY <1>1, <2>3
    <3> QED BY <2>2, <3>1, <3>2, <3>3, <3>4 DEF Works, Early
  <2>4. CASE p # o
    <3>1. op'[p] = op[p] /\ Shape(op[p]) /\ Works(op[p])
      BY <1>1, <2>4
    <3>2. ASSUME op[p].phase \in {"sweep", "retire"}
          PROVE  ~Marks(repair'[op[p].source], op[p].rev)
      <4>1. /\ op[p].kind = "clean"
            /\ op[p].source \in Sources
            /\ <<op[p].source, op[p].rev>> \in retired
            /\ ~Marks(repair[op[p].source], op[p].rev)
        BY <3>1, <3>2 DEF Shape, Works
      <4> QED BY <4>1, <1>2 DEF Marks
    <3> QED BY <2>2, <3>1, <3>2 DEF Works, Early
  <2> QED BY <2>3, <2>4
<1>5. Drawn'
  BY <1>1 DEF SameTask, Drawn
<1>6. ASSUME NEW x \in Sources
      PROVE  (Owned(x) /\ Recorded(x))'
  <2>1. CASE x = s
    BY <1>2, <2>1 DEF Owned, Recorded
  <2>2. CASE x # s
    BY <1>2, <2>2 DEF Owned, Recorded
  <2> QED BY <2>1, <2>2
<1>7. Exact'
  <2> SUFFICES ASSUME NEW r \in Revisions, NEW i \in Nat
               PROVE  <<r, i>> \in rows' <=>
                        /\ sourceOf[r] # None
                        /\ Needed(owner[sourceOf[r]].rev, repair[sourceOf[r]], r, i)'
    BY DEF Exact
  <2>1. sourceOf[r] # None => sourceOf[r] \in Sources
    BY DEF TypeOK
  <2>2. CASE sourceOf[r] = s
    BY <1>2, <2>2, NoneIsNoId DEF Needed
  <2>3. CASE sourceOf[r] # s
    BY <1>2, <2>1, <2>3 DEF Needed, Exact
  <2> QED BY <2>2, <2>3
<1> QED BY <1>3, <1>4, <1>5, <1>6, <1>7

(* The revision a writer may select: None for a tombstone. *)
Selectable(o, s, state, r) ==
  /\ state \in {"complete", "tombstone"}
  /\ r \in Revisions \cup {None}
  /\ state = "complete" <=> r # None
  /\ r # None => /\ op[o].kind = "write" /\ op[o].rev = r
                 /\ sourceOf[r] = s /\ owner[s].rev # r /\ <<s, r>> \notin retired

(* Its operation goes on with what is left of the old rows. *)
SettlesNext(o, n) ==
  /\ n \in Operations /\ Shape(n)
  /\ n.kind = op[o].kind /\ n.source = op[o].source /\ n.rev = op[o].rev /\ n.base = op[o].base
  /\ n.then = "done" /\ n.phase \in {"repair", "reclaim"} /\ n.kind # "clean"

(* Under the new record exactly the rows on disk are still needed. *)
RecordFits(s, r, q) ==
  /\ q \in Repairs /\ Valid(q)
  /\ \A x \in Revisions : q.from = x \/ q.to = x => x = r \/ x = owner[s].rev
  /\ IsPrivate(q) => q.from = owner[s].rev
  /\ IsSelected(q) => q.to = r /\ q.from # q.to
  /\ IsSelected(q) /\ q.to # None => q.toRecords = Len(content[q.to])
  /\ \A x \in Revisions, i \in Nat :
       sourceOf[x] = s => (<<x, i>> \in rows <=> Needed(r, q, x, i))

(* A revision, or a tombstone, is selected. *)
LEMMA Selecting ==
  ASSUME IInv, NEW o \in Ops, NEW s \in Sources, NEW state, NEW r, NEW q, NEW n,
         Selectable(o, s, state, r), SettlesNext(o, n), RecordFits(s, r, q),
         Select(s, state, r), repair' = [repair EXCEPT ![s] = q], op' = [op EXCEPT ![o] = n],
         UNCHANGED <<content, sourceOf, rows, count>>, pending' \in Nat
  PROVE  IInv'
<1> USE DEF IInv, Selectable, SettlesNext, RecordFits
<1>1. /\ op' \in [Ops -> Operations]
      /\ op'[o] = n
      /\ \A p \in Ops : p # o => op'[p] = op[p]
  BY OneOperation
<1>2. /\ repair' \in [Sources -> Repairs]
      /\ repair'[s] = q
      /\ \A x \in Sources : x # s => repair'[x] = repair[x]
  BY DEF TypeOK
<1>3. /\ sequence \in Nat /\ sequence' = sequence + 1 /\ revision' = revision + 1
      /\ retired' = retired \cup Retire(s)
  BY DEF Select, TypeOK
<1>4. /\ owner' \in [Sources -> Owners]
      /\ owner'[s].state = state /\ owner'[s].rev = r /\ owner'[s].seq = sequence + 1
      /\ \A x \in Sources : x # s => owner'[x] = owner[x]
  <2> DEFINE w == [state |-> state, rev |-> r, seq |-> sequence + 1]
  <2>1. w \in Owners /\ w.state = state /\ w.rev = r /\ w.seq = sequence + 1
    BY <1>3 DEF Owners
  <2>2. owner' = [owner EXCEPT ![s] = w]
    BY DEF Select
  <2> HIDE DEF w
  <2> QED BY <2>1, <2>2 DEF TypeOK
<1>5. /\ Owned(s) /\ owner[s] \in Owners
      /\ Retire(s) \in SUBSET {<<s, owner[s].rev>>}
      /\ owner[s].rev # None => Retire(s) = {<<s, owner[s].rev>>}
      /\ Retire(s) \in SUBSET (Sources \X Revisions)
  BY NoneIsNoId DEF Retire, Owned, TypeOK, Owners
<1>6. TypeOK'
  BY <1>1, <1>2, <1>3, <1>4, <1>5 DEF TypeOK
<1>7. ASSUME NEW p \in Ops
      PROVE  (Shape(op[p]) /\ Works(op[p]))'
  <2>1. Shape(op'[p])
    BY <1>1
  <2>2. Shape(op[p])'
    BY <2>1 DEF Shape, Early
  <2>3. CASE p = o
    <3>1. Works(op[o]) /\ op'[p] = n
      BY <1>1, <2>3
    <3>2. op[o].kind = "write" => op[o].base \in Nat
      BY DEF TypeOK, Operations
    <3>3. n.kind = "write" => sourceOf[n.rev] = n.source /\ n.base <= sequence + 1
      BY <1>3, <3>1, <3>2 DEF Works
    <3> QED BY <1>3, <2>2, <3>1, <3>3 DEF Works, Early
  <2>4. CASE p # o
    <3>1. op'[p] = op[p] /\ Shape(op[p]) /\ Works(op[p]) /\ op[p] \in Operations
      BY <1>1, <2>4 DEF TypeOK
    <3>2. ASSUME op[p].phase \in {"sweep", "retire"}
          PROVE  ~Marks(repair'[op[p].source], op[p].rev)
      <4>1. /\ op[p].source \in Sources
            /\ <<op[p].source, op[p].rev>> \in retired
            /\ ~Marks(repair[op[p].source], op[p].rev)
        BY <3>1, <3>2 DEF Shape, Works
      <4>2. <<s, owner[s].rev>> \notin retired
        BY <1>5 DEF Owned
      <4> QED BY <4>1, <4>2, <1>2 DEF Marks
    <3>3. ASSUME Early(op[p])
          PROVE  /\ owner'[op[p].source].rev # op[p].rev
                 /\ <<op[p].source, op[p].rev>> \notin retired'
                 /\ op[p].old # None /\ owner'[op[p].source].seq = op[p].base =>
                      /\ owner'[op[p].source].state = "complete"
                      /\ owner'[op[p].source].rev = op[p].old
      <4>1. /\ op[p].kind = "write" /\ op[p].source \in Sources /\ op[p].rev \in Revisions
            /\ op[p].base \in Nat /\ op[p].base <= sequence
            /\ owner[op[p].source].rev # op[p].rev
            /\ <<op[p].source, op[p].rev>> \notin retired
        BY <3>1, <3>3 DEF Early, Shape, Works, Operations
      <4>2. r # None => r # op[p].rev
        BY <2>4, <4>1 DEF Drawn
      <4>3. op[p].rev # r
        BY <4>1, <4>2, NoneIsNoId
      <4>4. CASE op[p].source = s
        BY <1>3, <1>4, <1>5, <4>1, <4>3, <4>4
      <4>5. CASE op[p].source # s
        BY <1>3, <1>4, <1>5, <4>1, <4>5, <3>1, <3>3 DEF Works
      <4> QED BY <4>4, <4>5
    <3>4. op[p].kind = "write" => sourceOf[op[p].rev] = op[p].source /\ op[p].base <= sequence + 1
      <4>1. op[p].base \in Nat
        BY <3>1 DEF Operations
      <4>2. op[p].kind = "write" => sourceOf[op[p].rev] = op[p].source /\ op[p].base <= sequence
        BY <3>1 DEF Works
      <4> QED BY <1>3, <4>1, <4>2
    <3>5. op[p].kind = "clean" => <<op[p].source, op[p].rev>> \in retired'
      BY <3>1, <1>3 DEF Works
    <3> QED BY <1>3, <2>2, <3>1, <3>2, <3>3, <3>4, <3>5 DEF Works, Early
  <2> QED BY <2>3, <2>4
<1>8. Drawn'
  BY <1>1 DEF Drawn
<1>9. ASSUME NEW x \in Sources
      PROVE  (Owned(x) /\ Recorded(x))'
  <2>1. CASE x = s
    <3>1. Owned(s)'
      <4>1. ASSUME NEW y \in Revisions, r = y \/ q.from = y \/ q.to = y \/ <<s, y>> \in retired'
            PROVE  sourceOf[y] = s
        BY <4>1, <1>3, <1>5, NoneIsNoId DEF Owned
      <4>2. <<s, r>> \notin retired'
        BY <1>3, <1>5, NoneIsNoId DEF TypeOK
      <4> QED BY <1>2, <1>3, <1>4, <4>1, <4>2 DEF Owned
    <3>2. Recorded(s)'
      <4>1. IsPrivate(q) => q.from # r
        BY NoneIsNoId, SidesTell
      <4> QED BY <1>2, <1>4, <4>1 DEF Recorded
    <3> QED BY <2>1, <3>1, <3>2
  <2>2. CASE x # s
    <3>1. Owned(x) /\ Recorded(x) /\ owner'[x] = owner[x] /\ repair'[x] = repair[x] /\ owner[x] \in Owners
      BY <1>2, <1>4, <2>2 DEF TypeOK
    <3>2. \A y : <<x, y>> \in retired' <=> <<x, y>> \in retired
      BY <1>3, <1>5, <2>2
    <3>3. owner[x].seq <= sequence + 1
      BY <1>3, <3>1 DEF Owned, Owners
    <3> QED BY <1>3, <3>1, <3>2, <3>3 DEF Owned, Recorded
  <2> QED BY <2>1, <2>2
<1>10. Exact'
  <2> SUFFICES ASSUME NEW x \in Revisions, NEW i \in Nat
               PROVE  <<x, i>> \in rows <=>
                        /\ sourceOf[x] # None
                        /\ Needed(owner[sourceOf[x]].rev, repair[sourceOf[x]], x, i)'
    BY DEF Exact
  <2>1. sourceOf[x] # None => sourceOf[x] \in Sources
    BY DEF TypeOK
  <2>2. CASE sourceOf[x] = s
    BY <1>2, <1>4, <2>2, NoneIsNoId DEF Needed
  <2>3. CASE sourceOf[x] # s
    BY <1>2, <1>4, <2>1, <2>3 DEF Needed, Exact
  <2> QED BY <2>2, <2>3
<1> QED BY <1>6, <1>7, <1>8, <1>9, <1>10
-----------------------------------------------------------------------------
(* The actions that change nothing on disk. *)
LEMMA Starting ==
  ASSUME IInv, NEW o \in Ops, NEW n \in Operations, Shape(n), op' = [op EXCEPT ![o] = n],
         n.kind \in {"delete", "settle", "lookup"} \/ (n.kind = "clean" /\ <<n.source, n.rev>> \in retired),
         n.phase \notin {"sweep", "retire"}, UNCHANGED <<disk, ids, retired>>
  PROVE  IInv'
<1>1. Works(n)
  BY DEF Works, Early
<1> QED BY <1>1, GoingOn DEF GoesOn

LEMMA StartDeleteKeeps ==
  ASSUME IInv, NEW o \in Ops, NEW s \in Sources, StartDelete(o, s)
  PROVE  IInv'
<1> DEFINE n == [Idle EXCEPT !.kind = "delete", !.source = s, !.phase = "settle", !.then = "pin"]
<1>1. /\ n \in Operations /\ n.kind = "delete" /\ n.source = s
      /\ n.phase = "settle" /\ n.then = "pin"
  BY IdleIsOperation DEF Operations, Phases
<1>2. op' = [op EXCEPT ![o] = n] /\ UNCHANGED <<disk, ids, retired>>
  BY DEF StartDelete
<1> HIDE DEF n
<1>3. Shape(n)
  BY <1>1 DEF Shape, Early
<1>4. /\ n.kind \in {"delete", "settle", "lookup"} \/ (n.kind = "clean" /\ <<n.source, n.rev>> \in retired)
      /\ n.phase \notin {"sweep", "retire"}
  BY <1>1
<1> QED BY <1>1, <1>2, <1>3, <1>4, Starting

LEMMA StartSettleKeeps ==
  ASSUME IInv, NEW o \in Ops, NEW s \in Sources, StartSettle(o, s)
  PROVE  IInv'
<1> DEFINE n == [Idle EXCEPT !.kind = "settle", !.source = s, !.phase = "settle", !.then = "done"]
<1>1. /\ n \in Operations /\ n.kind = "settle" /\ n.source = s
      /\ n.phase = "settle" /\ n.then = "done"
  BY IdleIsOperation DEF Operations, Phases
<1>2. op' = [op EXCEPT ![o] = n] /\ UNCHANGED <<disk, ids, retired>>
  BY DEF StartSettle
<1> HIDE DEF n
<1>3. Shape(n)
  BY <1>1 DEF Shape, Early
<1>4. /\ n.kind \in {"delete", "settle", "lookup"} \/ (n.kind = "clean" /\ <<n.source, n.rev>> \in retired)
      /\ n.phase \notin {"sweep", "retire"}
  BY <1>1
<1> QED BY <1>1, <1>2, <1>3, <1>4, Starting

LEMMA StartCleanKeeps ==
  ASSUME IInv, NEW o \in Ops, NEW s \in Sources, NEW r \in Revisions, StartClean(o, s, r)
  PROVE  IInv'
<1> DEFINE n == [Idle EXCEPT !.kind = "clean", !.source = s, !.rev = r,
                             !.phase = "preflight", !.then = "sweep"]
<1>1. /\ n \in Operations /\ n.kind = "clean" /\ n.source = s /\ n.rev = r
      /\ n.phase = "preflight" /\ n.then = "sweep"
  BY IdleIsOperation DEF Operations, Phases
<1>2. op' = [op EXCEPT ![o] = n] /\ <<s, r>> \in retired /\ UNCHANGED <<disk, ids, retired>>
  BY DEF StartClean
<1> HIDE DEF n
<1>3. Shape(n)
  BY <1>1 DEF Shape, Early
<1> QED BY <1>1, <1>2, <1>3, Starting

LEMMA StartLookupKeeps ==
  ASSUME IInv, NEW o \in Ops, NEW k \in Asked, StartLookup(o, k)
  PROVE  IInv'
<1> DEFINE n == [Idle EXCEPT !.kind = "lookup", !.phase = "count", !.key = k,
                             !.stamp = revision, !.base = sequence, !.todo = Sources]
<1>1. k \in Keys /\ revision \in Nat /\ sequence \in Nat
  BY ConstantsAssumption DEF IInv, TypeOK
<1>2. n \in Operations /\ n.kind = "lookup" /\ n.phase = "count" /\ n.key = k
  BY <1>1, IdleIsOperation DEF Operations, Phases
<1>3. op' = [op EXCEPT ![o] = n] /\ UNCHANGED <<disk, ids, retired>>
  BY DEF StartLookup
<1> HIDE DEF n
<1>4. Shape(n)
  BY <1>1, <1>2 DEF Shape, Early
<1>5. /\ n.kind \in {"delete", "settle", "lookup"} \/ (n.kind = "clean" /\ <<n.source, n.rev>> \in retired)
      /\ n.phase \notin {"sweep", "retire"}
  BY <1>2
<1> QED BY <1>2, <1>3, <1>4, <1>5, Starting

(* A finished repair or reclaim goes where its operation leads. *)
LEMMA ThenFits ==
  ASSUME IInv, NEW o \in Ops, op[o].phase \in {"settle", "repair", "reclaim"}
  PROVE  op[o].then \in Phases /\ Shape([op[o] EXCEPT !.phase = op[o].then])
<1> DEFINE n == [op[o] EXCEPT !.phase = op[o].then]
<1>1. op[o] \in Operations /\ Shape(op[o])
  BY DEF IInv, TypeOK
<1>2. /\ op[o].then \in Phases /\ n.phase = op[o].then /\ n.kind = op[o].kind
      /\ n.source = op[o].source /\ n.rev = op[o].rev /\ n.then = op[o].then /\ n.key = op[o].key
  BY <1>1 DEF Operations
<1> HIDE DEF n
<1>3. Shape(n)
  BY <1>1, <1>2 DEF Shape, Early
<1> QED BY <1>2, <1>3 DEF n

LEMMA PhaseFits ==
  ASSUME IInv, NEW o \in Ops, NEW phase \in {"repair", "reclaim", "sweep", "retire", "done"},
         phase \in {"repair", "reclaim"} => op[o].phase \in {"settle", "preflight"},
         phase \in {"sweep", "retire"} => op[o].kind = "clean"
  PROVE  phase \in Phases /\ Shape([op[o] EXCEPT !.phase = phase])
<1> DEFINE n == [op[o] EXCEPT !.phase = phase]
<1>1. op[o] \in Operations /\ Shape(op[o])
  BY DEF IInv, TypeOK
<1>2. /\ phase \in Phases /\ n.phase = phase /\ n.kind = op[o].kind
      /\ n.source = op[o].source /\ n.rev = op[o].rev /\ n.then = op[o].then /\ n.key = op[o].key
  BY <1>1 DEF Operations, Phases
<1> HIDE DEF n
<1>3. Shape(n)
  BY <1>1, <1>2 DEF Shape, Early
<1> QED BY <1>2, <1>3 DEF n

(* The loop of settleLocalDependencyWork() leaves a settled record.        *)
LEMMA SettledKeeps ==
  ASSUME IInv, NEW o \in Ops, op[o].phase \in {"settle", "repair", "reclaim"},
         repair[op[o].source] = NoRepair, Go(o, op[o].then), UNCHANGED <<disk, ids, retired>>
  PROVE  IInv'
<1>1. ~Marks(repair[op[o].source], op[o].rev)
  BY NoRepairIsNoMark DEF Marks
<1>2. op[o].then \in Phases /\ Shape([op[o] EXCEPT !.phase = op[o].then])
  BY ThenFits
<1> QED BY <1>1, <1>2, Going

LEMMA SettleKeeps ==
  ASSUME IInv, NEW o \in Ops, Settle(o)
  PROVE  IInv'
<1>1. op[o].phase = "settle" /\ UNCHANGED <<disk, ids, retired>>
  BY DEF Settle
<1>2. CASE repair[op[o].source] = NoRepair /\ Go(o, op[o].then)
  BY <1>1, <1>2, SettledKeeps
<1>3. CASE Go(o, "repair")
  <2>1. "repair" \in Phases /\ Shape([op[o] EXCEPT !.phase = "repair"])
    BY <1>1, PhaseFits
  <2> QED BY <1>1, <1>3, <2>1, Going
<1>4. CASE Go(o, "reclaim")
  <2>1. "reclaim" \in Phases /\ Shape([op[o] EXCEPT !.phase = "reclaim"])
    BY <1>1, PhaseFits
  <2> QED BY <1>1, <1>4, <2>1, Going
<1> QED BY <1>2, <1>3, <1>4 DEF Settle

LEMMA PreflightKeeps ==
  ASSUME IInv, NEW o \in Ops, Preflight(o)
  PROVE  IInv'
<1> DEFINE p == repair[op[o].source]
<1>1. op[o].phase = "preflight" /\ UNCHANGED <<disk, ids, retired>>
  BY DEF Preflight
<1>2. op[o].kind = "clean"
  BY <1>1 DEF IInv, Shape
<1>3. CASE Marks(p, op[o].rev)
  <2>1. Go(o, "reclaim")
    BY <1>3 DEF Preflight, Marks
  <2>2. "reclaim" \in Phases /\ Shape([op[o] EXCEPT !.phase = "reclaim"])
    BY <1>1, PhaseFits
  <2> QED BY <1>1, <2>1, <2>2, Going
<1>4. CASE ~Marks(p, op[o].rev)
  <2>1. Go(o, "sweep")
    BY <1>4 DEF Preflight, Marks
  <2>2. "sweep" \in Phases /\ Shape([op[o] EXCEPT !.phase = "sweep"])
    BY <1>2, PhaseFits
  <2> QED BY <1>1, <1>4, <2>1, <2>2, Going
<1> QED BY <1>3, <1>4

LEMMA AbandonKeeps ==
  ASSUME IInv, NEW o \in Ops, Abandon(o)
  PROVE  IInv'
<1>1. UNCHANGED <<disk, ids, retired>>
  BY DEF Abandon
<1>2. CASE Finish(o)
  BY <1>1, <1>2, Finishing
<1>3. CASE ~Finish(o)
  <2> DEFINE n == [op[o] EXCEPT !.phase = "reclaim", !.then = "done"]
  <2>1. op[o] \in Operations /\ Shape(op[o]) /\ Works(op[o])
    BY DEF IInv, TypeOK
  <2>2. /\ n \in Operations /\ n.phase = "reclaim" /\ n.then = "done" /\ n.kind = op[o].kind
        /\ n.source = op[o].source /\ n.rev = op[o].rev /\ n.base = op[o].base
    BY <2>1 DEF Operations, Phases
  <2>3. op[o].kind = "write" /\ op' = [op EXCEPT ![o] = n]
    BY <1>3 DEF Abandon
  <2> HIDE DEF n
  <2>4. Shape(n)
    BY <2>1, <2>2, <2>3 DEF Shape, Early
  <2>5. Works(n)
    BY <2>1, <2>2, <2>3 DEF Works, Early
  <2> QED BY <1>1, <2>2, <2>3, <2>4, <2>5, GoingOn DEF GoesOn
<1> QED BY <1>2, <1>3

(* write() captures an owner under its expected sequence.                  *)
LEMMA PrepareKeeps ==
  ASSUME IInv, NEW o \in Ops, Prepare(o)
  PROVE  IInv'
<1> DEFINE s == op[o].source
           old == IF /\ pending = 0
                     /\ repair[s] = NoRepair
                     /\ owner[s].state = "complete"
                     /\ owner[s].seq = op[o].base
                  THEN owner[s].rev ELSE None
           n == [op[o] EXCEPT !.phase = "stage", !.stamp = revision, !.old = old]
<1>1. /\ op[o] \in Operations /\ Shape(op[o]) /\ Works(op[o]) /\ op[o].phase = "prepare"
      /\ revision \in Nat
  BY DEF IInv, TypeOK, Prepare
<1>2. Early(op[o]) /\ s \in Sources
  BY <1>1 DEF Shape, Early
<1>3. /\ old \in Revisions \cup {None}
      /\ old # None => owner[s].state = "complete" /\ owner[s].rev = old
  BY <1>2 DEF IInv, TypeOK, Owners
<1>4. op' = [op EXCEPT ![o] = n] /\ UNCHANGED <<disk, ids, retired>>
  BY DEF Prepare
<1> HIDE DEF old
<1>5. /\ n \in Operations /\ n.phase = "stage" /\ n.then = op[o].then /\ n.kind = op[o].kind
      /\ n.source = s /\ n.rev = op[o].rev /\ n.base = op[o].base /\ n.old = old
  <2>1. "stage" \in Phases
    BY DEF Phases
  <2> QED BY <1>1, <1>3, <2>1 DEF Operations
<1> HIDE DEF n
<1>6. Shape(n)
  BY <1>1, <1>2, <1>5 DEF Shape, Early
<1>7. Works(n)
  BY <1>1, <1>2, <1>3, <1>5 DEF Works, Early
<1> QED BY <1>4, <1>5, <1>6, <1>7, GoingOn DEF GoesOn

LEMMA AuthenticateKeeps ==
  ASSUME IInv, NEW o \in Ops, Authenticate(o)
  PROVE  IInv'
<1> DEFINE old == IF Authenticated(o) THEN op[o].old ELSE None
           n == [op[o] EXCEPT !.phase = "activate", !.old = old]
<1>1. /\ op[o] \in Operations /\ Shape(op[o]) /\ Works(op[o]) /\ op[o].phase = "authenticate"
  BY DEF IInv, TypeOK, Authenticate
<1>2. Early(op[o])
  BY <1>1 DEF Shape
<1>3. old \in Revisions \cup {None} /\ old \in {op[o].old, None}
  BY <1>1 DEF Operations
<1>4. op' = [op EXCEPT ![o] = n] /\ UNCHANGED <<disk, ids, retired>>
  BY DEF Authenticate
<1> HIDE DEF old
<1>5. /\ n \in Operations /\ n.phase = "activate" /\ n.then = op[o].then /\ n.kind = op[o].kind
      /\ n.source = op[o].source /\ n.rev = op[o].rev /\ n.base = op[o].base /\ n.old = old
  BY <1>1, <1>3 DEF Operations, Phases
<1> HIDE DEF n
<1>6. Shape(n)
  BY <1>1, <1>2, <1>5 DEF Shape, Early
<1>7. Works(n)
  BY <1>1, <1>2, <1>3, <1>5 DEF Works, Early
<1> QED BY <1>4, <1>5, <1>6, <1>7, GoingOn DEF GoesOn

LEMMA PinDeleteKeeps ==
  ASSUME IInv, NEW o \in Ops, PinDelete(o)
  PROVE  IInv'
<1> DEFINE n == [op[o] EXCEPT !.phase = "activate", !.base = owner[op[o].source].seq]
<1>1. /\ op[o] \in Operations /\ Shape(op[o]) /\ Works(op[o]) /\ op[o].phase = "pin"
      /\ UNCHANGED <<disk, ids, retired>>
  BY DEF IInv, TypeOK, PinDelete
<1>2. op[o].kind = "delete" /\ op[o].source \in Sources
  BY <1>1 DEF Shape
<1>3. owner[op[o].source].seq \in Nat
  BY <1>2 DEF IInv, TypeOK, Owners
<1>4. CASE Finish(o)
  BY <1>1, <1>4, Finishing
<1>5. CASE ~Finish(o)
  <2>1. op' = [op EXCEPT ![o] = n]
    BY <1>5 DEF PinDelete
  <2>2. /\ n \in Operations /\ n.phase = "activate" /\ n.then = op[o].then /\ n.kind = op[o].kind
        /\ n.source = op[o].source /\ n.rev = op[o].rev
    BY <1>1, <1>3 DEF Operations, Phases
  <2> HIDE DEF n
  <2>3. Shape(n)
    BY <1>1, <1>2, <2>2 DEF Shape, Early
  <2>4. Works(n)
    BY <1>2, <2>2 DEF Works, Early
  <2>5. n.kind # "write"
    BY <1>2, <2>2
  <2> QED BY <1>1, <2>1, <2>2, <2>3, <2>4, <2>5, GoingOn DEF GoesOn
<1> QED BY <1>4, <1>5
-----------------------------------------------------------------------------
(* Lookups. *)
LEMMA LookupGoesOn ==
  ASSUME IInv, NEW o \in Ops, NEW n \in Operations, op[o].phase \in {"count", "scan"},
         n.kind = op[o].kind, n.key = op[o].key, n.phase \in {"scan", "done"},
         op' = [op EXCEPT ![o] = n], UNCHANGED <<disk, ids, retired>>
  PROVE  IInv'
<1>1. op[o].kind = "lookup" /\ op[o].key \in Keys
  BY DEF IInv, Shape
<1>2. Shape(n)
  BY <1>1 DEF Shape, Early
<1>3. Works(n)
  BY <1>1 DEF Works, Early
<1>4. n.kind # "write"
  BY <1>1
<1> QED BY <1>2, <1>3, <1>4, GoingOn DEF GoesOn

LEMMA ReadCountKeeps ==
  ASSUME IInv, NEW o \in Ops, ReadCount(o)
  PROVE  IInv'
<1> DEFINE n == [op[o] EXCEPT !.phase = "scan", !.need = count[op[o].key]]
<1>1. op[o] \in Operations /\ Shape(op[o]) /\ op[o].phase = "count"
  BY DEF IInv, TypeOK, ReadCount
<1>2. count[op[o].key] \in Nat
  BY <1>1 DEF IInv, TypeOK, Shape
<1>3. n \in Operations /\ n.kind = op[o].kind /\ n.key = op[o].key /\ n.phase = "scan"
  BY <1>1, <1>2 DEF Operations, Phases
<1>4. op' = [op EXCEPT ![o] = n] /\ UNCHANGED <<disk, ids, retired>>
  BY DEF ReadCount
<1> HIDE DEF n
<1> QED BY <1>1, <1>3, <1>4, LookupGoesOn

LEMMA ScanPageKeeps ==
  ASSUME IInv, NEW o \in Ops, NEW s \in Sources, ScanPage(o, s)
  PROVE  IInv'
<1> DEFINE matching == Matching(s, op[o].key)
           active == op[o].active + Cardinality(matching)
           found == IF matching = {} THEN op[o].found ELSE op[o].found \cup {s}
           todo == op[o].todo \ {s}
           n == [op[o] EXCEPT !.todo = todo, !.active = active, !.found = found]
<1>1. op[o] \in Operations /\ op[o].phase = "scan"
  BY DEF IInv, TypeOK, ScanPage
<1>2. Cardinality(matching) \in Nat
  <2>1. IsFiniteSet(rows) /\ matching \subseteq rows
    BY DEF IInv, Matching
  <2> HIDE DEF matching
  <2> QED BY <2>1, FS_Subset, FS_CardinalityType
<1>3. op' = [op EXCEPT ![o] = n] /\ UNCHANGED <<disk, ids, retired>>
  BY DEF ScanPage
<1> HIDE DEF matching
<1>4. active \in Nat /\ found \in SUBSET Sources /\ todo \in SUBSET Sources
  BY <1>1, <1>2 DEF Operations
<1> HIDE DEF active, found, todo
<1>5. n \in Operations /\ n.kind = op[o].kind /\ n.key = op[o].key /\ n.phase = "scan"
  BY <1>1, <1>4 DEF Operations
<1> HIDE DEF n
<1> QED BY <1>1, <1>3, <1>5, LookupGoesOn

LEMMA AnswerKeeps ==
  ASSUME IInv, NEW o \in Ops, Answer(o)
  PROVE  IInv'
<1> DEFINE n == [op[o] EXCEPT !.phase = "done"]
<1>1. op[o] \in Operations /\ op[o].phase = "scan"
  BY DEF IInv, TypeOK, Answer
<1>2. n \in Operations /\ n.kind = op[o].kind /\ n.key = op[o].key /\ n.phase = "done"
  BY <1>1 DEF Operations, Phases
<1>3. op' = [op EXCEPT ![o] = n] /\ UNCHANGED <<disk, ids, retired>>
  BY DEF Answer, Go
<1> HIDE DEF n
<1> QED BY <1>1, <1>2, <1>3, LookupGoesOn

(* A crash forgets the operations of a repository, and nothing else.       *)
LEMMA CrashKeeps ==
  ASSUME IInv, NEW c \in Connections, Crash(c)
  PROVE  IInv'
<1>1. UNCHANGED <<disk, ids, retired>> /\ \A p \in Ops : op'[p] \in {Idle, op[p]}
  BY DEF Crash
<1>2. op' \in [Ops -> Operations]
  BY IdleIsOperation DEF Crash, IInv, TypeOK
<1>3. TypeOK'
  BY <1>1, <1>2 DEF IInv, TypeOK, disk, ids
<1>4. IsFiniteSet(rows)' /\ Exact' /\ \A s \in Sources : (Owned(s) /\ Recorded(s))'
  BY <1>1 DEF IInv, disk, ids, Exact, Needed, Owned, Recorded
<1>5. ASSUME NEW p \in Ops
      PROVE  (Shape(op[p]) /\ Works(op[p]))'
  <2>1. Works(Idle)
    BY DEF Works, Early, Idle
  <2>2. Shape(op'[p]) /\ Works(op'[p])
    BY <1>1, <2>1, IdleIsOperation DEF IInv
  <2>3. Shape(op[p])'
    BY <2>2 DEF Shape, Early
  <2>4. Works(op[p])'
    BY <1>1, <2>2 DEF Works, Early, disk, ids
  <2> QED BY <2>3, <2>4
<1>6. Drawn'
  BY <1>1, IdleIsOperation DEF IInv, Drawn, ids
<1> QED BY <1>3, <1>4, <1>5, <1>6 DEF IInv
-----------------------------------------------------------------------------
(* A new revision: nothing on disk names its id yet. *)
LEMMA StartWriteKeeps ==
  ASSUME IInv, NEW o \in Ops, NEW s \in Sources, NEW r \in Revisions, NEW c \in Contents,
         StartWrite(o, s, r, c)
  PROVE  IInv'
<1> DEFINE n == [Idle EXCEPT !.kind = "write", !.source = s, !.phase = "settle", !.then = "prepare",
                             !.rev = r, !.base = owner[s].seq]
<1>1. /\ TypeOK /\ sourceOf[r] = None /\ op' = [op EXCEPT ![o] = n]
      /\ op[o].kind = "none"
      /\ UNCHANGED <<owner, rows, repair, count, pending, revision, sequence, retired>>
  BY DEF IInv, StartWrite, disk
<1>2. /\ sourceOf' \in [Revisions -> Sources \cup {None}] /\ sourceOf'[r] = s
      /\ \A x \in Revisions : x # r => sourceOf'[x] = sourceOf[x]
  BY <1>1 DEF TypeOK, StartWrite
<1>3. c \in Seq(Keys) /\ c # <<>>
  BY ConstantsAssumption
<1>4. /\ content' \in [Revisions -> Seq(Keys)] /\ content'[r] = c
      /\ \A x \in Revisions : x # r => content'[x] = content[x]
  BY <1>1, <1>3 DEF TypeOK, StartWrite
<1>5. Owned(s) /\ owner[s].seq \in Nat /\ owner[s].seq <= sequence
  BY <1>1 DEF IInv, Owned, TypeOK, Owners
<1>6. /\ n \in Operations /\ n.kind = "write" /\ n.source = s /\ n.phase = "settle"
      /\ n.then = "prepare" /\ n.rev = r /\ n.base = owner[s].seq /\ n.old = None
  BY <1>5, IdleIsOperation DEF Operations, Phases, Idle
<1> HIDE DEF n
<1>7. /\ op' \in [Ops -> Operations]
      /\ op'[o] = n
      /\ \A p \in Ops : p # o => op'[p] = op[p]
  BY <1>1, <1>6, OneOperation
<1>8. ASSUME NEW x \in Sources
      PROVE  owner[x].rev # r /\ repair[x].from # r /\ repair[x].to # r /\ <<x, r>> \notin retired
  BY <1>1, NoneIsNoId DEF IInv, Owned
<1>9. TypeOK'
  BY <1>1, <1>2, <1>4, <1>7 DEF TypeOK
<1>10. ASSUME NEW p \in Ops
       PROVE  (Shape(op[p]) /\ Works(op[p]))'
  <2>1. CASE p = o
    <3>1. Shape(op'[o])
      BY <1>6, <1>7 DEF Shape, Early
    <3>2. Shape(op[o])'
      BY <3>1 DEF Shape, Early
    <3>3. /\ sourceOf'[r] = s /\ owner[s].seq <= sequence /\ owner[s].rev # r
          /\ <<s, r>> \notin retired
      BY <1>2, <1>5, <1>8
    <3>4. Works(op[o])'
      BY <1>1, <1>6, <1>7, <3>3 DEF Works, Early
    <3> QED BY <2>1, <3>2, <3>4
  <2>2. CASE p # o
    <3>1. op'[p] = op[p] /\ Shape(op[p]) /\ Works(op[p])
      BY <1>7, <2>2 DEF IInv
    <3>2. Shape(op[p])'
      BY <3>1 DEF Shape, Early
    <3>3. op[p].kind = "write" => op[p].rev \in Revisions /\ sourceOf[op[p].rev] \in Sources
      BY <3>1 DEF Shape, Works
    <3>4. op[p].kind = "write" => sourceOf'[op[p].rev] = sourceOf[op[p].rev]
      BY <1>1, <1>2, <3>3, NoneIsNoId
    <3>5. Works(op[p])'
      BY <1>1, <3>1, <3>4 DEF Works, Early
    <3> QED BY <3>2, <3>5
  <2> QED BY <2>1, <2>2
<1>11. Drawn'
  <2>1. ASSUME NEW x \in Revisions, sourceOf'[x] # None
        PROVE  Len(content'[x]) > 0
    <3>1. CASE x = r
      BY <1>3, <1>4, <3>1
    <3>2. CASE x # r
      BY <1>2, <1>4, <2>1, <3>2 DEF IInv, Drawn
    <3> QED BY <3>1, <3>2
  <2>2. ASSUME NEW p \in Ops, p # o, op[p].kind = "write"
        PROVE  op[p].rev # r
    <3>1. Shape(op[p]) /\ Works(op[p])
      BY DEF IInv
    <3>2. op[p].source \in Sources /\ sourceOf[op[p].rev] = op[p].source
      BY <2>2, <3>1 DEF Shape, Works
    <3> QED BY <1>1, <3>2, NoneIsNoId
  <2>3. ASSUME NEW x \in Ops, NEW y \in Ops, op'[x].kind = "write", op'[y].kind = "write",
               op'[x].rev = op'[y].rev
        PROVE  x = y
    <3>1. CASE x = o \/ y = o
      BY <1>6, <1>7, <2>2, <2>3, <3>1
    <3>2. CASE x # o /\ y # o
      BY <1>7, <2>3, <3>2 DEF IInv, Drawn
    <3> QED BY <3>1, <3>2
  <2> QED BY <2>1, <2>3 DEF Drawn
<1>12. ASSUME NEW x \in Sources
       PROVE  (Owned(x) /\ Recorded(x))'
  <2>1. Owned(x) /\ Recorded(x) /\ repair[x] \in Repairs
    BY <1>1 DEF IInv, TypeOK
  <2>2. Owned(x)'
    BY <1>1, <1>2, <1>8, <2>1 DEF Owned
  <2>3. repair[x].to # None => content'[repair[x].to] = content[repair[x].to]
    BY <1>4, <1>8, <2>1 DEF Repairs
  <2>4. Recorded(x)'
    BY <1>1, <2>1, <2>3 DEF Recorded
  <2> QED BY <2>2, <2>4
<1>13. Exact'
  <2> SUFFICES ASSUME NEW x \in Revisions, NEW i \in Nat
               PROVE  <<x, i>> \in rows <=>
                        /\ sourceOf'[x] # None
                        /\ Needed(owner[sourceOf[x]].rev, repair[sourceOf[x]], x, i)'
    BY <1>1 DEF Exact
  <2>1. CASE x = r
    <3>1. <<r, i>> \notin rows
      BY <1>1 DEF IInv, Exact
    <3>2. owner[s].rev # r /\ repair[s].from # r
      BY <1>8
    <3> QED BY <1>1, <1>2, <2>1, <3>1, <3>2 DEF Needed
  <2>2. CASE x # r
    BY <1>1, <1>2, <1>4, <2>2 DEF Needed, IInv, Exact
  <2> QED BY <2>1, <2>2
<1>14. IsFiniteSet(rows')
  BY <1>1 DEF IInv
<1> QED BY <1>9, <1>10, <1>11, <1>12, <1>13, <1>14 DEF IInv
-----------------------------------------------------------------------------
(* The actions on a record and its rows. *)
LEMMA PageOfRows ==
  ASSUME NEW r, NEW first \in Nat, NEW last \in Nat,
         r \in Revisions \/ last <= first
  PROVE  /\ Page(r, first, last) \in SUBSET (Revisions \X Nat)
         /\ IsFiniteSet(Page(r, first, last))
<1>1. IsFiniteSet(Page(r, first, last))
  BY PageFinite
<1>2. \A x \in Page(r, first, last) : x \in Revisions \X Nat
  BY DEF Page
<1> QED BY <1>1, <1>2

(* The sides of a record, and what its source owns. *)
LEMMA RecordFacts ==
  ASSUME IInv, NEW s \in Sources
  PROVE  LET p == repair[s] IN
         /\ p \in Repairs /\ Valid(p)
         /\ p.from \in Revisions \cup {None} /\ p.to \in Revisions \cup {None}
         /\ p.fromRecords \in Nat /\ p.fromIndex \in Nat /\ p.toRecords \in Nat /\ p.toIndex \in Nat
         /\ p.fromIndex <= p.fromRecords /\ p.toIndex <= p.toRecords
         /\ p.from = None => p.fromRecords = 0
         /\ p.to = None => p.toRecords = 0
         /\ \A r \in Revisions : p.from = r \/ p.to = r => sourceOf[r] = s
         /\ Recorded(s)
  BY DEF IInv, TypeOK, Repairs, Valid, Owned

(* What is on disk of the revisions of one source. *)
LEMMA RowsOf ==
  ASSUME IInv, NEW s \in Sources
  PROVE  \A r \in Revisions, i \in Nat :
           sourceOf[r] = s => (<<r, i>> \in rows <=> Needed(owner[s].rev, repair[s], r, i))
  BY NoneIsNoId DEF IInv, Exact

LEMMA StagePageKeeps ==
  ASSUME IInv, NEW o \in Ops, NEW k \in 1 .. PageSize, StagePage(o, k)
  PROVE  IInv'
<1> DEFINE s == op[o].source
           r == op[o].rev
           before == op[o].staged
           staged == before + k
           phase == IF staged < Len(content[r]) THEN "stage"
                    ELSE IF op[o].old # None /\ content[op[o].old] = content[r]
                    THEN "authenticate" ELSE "activate"
           n == [op[o] EXCEPT !.staged = staged, !.phase = phase]
           q == StagingOf(r, staged)
<1>1. /\ op[o] \in Operations /\ Shape(op[o]) /\ Works(op[o]) /\ op[o].phase = "stage"
      /\ TypeOK /\ PageSize \in Nat
  BY ConstantsAssumption DEF IInv, TypeOK, StagePage
<1>2. Early(op[o]) /\ s \in Sources /\ r \in Revisions /\ before \in Nat /\ staged \in Nat
  BY <1>1 DEF Shape, Early, Operations
<1>3. sourceOf[r] = s /\ owner[s].rev # r /\ <<s, r>> \notin retired
  BY <1>1, <1>2 DEF Works, Early
<1>4. /\ q \in Repairs /\ Valid(q) /\ IsPrivate(q) /\ ~IsSelected(q)
      /\ q.from = r /\ q.to = r /\ q.toRecords = staged /\ q.toIndex = 0
  BY <1>2, StagingMarks
<1>5. /\ op' = [op EXCEPT ![o] = n] /\ repair' = [repair EXCEPT ![s] = q]
      /\ rows' = rows \cup Page(r, before, staged)
      /\ UNCHANGED <<owner, content, sourceOf, retired, count, pending, revision, sequence>>
      /\ MarkerAllows(repair[s], r, before)
  BY DEF StagePage, ids
<1>6. SameTask(op[o], n) /\ n.phase \notin {"sweep", "retire"}
  <2>1. phase \in {"stage", "authenticate", "activate"} /\ phase \in Phases
    BY DEF Phases
  <2> HIDE DEF phase, staged
  <2>2. /\ n \in Operations /\ n.phase = phase /\ n.kind = op[o].kind /\ n.source = op[o].source
        /\ n.rev = op[o].rev /\ n.then = op[o].then /\ n.old = op[o].old /\ n.base = op[o].base
    BY <1>1, <1>2, <2>1 DEF Operations
  <2> HIDE DEF n
  <2>3. Shape(n)
    BY <1>1, <1>2, <2>1, <2>2 DEF Shape, Early
  <2> QED BY <2>1, <2>2, <2>3 DEF SameTask
<1> HIDE DEF n, q
<1>7. rows' \in SUBSET (Revisions \X Nat) /\ IsFiniteSet(rows')
  <2>1. /\ Page(r, before, staged) \in SUBSET (Revisions \X Nat)
        /\ IsFiniteSet(Page(r, before, staged))
    BY <1>2, PageOfRows
  <2> QED BY <1>5, <2>1, FS_Union DEF IInv, TypeOK
<1>8. ASSUME NEW x \in Revisions, NEW i \in Nat
      PROVE  <<x, i>> \in rows' <=> IF sourceOf[x] = s THEN Needed(owner[s].rev, q, x, i)
                                                       ELSE <<x, i>> \in rows
  <2> HIDE DEF staged, before
  <2>1. <<x, i>> \in rows' <=> \/ <<x, i>> \in rows
                               \/ x = r /\ before <= i /\ i < staged
    BY <1>2, <1>5, InPage
  <2>2. CASE sourceOf[x] # s
    BY <1>3, <2>1, <2>2
  <2>3. CASE sourceOf[x] = s
    <3>1. <<x, i>> \in rows <=> Needed(owner[s].rev, repair[s], x, i)
      BY <1>2, <2>3, RowsOf
    <3>2. CASE repair[s] = NoRepair /\ before = 0
      <4>1. <<x, i>> \in rows <=> owner[s].rev = x /\ i < Len(content[x])
        BY <3>1, <3>2, NoRepairIsNoMark DEF Needed
      <4> QED BY <1>2, <1>4, <2>1, <2>3, <3>2, <4>1 DEF Needed
    <3>3. CASE IsStaging(repair[s]) /\ repair[s].from = r /\ repair[s].fromRecords = before
      <4>1. /\ IsPrivate(repair[s]) /\ ~IsSelected(repair[s])
            /\ repair[s].toIndex = 0 /\ repair[s].toRecords = before
        BY <3>3 DEF IsPrivate, IsSelected, IsStaging
      <4>2. <<x, i>> \in rows <=> \/ owner[s].rev = x /\ i < Len(content[x])
                                  \/ x = r /\ i < before
        BY <3>1, <3>3, <4>1 DEF Needed
      <4>3. before <= staged
        BY <1>2 DEF staged
      <4> QED BY <1>2, <1>4, <2>1, <2>3, <4>2, <4>3 DEF Needed
    <3> QED BY <1>5, <3>2, <3>3 DEF MarkerAllows
  <2> QED BY <2>2, <2>3
<1>9. /\ \A x \in Revisions : q.from = x \/ q.to = x => sourceOf[x] = s
      /\ q.from # owner[s].rev /\ <<s, q.from>> \notin retired
  BY <1>3, <1>4
<1>10. count' \in [Keys -> Nat] /\ pending' \in Nat /\ revision' \in Nat
  BY <1>1, <1>5 DEF TypeOK
<1> HIDE DEF s, r, before, staged
<1> QED BY <1>2, <1>4, <1>5, <1>6, <1>7, <1>8, <1>9, <1>10, Marking

LEMMA ReclaimPageKeeps ==
  ASSUME IInv, NEW o \in Ops, ReclaimPage(o)
  PROVE  IInv'
<1> DEFINE s == op[o].source
           p == repair[s]
           end == IF p.toIndex + PageSize < p.toRecords THEN p.toIndex + PageSize ELSE p.toRecords
           q == IF end = p.toRecords THEN NoRepair
                ELSE [p EXCEPT !.fromIndex = p.fromRecords, !.toIndex = end]
           gone == Page(p.from, p.toIndex, end)
<1>1. /\ op[o] \in Operations /\ Shape(op[o]) /\ Works(op[o]) /\ op[o].phase = "reclaim"
      /\ TypeOK /\ PageSize \in Nat /\ PageSize > 0
  BY ConstantsAssumption DEF IInv, TypeOK, ReclaimPage
<1>2. s \in Sources
  BY <1>1 DEF Shape
<1>3. /\ IsPrivate(p) /\ owner[s].rev # p.from
      /\ repair' = [repair EXCEPT ![s] = q]
      /\ rows' = rows \ gone
      /\ UNCHANGED <<owner, content, sourceOf, retired, count, pending, revision, sequence>>
  BY DEF ReclaimPage, ids
<1>4. /\ p \in Repairs /\ Valid(p) /\ p.from \in Revisions /\ p.to = p.from /\ sourceOf[p.from] = s
      /\ p.fromRecords \in Nat /\ p.toRecords \in Nat /\ p.toIndex \in Nat /\ p.toIndex <= p.toRecords
      /\ p.fromRecords = p.toRecords /\ ~IsSelected(p)
  BY <1>2, <1>3, RecordFacts, SidesTell DEF IsPrivate, IsStaging, IsReclaim
<1>5. end \in Nat /\ p.toIndex <= end /\ end <= p.toRecords
  BY <1>1, <1>4
<1>6. CASE end = p.toRecords
  <2>1. q = NoRepair
    BY <1>6
  <2>2. Go(o, op[o].then)
    BY <1>6 DEF ReclaimPage
  <2>3. op[o].then \in Phases /\ Shape([op[o] EXCEPT !.phase = op[o].then])
    BY <1>1, ThenFits
  <2>4. PICK n : SameTask(op[o], n) /\ n.phase = op[o].then /\ op' = [op EXCEPT ![o] = n]
    BY <1>1, <2>2, <2>3, SamePhase
  <2>5. n.source = s
    BY <2>4 DEF SameTask
  <2>6. /\ q \in Repairs /\ Valid(q) /\ ~IsPrivate(q) /\ ~IsSelected(q)
        /\ q.from = None /\ q.to = None
    BY <2>1, NoRepairIsNoMark DEF NoRepair
  <2>7. \A x \in Revisions, i \in Nat :
          <<x, i>> \in rows' <=> IF sourceOf[x] = s THEN Needed(owner[s].rev, q, x, i) ELSE <<x, i>> \in rows
    <3> SUFFICES ASSUME NEW x \in Revisions, NEW i \in Nat
                 PROVE  <<x, i>> \in rows' <=> IF sourceOf[x] = s THEN Needed(owner[s].rev, q, x, i)
                                                                  ELSE <<x, i>> \in rows
      OBVIOUS
    <3> HIDE DEF q, end
    <3>1. <<x, i>> \in rows' <=> <<x, i>> \in rows /\ ~(x = p.from /\ p.toIndex <= i /\ i < end)
      BY <1>3, <1>4, <1>5, InPage
    <3>2. CASE sourceOf[x] # s
      BY <1>4, <3>1, <3>2
    <3>3. CASE sourceOf[x] = s
      <4>1. <<x, i>> \in rows <=> \/ owner[s].rev = x /\ i < Len(content[x])
                                  \/ x = p.from /\ p.toIndex <= i /\ i < p.toRecords
        BY <1>2, <1>3, <1>4, <3>3, RowsOf DEF Needed
      <4> QED BY <1>3, <1>6, <2>6, <3>1, <3>3, <4>1 DEF Needed
    <3> QED BY <3>2, <3>3
  <2>8. IsFiniteSet(rows') /\ rows' \in SUBSET (Revisions \X Nat)
    BY <1>1, <1>3, FS_Subset DEF IInv, TypeOK
  <2>9. count' \in [Keys -> Nat] /\ pending' \in Nat /\ revision' \in Nat
    BY <1>1, <1>3 DEF TypeOK
  <2>10. \A x \in Revisions : q.from = x \/ q.to = x => sourceOf[x] = s
    BY <2>6, NoneIsNoId
  <2> HIDE DEF q, s, p
  <2> QED BY <1>2, <1>3, <2>4, <2>5, <2>6, <2>7, <2>8, <2>9, <2>10, Marking
<1>7. CASE end # p.toRecords
  <2>1. q = [p EXCEPT !.fromIndex = p.fromRecords, !.toIndex = end]
    BY <1>7
  <2>2. /\ q \in Repairs /\ q.from = p.from /\ q.to = p.from /\ q.fromRecords = p.toRecords
        /\ q.toRecords = p.toRecords /\ q.fromIndex = p.toRecords /\ q.toIndex = end
    BY <1>4, <1>5, <2>1 DEF Repairs
  <2> HIDE DEF q, end
  <2>3. Valid(q) /\ IsPrivate(q) /\ ~IsSelected(q)
    BY <1>4, <1>5, <1>7, <2>2, NoneIsNoId DEF Valid, IsPrivate, IsReclaim, IsSelected
  <2>4. SameTask(op[o], op[o]) /\ op' = [op EXCEPT ![o] = op[o]] /\ op[o].phase = "reclaim"
    <3>1. op' = op
      BY <1>7 DEF ReclaimPage, end
    <3> QED BY <1>1, <3>1 DEF SameTask, TypeOK
  <2>5. \A x \in Revisions, i \in Nat :
          <<x, i>> \in rows' <=> IF sourceOf[x] = s THEN Needed(owner[s].rev, q, x, i) ELSE <<x, i>> \in rows
    <3> SUFFICES ASSUME NEW x \in Revisions, NEW i \in Nat
                 PROVE  <<x, i>> \in rows' <=> IF sourceOf[x] = s THEN Needed(owner[s].rev, q, x, i)
                                                                  ELSE <<x, i>> \in rows
      OBVIOUS
    <3>1. <<x, i>> \in rows' <=> <<x, i>> \in rows /\ ~(x = p.from /\ p.toIndex <= i /\ i < end)
      BY <1>3, <1>4, <1>5, InPage
    <3>2. CASE sourceOf[x] # s
      BY <1>4, <3>1, <3>2
    <3>3. CASE sourceOf[x] = s
      <4>1. <<x, i>> \in rows <=> \/ owner[s].rev = x /\ i < Len(content[x])
                                  \/ x = p.from /\ p.toIndex <= i /\ i < p.toRecords
        BY <1>2, <1>3, <1>4, <3>3, RowsOf DEF Needed
      <4>2. Needed(owner[s].rev, q, x, i) <=> \/ owner[s].rev = x /\ i < Len(content[x])
                                              \/ x = p.from /\ end <= i /\ i < p.toRecords
        BY <2>2, <2>3 DEF Needed
      <4> QED BY <1>3, <1>4, <1>5, <3>1, <3>3, <4>1, <4>2
    <3> QED BY <3>2, <3>3
  <2>6. IsFiniteSet(rows') /\ rows' \in SUBSET (Revisions \X Nat)
    BY <1>1, <1>3, FS_Subset DEF IInv, TypeOK
  <2>7. count' \in [Keys -> Nat] /\ pending' \in Nat /\ revision' \in Nat
    BY <1>1, <1>3 DEF TypeOK
  <2>8. Marks(repair[s], q.from)
    BY <1>3, <2>2 DEF Marks
  <2>9. /\ \A x \in Revisions : q.from = x \/ q.to = x => sourceOf[x] = s
        /\ q.from # owner[s].rev
    BY <1>3, <1>4, <2>2
  <2> HIDE DEF s, p
  <2> QED BY <1>2, <1>3, <2>2, <2>3, <2>4, <2>5, <2>6, <2>7, <2>8, <2>9, Marking
<1> QED BY <1>6, <1>7

LEMMA ShiftMoves ==
  ASSUME NEW p \in Repairs, NEW k \in Nat, NEW m \in Nat
  PROVE  LET q == Shift(p, k, m) IN
         /\ q \in Repairs /\ q.from = p.from /\ q.to = p.to /\ q.fromRecords = p.fromRecords
         /\ q.toRecords = p.toRecords /\ q.fromIndex = p.fromIndex + k /\ q.toIndex = p.toIndex + m
<1> DEFINE a == p.fromIndex + k
           b == p.toIndex + m
<1>1. a \in Nat /\ b \in Nat
  BY DEF Repairs
<1>2. Shift(p, k, m) = [p EXCEPT !.fromIndex = a, !.toIndex = b]
  BY DEF Shift
<1> HIDE DEF a, b
<1>3. /\ Shift(p, k, m) \in Repairs /\ Shift(p, k, m).from = p.from /\ Shift(p, k, m).to = p.to
      /\ Shift(p, k, m).fromRecords = p.fromRecords /\ Shift(p, k, m).toRecords = p.toRecords
      /\ Shift(p, k, m).fromIndex = a /\ Shift(p, k, m).toIndex = b
  BY <1>1, <1>2 DEF Repairs
<1> QED BY <1>3 DEF a, b

LEMMA RepairPageKeeps ==
  ASSUME IInv, NEW o \in Ops, NEW k \in 0 .. PageSize, NEW m \in 0 .. PageSize, RepairPage(o, k, m)
  PROVE  IInv'
<1> DEFINE s == op[o].source
           p == repair[s]
           next == p.fromIndex + k
           q == Shift(p, k, m)
           taken == Page(p.from, p.fromIndex, p.fromIndex + k)
           given == Page(p.to, p.toIndex, p.toIndex + m)
           over == q.fromIndex = q.fromRecords /\ q.toIndex = q.toRecords
<1>1. /\ op[o] \in Operations /\ Shape(op[o]) /\ op[o].phase = "repair"
      /\ TypeOK /\ PageSize \in Nat
  BY ConstantsAssumption DEF IInv, TypeOK, RepairPage
<1>2. s \in Sources /\ k \in Nat /\ m \in Nat
  BY <1>1 DEF Shape
<1>3. /\ IsSelected(p) /\ pending > 0
      /\ next <= p.fromRecords /\ p.toIndex + m <= p.toRecords
      /\ \A x \in Keys : Covered(x, taken)
      /\ count' = [x \in Keys |->
           (count[x] - Cardinality(With(taken, x))) + Cardinality(With(given, x))]
      /\ rows' = rows \ taken
      /\ UNCHANGED <<owner, content, sourceOf, retired, sequence>>
  BY DEF RepairPage, ids
<1>4. /\ p \in Repairs /\ Valid(p) /\ ~IsPrivate(p)
      /\ p.fromRecords \in Nat /\ p.fromIndex \in Nat /\ p.toRecords \in Nat /\ p.toIndex \in Nat
      /\ p.from = None => p.fromRecords = 0
      /\ \A r \in Revisions : p.from = r \/ p.to = r => sourceOf[r] = s
      /\ p.to = owner[s].rev /\ p.from # p.to
      /\ p.to # None => p.toRecords = Len(content[p.to])
  BY <1>2, <1>3, RecordFacts DEF Recorded, IsSelected
<1>5. /\ q \in Repairs /\ Valid(q) /\ IsSelected(q) /\ ~IsPrivate(q)
      /\ q.from = p.from /\ q.to = p.to /\ q.fromRecords = p.fromRecords
      /\ q.toRecords = p.toRecords /\ q.fromIndex = next
  <2>1. /\ q \in Repairs /\ q.from = p.from /\ q.to = p.to /\ q.fromRecords = p.fromRecords
        /\ q.toRecords = p.toRecords /\ q.fromIndex = next /\ q.toIndex = p.toIndex + m
    BY <1>2, <1>4, ShiftMoves
  <2> HIDE DEF q
  <2> QED BY <1>3, <1>4, <2>1, SidesTell DEF Valid
<1>6. ASSUME NEW x \in Revisions, NEW i \in Nat
      PROVE  /\ sourceOf[x] # s => (<<x, i>> \in rows' <=> <<x, i>> \in rows)
             /\ sourceOf[x] = s =>
                  (<<x, i>> \in rows' <=>
                     \/ owner[s].rev = x /\ i < Len(content[x])
                     \/ x = p.from /\ next <= i /\ i < p.fromRecords)
  <2>1. <<x, i>> \in rows' <=> <<x, i>> \in rows /\ ~(x = p.from /\ p.fromIndex <= i /\ i < next)
    <3>1. rows' = rows \ taken
      BY <1>3
    <3>2. p.fromIndex \in Int /\ next \in Int
      BY <1>2, <1>4
    <3>3. taken = Page(p.from, p.fromIndex, next)
      OBVIOUS
    <3> HIDE DEF p, next, taken
    <3>4. <<x, i>> \in taken <=> x = p.from /\ p.fromIndex <= i /\ i < next
      BY <3>2, <3>3, InPage
    <3> QED BY <3>1, <3>4
  <2>2. CASE sourceOf[x] # s
    BY <1>4, <2>1, <2>2
  <2>3. CASE sourceOf[x] = s
    <3>1. <<x, i>> \in rows <=> \/ owner[s].rev = x /\ i < Len(content[x])
                                \/ x = p.from /\ p.fromIndex <= i /\ i < p.fromRecords
      BY <1>2, <1>3, <1>4, <2>3, RowsOf DEF Needed
    <3>2. p.from # owner[s].rev
      BY <1>4
    <3>3. p.fromIndex \in Nat /\ next \in Nat /\ p.fromIndex <= next
      <4>1. p.fromIndex \in Nat /\ k \in Nat
        BY <1>2, <1>4
      <4> HIDE DEF p
      <4> QED BY <4>1
    <3> HIDE DEF next
    <3> QED BY <2>1, <2>3, <3>1, <3>2, <3>3
  <2> QED BY <2>2, <2>3
<1>7. IsFiniteSet(rows') /\ rows' \in SUBSET (Revisions \X Nat)
  BY <1>1, <1>3, FS_Subset DEF IInv, TypeOK
<1>8. count' \in [Keys -> Nat]
  <2>1. ASSUME NEW x \in Keys
        PROVE  (count[x] - Cardinality(With(taken, x))) + Cardinality(With(given, x)) \in Nat
    <3>1. IsFiniteSet(taken) /\ IsFiniteSet(given)
      BY <1>2, <1>4, PageFinite
    <3> HIDE DEF taken, given
    <3>2. With(taken, x) \subseteq taken /\ With(given, x) \subseteq given
      BY DEF With
    <3>3. Cardinality(With(taken, x)) \in Nat /\ Cardinality(With(given, x)) \in Nat
      BY <3>1, <3>2, FS_Subset, FS_CardinalityType
    <3>4. count[x] \in Nat /\ Cardinality(With(taken, x)) <= count[x]
      BY <1>1, <1>3 DEF TypeOK, Covered
    <3> QED BY <3>3, <3>4
  <2> HIDE DEF taken, given
  <2> QED BY <1>3, <2>1
<1> HIDE DEF next, taken, given
<1>9. CASE over
  <2>1. /\ repair' = [repair EXCEPT ![s] = NoRepair] /\ pending' = pending - 1
        /\ revision' = revision + 1 /\ Go(o, op[o].then)
    BY <1>9 DEF RepairPage
  <2>2. op[o].then \in Phases /\ Shape([op[o] EXCEPT !.phase = op[o].then])
    BY <1>1, ThenFits
  <2>3. PICK n : SameTask(op[o], n) /\ n.phase = op[o].then /\ op' = [op EXCEPT ![o] = n]
    BY <1>1, <2>1, <2>2, SamePhase
  <2>4. n.source = s
    BY <2>3 DEF SameTask
  <2>5. /\ NoRepair \in Repairs /\ Valid(NoRepair) /\ ~IsPrivate(NoRepair) /\ ~IsSelected(NoRepair)
        /\ NoRepair.from = None /\ NoRepair.to = None
    BY NoRepairIsNoMark DEF NoRepair
  <2>6. \A x \in Revisions, i \in Nat :
          <<x, i>> \in rows' <=> IF sourceOf[x] = s THEN Needed(owner[s].rev, NoRepair, x, i)
                                                   ELSE <<x, i>> \in rows
    <3>1. next = p.fromRecords
      BY <1>5, <1>9
    <3>2. ASSUME NEW x \in Revisions, NEW i \in Nat
          PROVE  ~(next <= i /\ i < p.fromRecords)
      BY <1>4, <3>1
    <3>3. ASSUME NEW x \in Revisions, NEW i \in Nat
          PROVE  Needed(owner[s].rev, NoRepair, x, i) <=> owner[s].rev = x /\ i < Len(content[x])
      BY <2>5 DEF Needed
    <3> QED BY <1>6, <3>2, <3>3
  <2>7. pending' \in Nat /\ revision' \in Nat
    BY <1>1, <1>3, <2>1 DEF TypeOK
  <2>8. \A x \in Revisions : NoRepair.from = x \/ NoRepair.to = x => sourceOf[x] = s
    BY <2>5, NoneIsNoId
  <2>9. /\ repair' = [repair EXCEPT ![s] = NoRepair]
        /\ UNCHANGED <<owner, content, sourceOf, retired, sequence>>
    BY <1>3, <2>1
  <2> HIDE DEF q, s, p, over
  <2>10. n.phase \in {"sweep", "retire"} => n.source = s /\ ~IsPrivate(NoRepair)
    BY <2>4, <2>5
  <2>11. /\ IsPrivate(NoRepair) => NoRepair.from # owner[s].rev
                                   /\ (<<s, NoRepair.from>> \in retired => Marks(repair[s], NoRepair.from))
         /\ IsSelected(NoRepair) => /\ NoRepair.to = owner[s].rev
                                    /\ NoRepair.from # NoRepair.to
                                    /\ NoRepair.to # None => NoRepair.toRecords = Len(content[NoRepair.to])
    BY <2>5
  <2>12. s \in Sources /\ NoRepair \in Repairs /\ Valid(NoRepair)
    BY <1>2, <2>5
  <2>13. SameTask(op[o], n) /\ op' = [op EXCEPT ![o] = n]
    BY <2>3
  <2> QED BY <1>7, <1>8, <2>6, <2>7, <2>8, <2>9, <2>10, <2>11, <2>12, <2>13, Marking
<1>10. CASE ~over
  <2>1. repair' = [repair EXCEPT ![s] = q] /\ UNCHANGED <<pending, revision, op>>
    BY <1>10 DEF RepairPage
  <2>2. SameTask(op[o], op[o]) /\ op' = [op EXCEPT ![o] = op[o]]
    BY <1>1, <2>1 DEF SameTask, TypeOK
  <2> HIDE DEF q
  <2>3. \A x \in Revisions, i \in Nat :
          <<x, i>> \in rows' <=> IF sourceOf[x] = s THEN Needed(owner[s].rev, q, x, i) ELSE <<x, i>> \in rows
    BY <1>5, <1>6 DEF Needed
  <2>4. pending' \in Nat /\ revision' \in Nat
    BY <1>1, <2>1 DEF TypeOK
  <2>5. /\ \A x \in Revisions : q.from = x \/ q.to = x => sourceOf[x] = s
        /\ q.to = owner[s].rev /\ q.from # q.to
        /\ q.to # None => q.toRecords = Len(content[q.to])
    BY <1>4, <1>5
  <2> HIDE DEF s, p
  <2> QED BY <1>1, <1>2, <1>3, <1>5, <1>7, <1>8, <2>1, <2>2, <2>3, <2>4, <2>5, Marking
<1> QED BY <1>9, <1>10
-----------------------------------------------------------------------------
(* The selections. *)
LEMMA JournalLeads ==
  ASSUME IInv, NEW s \in Sources, NEW r \in Revisions \cup {None}, r # owner[s].rev
  PROVE  LET p == Journal(s, r) IN
         /\ p \in Repairs /\ Valid(p) /\ IsSelected(p) /\ ~IsPrivate(p)
         /\ p.from = owner[s].rev /\ p.fromIndex = 0
         /\ p.from # None => p.fromRecords = Len(content[p.from])
         /\ p.to = r
         /\ p.to # None => p.toRecords = Len(content[p.to])
<1> DEFINE p == Journal(s, r)
           v == owner[s].rev
           fromRecords == IF v = None THEN 0 ELSE Len(content[v])
           toRecords == IF r = None THEN 0 ELSE Len(content[r])
<1>1. v \in Revisions \cup {None} /\ (owner[s].state = "complete" <=> v # None)
  BY DEF IInv, TypeOK, Owners, Owned
<1>2. \A x \in Revisions : Len(content[x]) \in Nat
  BY DEF IInv, TypeOK
<1>3. fromRecords \in Nat /\ toRecords \in Nat
  BY <1>1, <1>2
<1>4. p = [from |-> v, fromRecords |-> fromRecords, fromIndex |-> 0,
           to |-> r, toRecords |-> toRecords, toIndex |-> 0]
  BY <1>1 DEF Journal
<1>5. /\ v = None => fromRecords = 0
      /\ r = None => toRecords = 0
      /\ v # None => fromRecords = Len(content[v])
      /\ r # None => toRecords = Len(content[r])
  OBVIOUS
<1> HIDE DEF fromRecords, toRecords, p
<1>6. /\ p \in Repairs /\ p.from = v /\ p.fromIndex = 0 /\ p.fromRecords = fromRecords
      /\ p.to = r /\ p.toRecords = toRecords /\ p.toIndex = 0
  BY <1>1, <1>3, <1>4 DEF Repairs
<1>7. Valid(p)
  BY <1>3, <1>5, <1>6 DEF Valid
<1>8. IsSelected(p) /\ ~IsPrivate(p)
  BY <1>6, SidesTell
<1> QED BY <1>5, <1>6, <1>7, <1>8 DEF p

(* Equal counts are not moved: the old rows are reclaimed instead. *)
LEMMA ActivateWriteKeeps ==
  ASSUME IInv, NEW o \in Ops, ActivateWrite(o)
  PROVE  IInv'
<1> DEFINE s == op[o].source
           r == op[o].rev
           v == owner[s].rev
           old == op[o].old
           phase == IF CountsReused(o) THEN "reclaim" ELSE "repair"
           n == [op[o] EXCEPT !.phase = phase, !.then = "done"]
           q == IF CountsReused(o) THEN ReclaimOf(old, Len(content[old])) ELSE Journal(s, r)
<1>1. /\ op[o] \in Operations /\ Shape(op[o]) /\ Works(op[o]) /\ op[o].phase = "activate"
      /\ op[o].kind = "write" /\ TypeOK
  BY DEF IInv, TypeOK, ActivateWrite
<1>2. Early(op[o]) /\ s \in Sources /\ r \in Revisions /\ r # None
  BY <1>1, NoneIsNoId DEF Shape, Early
<1>3. /\ sourceOf[r] = s /\ v # r /\ <<s, r>> \notin retired
      /\ old # None /\ owner[s].seq = op[o].base => owner[s].state = "complete" /\ v = old
  BY <1>1, <1>2 DEF Works, Early
<1>4. /\ owner[s].seq = op[o].base /\ Select(s, "complete", r)
      /\ repair[s] = StagingOf(r, Len(content[r]))
      /\ repair' = [repair EXCEPT ![s] = q] /\ op' = [op EXCEPT ![o] = n]
      /\ pending' \in {pending, pending + 1}
      /\ UNCHANGED <<content, sourceOf, rows, count>>
  BY DEF ActivateWrite, OwnStaging, ids
<1>5. pending' \in Nat /\ Len(content[r]) \in Nat
  BY <1>1, <1>2, <1>4 DEF TypeOK
<1>6. phase \in {"repair", "reclaim"} /\ phase \in Phases
  BY DEF Phases
<1> HIDE DEF phase
<1>7. /\ n \in Operations /\ n.phase = phase /\ n.then = "done" /\ n.kind = op[o].kind
      /\ n.source = op[o].source /\ n.rev = op[o].rev /\ n.base = op[o].base
  BY <1>1, <1>6 DEF Operations, Phases
<1> HIDE DEF n
<1>8. Shape(n)
  BY <1>1, <1>2, <1>6, <1>7 DEF Shape, Early
<1>9. v # None => v \in Revisions /\ sourceOf[v] = s /\ Len(content[v]) \in Nat /\ Len(content[v]) > 0
  <2>1. Owned(s) /\ Drawn /\ v \in Revisions \cup {None} /\ content \in [Revisions -> Seq(Keys)]
    BY <1>2 DEF IInv, TypeOK, Owners
  <2> HIDE DEF s
  <2> SUFFICES ASSUME v # None
               PROVE  v \in Revisions /\ sourceOf[v] = s /\ Len(content[v]) \in Nat /\ Len(content[v]) > 0
    OBVIOUS
  <2>2. v \in Revisions /\ sourceOf[v] = s
    BY <2>1 DEF Owned
  <2> HIDE DEF v
  <2>3. Len(content[v]) > 0
    BY <1>2, <2>1, <2>2, NoneIsNoId DEF Drawn
  <2> QED BY <2>1, <2>2, <2>3
<1>10. ASSUME NEW x \in Revisions, NEW i \in Nat, sourceOf[x] = s
       PROVE  <<x, i>> \in rows <=> \/ v = x /\ i < Len(content[x])
                                    \/ x = r /\ i < Len(content[x])
  <2>1. /\ IsPrivate(repair[s]) /\ ~IsSelected(repair[s]) /\ repair[s].from = r
        /\ repair[s].toRecords = Len(content[r]) /\ repair[s].toIndex = 0
    BY <1>2, <1>4, <1>5, StagingMarks
  <2>2. <<x, i>> \in rows <=> Needed(v, repair[s], x, i)
    BY <1>2, <1>10, RowsOf
  <2> QED BY <2>1, <2>2 DEF Needed
<1>11. RecordFits(s, r, q)
  <2>1. CASE CountsReused(o)
    <3>1. old = v /\ v # None /\ q = ReclaimOf(v, Len(content[v]))
      BY <1>3, <1>4, <2>1 DEF CountsReused
    <3> HIDE DEF q, old, v
    <3>2. /\ q \in Repairs /\ Valid(q) /\ IsPrivate(q) /\ ~IsSelected(q)
          /\ q.from = v /\ q.to = v /\ q.toRecords = Len(content[v]) /\ q.toIndex = 0
      BY <1>9, <3>1, ReclaimMarks
    <3>3. \A x \in Revisions, i \in Nat : sourceOf[x] = s => (<<x, i>> \in rows <=> Needed(r, q, x, i))
      BY <1>10, <3>2 DEF Needed
    <3> QED BY <3>2, <3>3 DEF RecordFits, v
  <2>2. CASE ~CountsReused(o)
    <3>1. q = Journal(s, r)
      BY <2>2
    <3> HIDE DEF q
    <3>2. /\ q \in Repairs /\ Valid(q) /\ IsSelected(q) /\ ~IsPrivate(q)
          /\ q.from = v /\ q.fromIndex = 0 /\ q.to = r
          /\ q.from # None => q.fromRecords = Len(content[q.from])
          /\ q.to # None => q.toRecords = Len(content[q.to])
      BY <1>2, <1>3, <3>1, JournalLeads
    <3> HIDE DEF v
    <3>3. ASSUME NEW x \in Revisions, NEW i \in Nat, sourceOf[x] = s
          PROVE  <<x, i>> \in rows <=> Needed(r, q, x, i)
      BY <1>10, <3>2, <3>3, NoneIsNoId DEF Needed
    <3> QED BY <1>3, <3>2, <3>3 DEF RecordFits, v
  <2> QED BY <2>1, <2>2
<1>12. SettlesNext(o, n)
  BY <1>1, <1>6, <1>7, <1>8 DEF SettlesNext
<1>13. Selectable(o, s, "complete", r)
  BY <1>1, <1>2, <1>3 DEF Selectable
<1> HIDE DEF q, s, r
<1> QED BY <1>2, <1>4, <1>5, <1>11, <1>12, <1>13, Selecting

(* A tombstone's journal takes the old rows out of the counts. *)
LEMMA ActivateDeleteKeeps ==
  ASSUME IInv, NEW o \in Ops, ActivateDelete(o)
  PROVE  IInv'
<1> DEFINE s == op[o].source
           v == owner[s].rev
           n == [op[o] EXCEPT !.phase = "repair", !.then = "done"]
           q == IF owner[s].state = "complete" THEN Journal(s, None) ELSE NoRepair
<1>1. /\ op[o] \in Operations /\ Shape(op[o]) /\ op[o].phase = "activate"
      /\ op[o].kind = "delete" /\ TypeOK
  BY DEF IInv, TypeOK, ActivateDelete
<1>2. s \in Sources
  BY <1>1 DEF Shape
<1>3. /\ Select(s, "tombstone", None) /\ repair[s] = NoRepair
      /\ op' = [op EXCEPT ![o] = n] /\ pending' \in {pending, pending + 1}
      /\ UNCHANGED <<content, sourceOf, rows, count>>
  BY DEF ActivateDelete, ids
<1>4. repair' = [repair EXCEPT ![s] = q]
  BY <1>1, <1>2 DEF ActivateDelete, TypeOK
<1>5. pending' \in Nat
  BY <1>1, <1>3 DEF TypeOK
<1>6. /\ n \in Operations /\ n.phase = "repair" /\ n.then = "done" /\ n.kind = op[o].kind
      /\ n.source = op[o].source /\ n.rev = op[o].rev /\ n.base = op[o].base
  BY <1>1 DEF Operations, Phases
<1> HIDE DEF n
<1>7. Shape(n) /\ n.phase \in {"repair", "reclaim"} /\ n.kind # "clean"
  BY <1>1, <1>6 DEF Shape, Early
<1>8. v \in Revisions \cup {None} /\ (owner[s].state = "complete" <=> v # None)
  BY <1>2 DEF IInv, TypeOK, Owners, Owned
<1>9. ASSUME NEW x \in Revisions, NEW i \in Nat, sourceOf[x] = s
      PROVE  <<x, i>> \in rows <=> v = x /\ i < Len(content[x])
  BY <1>2, <1>3, <1>9, RowsOf, NoRepairIsNoMark DEF Needed
<1>10. RecordFits(s, None, q)
  <2>1. CASE v # None
    <3>1. q = Journal(s, None)
      BY <1>8, <2>1
    <3> HIDE DEF q
    <3>2. /\ q \in Repairs /\ Valid(q) /\ IsSelected(q) /\ ~IsPrivate(q)
          /\ q.from = v /\ q.fromIndex = 0 /\ q.fromRecords = Len(content[v]) /\ q.to = None
      BY <1>2, <2>1, <3>1, JournalLeads
    <3> HIDE DEF v
    <3>3. ASSUME NEW x \in Revisions, NEW i \in Nat, sourceOf[x] = s
          PROVE  <<x, i>> \in rows <=> Needed(None, q, x, i)
      BY <1>9, <3>2, <3>3, NoneIsNoId DEF Needed
    <3> QED BY <2>1, <3>2, <3>3, NoneIsNoId DEF RecordFits, v
  <2>2. CASE v = None
    <3>1. q = NoRepair
      BY <1>8, <2>2
    <3> HIDE DEF q
    <3>2. /\ q \in Repairs /\ Valid(q) /\ ~IsSelected(q) /\ ~IsPrivate(q)
          /\ q.from = None /\ q.to = None
      BY <3>1, NoRepairIsNoMark DEF NoRepair
    <3>3. ASSUME NEW x \in Revisions, NEW i \in Nat, sourceOf[x] = s
          PROVE  <<x, i>> \in rows <=> Needed(None, q, x, i)
      BY <1>9, <2>2, <3>2, <3>3, NoneIsNoId DEF Needed
    <3> QED BY <3>2, <3>3, NoneIsNoId DEF RecordFits
  <2> QED BY <2>1, <2>2
<1>11. SettlesNext(o, n)
  BY <1>6, <1>7 DEF SettlesNext
<1>12. Selectable(o, s, "tombstone", None)
  BY DEF Selectable
<1> HIDE DEF q, s
<1> QED BY <1>2, <1>3, <1>4, <1>5, <1>10, <1>11, <1>12, Selecting
-----------------------------------------------------------------------------
(* A retired revision has no rows left when its cleaner sweeps: whatever   *)
(* selected or staged it took them away, or its record still names it.     *)
LEMMA NothingToSweep ==
  ASSUME IInv, NEW o \in Ops, op[o].phase \in {"sweep", "retire"}, Authorized(o)
  PROVE  {row \in rows : row[1] = op[o].rev} = {}
<1> DEFINE s == op[o].source
           r == op[o].rev
<1>1. /\ Shape(op[o]) /\ Works(op[o]) /\ TypeOK
  BY DEF IInv
<1>2. op[o].kind = "clean" /\ s \in Sources /\ r \in Revisions
  BY <1>1 DEF Shape
<1>3. <<s, r>> \in retired /\ ~Marks(repair[s], r)
  BY <1>1, <1>2 DEF Works
<1>4. sourceOf[r] = s
  BY <1>2, <1>3 DEF IInv, Owned
<1>5. /\ owner[s].rev # r
      /\ IsSelected(repair[s]) => repair[s].from # r
  BY DEF Authorized
<1>6. \A i \in Nat : <<r, i>> \notin rows
  BY <1>2, <1>3, <1>4, <1>5, RowsOf DEF Needed, Marks
<1>7. ASSUME NEW row \in rows, row[1] = r
      PROVE  FALSE
  <2>1. row \in Revisions \X Nat
    BY <1>1 DEF TypeOK
  <2>2. row = <<r, row[2]>> /\ row[2] \in Nat
    BY <1>7, <2>1
  <2> QED BY <1>6, <1>7, <2>2
<1> QED BY <1>7

LEMMA SweepPageKeeps ==
  ASSUME IInv, NEW o \in Ops, SweepPage(o)
  PROVE  IInv'
<1> DEFINE mine == {row \in rows : row[1] = op[o].rev}
           gone == {row \in mine : Cardinality({q \in mine : q[2] < row[2]}) < PageSize}
<1>1. op[o].phase = "sweep" /\ op[o].kind = "clean" /\ Works(op[o]) /\ TypeOK
  BY DEF SweepPage, IInv, Shape
<1>2. mine = {}
  BY <1>1, NothingToSweep DEF SweepPage
<1>3. rows' = rows \ gone
  BY DEF SweepPage
<1>4. gone = {}
  <2> HIDE DEF mine
  <2> QED BY <1>2
<1>5. UNCHANGED <<disk, ids, retired>>
  <2> HIDE DEF gone
  <2>1. rows' = rows
    BY <1>3, <1>4
  <2> QED BY <2>1 DEF SweepPage, disk
<1>6. Go(o, "retire")
  <2> DEFINE last == Cardinality(mine)
  <2>1. Go(o, IF last < PageSize THEN "retire" ELSE "sweep")
    BY DEF SweepPage
  <2>2. last = 0
    <3> HIDE DEF mine
    <3> QED BY <1>2, FS_EmptySet
  <2> HIDE DEF last
  <2>3. last < PageSize
    BY <2>2, ConstantsAssumption
  <2> QED BY <2>1, <2>3
<1>7. "retire" \in Phases /\ Shape([op[o] EXCEPT !.phase = "retire"])
  BY <1>1, PhaseFits
<1>8. ~Marks(repair[op[o].source], op[o].rev)
  BY <1>1 DEF Works
<1> QED BY <1>5, <1>6, <1>7, <1>8, Going

LEMMA SweepLastKeeps ==
  ASSUME IInv, NEW o \in Ops, SweepLast(o)
  PROVE  IInv'
<1> DEFINE s == op[o].source
<1>1. op[o].phase = "retire" /\ Shape(op[o]) /\ Works(op[o]) /\ TypeOK
  BY DEF SweepLast, IInv
<1>2. s \in Sources /\ ~Marks(repair[s], op[o].rev)
  BY <1>1 DEF Shape, Works
<1>3. repair' = [repair EXCEPT ![s] = repair[s]]
  BY <1>2 DEF SweepLast, Marks
<1>4. repair' = repair
  BY <1>1, <1>2, <1>3 DEF TypeOK
<1>5. Finish(o) /\ UNCHANGED <<disk, ids, retired>>
  BY <1>4 DEF SweepLast, disk
<1> QED BY <1>5, Finishing
-----------------------------------------------------------------------------
LEMMA InitKeeps == Init => IInv
<1> SUFFICES ASSUME Init
             PROVE  IInv
  OBVIOUS
<1> USE DEF Init
<1>1. Missing \in Owners /\ Missing.state = "missing" /\ Missing.rev = None /\ Missing.seq = 0
  BY DEF Missing, Owners
<1>2. TypeOK
  <2>1. <<>> \in Seq(Keys)
    OBVIOUS
  <2> QED BY <1>1, <2>1, NoRepairIsNoMark, IdleIsOperation DEF TypeOK
<1>3. \A o \in Ops : Shape(op[o]) /\ Works(op[o])
  <2>1. Works(Idle)
    BY DEF Works, Early, Idle
  <2> QED BY <2>1, IdleIsOperation
<1>4. Drawn
  BY IdleIsOperation DEF Drawn
<1>5. ASSUME NEW s \in Sources
      PROVE  Owned(s) /\ Recorded(s)
  <2>1. owner[s] = Missing /\ repair[s] = NoRepair /\ NoRepair.from = None /\ NoRepair.to = None
    BY DEF NoRepair
  <2>2. Owned(s)
    BY <1>1, <2>1, NoneIsNoId DEF Owned
  <2>3. Recorded(s)
    BY <2>1, NoRepairIsNoMark DEF Recorded
  <2> QED BY <2>2, <2>3
<1>6. IsFiniteSet(rows)
  BY FS_EmptySet
<1>7. Exact
  BY DEF Exact
<1> QED BY <1>2, <1>3, <1>4, <1>5, <1>6, <1>7 DEF IInv

LEMMA NextKeeps == IInv /\ [Next]_vars => IInv'
<1> SUFFICES ASSUME IInv, [Next]_vars
             PROVE  IInv'
  OBVIOUS
<1>1. CASE UNCHANGED vars
  <2>1. TypeOK' /\ IsFiniteSet(rows)' /\ Drawn' /\ Exact'
    BY <1>1 DEF vars, IInv, TypeOK, Drawn, Exact, Needed
  <2>2. (\A o \in Ops : Shape(op[o]) /\ Works(op[o]))'
    BY <1>1 DEF vars, IInv, Shape, Works, Early
  <2>3. (\A s \in Sources : Owned(s) /\ Recorded(s))'
    BY <1>1 DEF vars, IInv, Owned, Recorded
  <2> QED BY <2>1, <2>2, <2>3 DEF IInv
<1>2. ASSUME NEW o \in Ops, NEW s \in Sources, NEW r \in Revisions,
             (\E c \in Contents : StartWrite(o, s, r, c)) \/ StartClean(o, s, r)
      PROVE  IInv'
  BY <1>2, StartWriteKeeps, StartCleanKeeps
<1>3. ASSUME NEW o \in Ops, NEW s \in Sources, StartDelete(o, s) \/ StartSettle(o, s) \/ ScanPage(o, s)
      PROVE  IInv'
  BY <1>3, StartDeleteKeeps, StartSettleKeeps, ScanPageKeeps
<1>4. ASSUME NEW o \in Ops, RepairFinished(o) \/ ReclaimFinished(o)
      PROVE  IInv'
  <2>1. /\ op[o].phase \in {"settle", "repair", "reclaim"} /\ repair[op[o].source] = NoRepair
        /\ Go(o, op[o].then) /\ UNCHANGED <<disk, ids, retired>>
    BY <1>4 DEF RepairFinished, ReclaimFinished
  <2> QED BY <2>1, SettledKeeps
<1>5. ASSUME NEW o \in Ops, Settle(o) \/ ReclaimPage(o) \/ Prepare(o) \/ Authenticate(o)
      PROVE  IInv'
  BY <1>5, SettleKeeps, ReclaimPageKeeps, PrepareKeeps, AuthenticateKeeps
<1>6. ASSUME NEW o \in Ops, \E k, m \in 0 .. PageSize : RepairPage(o, k, m)
      PROVE  IInv'
  BY <1>6, RepairPageKeeps
<1>7. ASSUME NEW o \in Ops, \E k \in 1 .. PageSize : StagePage(o, k)
      PROVE  IInv'
  BY <1>7, StagePageKeeps
<1>8. ASSUME NEW o \in Ops, ActivateWrite(o) \/ PinDelete(o) \/ ActivateDelete(o) \/ Abandon(o)
      PROVE  IInv'
  BY <1>8, ActivateWriteKeeps, PinDeleteKeeps, ActivateDeleteKeeps, AbandonKeeps
<1>9. ASSUME NEW o \in Ops, Return(o)
      PROVE  IInv'
  BY <1>9, Finishing DEF Return
<1>10. ASSUME NEW o \in Ops, Preflight(o) \/ SweepPage(o) \/ SweepLast(o)
       PROVE  IInv'
  BY <1>10, PreflightKeeps, SweepPageKeeps, SweepLastKeeps
<1>11. ASSUME NEW o \in Ops, (\E k \in Asked : StartLookup(o, k)) \/ ReadCount(o) \/ Answer(o)
       PROVE  IInv'
  BY <1>11, StartLookupKeeps, ReadCountKeeps, AnswerKeeps
<1>12. ASSUME NEW c \in Connections, Crash(c)
       PROVE  IInv'
  BY <1>12, CrashKeeps
<1> QED BY <1>1, <1>2, <1>3, <1>4, <1>5, <1>6, <1>7, <1>8, <1>9, <1>10, <1>11, <1>12 DEF Next

LEMMA Invariance == Spec => []IInv
<1> QED BY InitKeeps, NextKeeps, PTL DEF Spec

(* The ledger's state stays well-typed, whatever repositories, sources and *)
(* projections there are: no count is ever taken below zero, and every     *)
(* cursor of a journal record stays within its side.                       *)
THEOREM TypeCorrect == Spec => []TypeOK
<1>1. IInv => TypeOK
  BY DEF IInv
<1> QED BY <1>1, Invariance, PTL

(* The rows of a selected revision are never taken away: not by the        *)
(* cleaner of another, by a reclaim after a lost race, nor by a repair.    *)
THEOREM SelectedRowsAreStored == Spec => []SelectedRowsStored
<1>1. IInv => SelectedRowsStored
  <2> SUFFICES ASSUME IInv, NEW s \in Sources, owner[s].state = "complete"
               PROVE  Page(owner[s].rev, 0, Len(content[owner[s].rev])) \subseteq rows
    BY DEF SelectedRowsStored
  <2> DEFINE v == owner[s].rev
  <2>1. v \in Revisions /\ sourceOf[v] = s
    BY DEF IInv, TypeOK, Owners, Owned
  <2>2. \A i \in Nat : i < Len(content[v]) => <<v, i>> \in rows
    BY <2>1, RowsOf DEF Needed
  <2> QED BY <2>2 DEF Page
<1> QED BY <1>1, Invariance, PTL

(* Whatever journal record a crash or another repository leaves behind,    *)
(* the rows its next page asks for are there, and a private record never   *)
(* names the selected revision: the record can always be driven to its end.*)
THEOREM RecordsAreResumable == Spec => []RecordsResumable
<1>1. IInv => RecordsResumable
  <2> SUFFICES ASSUME IInv, NEW s \in Sources
               PROVE  LET p == repair[s] IN
                      /\ IsPrivate(p) => owner[s].rev # p.from /\ Page(p.from, p.toIndex, p.toRecords) \subseteq rows
                      /\ IsSelected(p) => /\ Page(p.from, p.fromIndex, p.fromRecords) \subseteq rows
                                          /\ Page(p.to, p.toIndex, p.toRecords) \subseteq rows
    BY DEF RecordsResumable
  <2> DEFINE p == repair[s]
             v == owner[s].rev
  <2>1. /\ p \in Repairs
        /\ p.from \in Revisions \cup {None} /\ p.to \in Revisions \cup {None}
        /\ p.fromRecords \in Nat /\ p.fromIndex \in Nat /\ p.toRecords \in Nat /\ p.toIndex \in Nat
        /\ p.from = None => p.fromRecords = 0
        /\ p.to = None => p.toRecords = 0
        /\ \A r \in Revisions : p.from = r \/ p.to = r => sourceOf[r] = s
        /\ Recorded(s)
    BY RecordFacts
  <2>2. ASSUME NEW r \in Revisions, p.from = r \/ p.to = r, NEW i \in Nat
        PROVE  <<r, i>> \in rows <=> Needed(v, p, r, i)
    BY <2>1, <2>2, RowsOf
  <2> HIDE DEF p, v
  <2>3. ASSUME IsPrivate(p)
        PROVE  v # p.from /\ Page(p.from, p.toIndex, p.toRecords) \subseteq rows
    <3>1. p.from \in Revisions
      BY <2>1, <2>3, SidesTell
    <3>2. \A i \in Nat : p.toIndex <= i /\ i < p.toRecords => <<p.from, i>> \in rows
      BY <2>2, <2>3, <3>1 DEF Needed
    <3>3. v # p.from
      BY <2>1, <2>3 DEF Recorded, p, v
    <3> QED BY <2>1, <3>2, <3>3 DEF Page
  <2>4. ASSUME IsSelected(p)
        PROVE  Page(p.from, p.fromIndex, p.fromRecords) \subseteq rows
    <3>1. CASE p.from = None
      BY <2>1, <3>1 DEF Page
    <3>2. CASE p.from # None
      <4>1. \A i \in Nat : p.fromIndex <= i /\ i < p.fromRecords => <<p.from, i>> \in rows
        BY <2>1, <2>2, <2>4, <3>2 DEF Needed
      <4> QED BY <2>1, <4>1 DEF Page
    <3> QED BY <3>1, <3>2
  <2>5. ASSUME IsSelected(p)
        PROVE  Page(p.to, p.toIndex, p.toRecords) \subseteq rows
    <3>1. CASE p.to = None
      BY <2>1, <3>1 DEF Page
    <3>2. CASE p.to # None
      <4>1. p.to = v /\ p.toRecords = Len(content[p.to]) /\ p.to \in Revisions
        BY <2>1, <2>5, <3>2 DEF Recorded, p, v
      <4>2. \A i \in Nat : i < p.toRecords => <<p.to, i>> \in rows
        BY <2>2, <4>1 DEF Needed
      <4> QED BY <2>1, <4>2 DEF Page
    <3> QED BY <3>1, <3>2
  <2> QED BY <2>3, <2>4, <2>5 DEF p, v
<1> QED BY <1>1, Invariance, PTL

(* No row is left behind: each is one of a selected revision, or the       *)
(* record of its source still names its revision and will reclaim it.      *)
THEOREM RowsDoNotStray == Spec => []NoStrayRows
<1>1. IInv => NoStrayRows
  <2> SUFFICES ASSUME IInv, NEW row \in rows
               PROVE  \E s \in Sources : owner[s].rev = row[1] \/ row[1] \in {repair[s].from, repair[s].to}
    BY DEF NoStrayRows
  <2>1. PICK r \in Revisions, i \in Nat : row = <<r, i>>
    BY DEF IInv, TypeOK
  <2>2. sourceOf[r] # None /\ Needed(owner[sourceOf[r]].rev, repair[sourceOf[r]], r, i)
    BY <2>1 DEF IInv, Exact
  <2>3. sourceOf[r] \in Sources
    BY <2>2 DEF IInv, TypeOK
  <2> QED BY <2>1, <2>2, <2>3 DEF Needed
<1> QED BY <1>1, Invariance, PTL
=============================================================================
