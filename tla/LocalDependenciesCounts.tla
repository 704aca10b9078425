----------------------- MODULE LocalDependenciesCounts -----------------------
(***************************************************************************)
(* The ledger is exact for any repositories, sources, projections and page *)
(* sizes, at every moment: each count is the number of rows the sources    *)
(* contribute, and the pending counter is the number of open journals.     *)
(*                                                                         *)
(* An action changes what one source contributes, and the counts by the    *)
(* same amount.  That nothing is counted twice needs the invariant of      *)
(* LocalDependenciesProofs: what a source contributes is on disk and is of *)
(* its own revisions.                                                      *)
(*                                                                         *)
(* From exact counts follows that a lookup answers exactly: every          *)
(* selection raises the sequence, so while that is what it was when the    *)
(* lookup read the count, no owner has changed (Reading).                  *)
(***************************************************************************)
EXTENDS LocalDependenciesProofs, FunctionTheorems

All == UNION {Counted(s) : s \in Sources}
Open == {s \in Sources : IsSelected(repair[s])}

CInv == IInv /\ CountsExact
-----------------------------------------------------------------------------
(* What a source contributes. *)
LEMMA CountedIs ==
  ASSUME IInv, NEW s \in Sources
  PROVE  \A row : row \in Counted(s) => row \in rows /\ sourceOf[row[1]] = s
<1> DEFINE p == repair[s]
           v == owner[s].rev
<1>1. /\ p.from \in Revisions \cup {None} /\ p.to \in Revisions \cup {None}
      /\ p.fromRecords \in Nat /\ p.fromIndex \in Nat /\ p.toRecords \in Nat /\ p.toIndex \in Nat
      /\ p.toIndex <= p.toRecords
      /\ p.from = None => p.fromRecords = 0
      /\ p.to = None => p.toRecords = 0
      /\ \A r \in Revisions : p.from = r \/ p.to = r => sourceOf[r] = s
      /\ Recorded(s)
  BY RecordFacts
<1>2. \A r \in Revisions, i \in Nat : sourceOf[r] = s => (<<r, i>> \in rows <=> Needed(v, p, r, i))
  BY RowsOf
<1>3. /\ v \in Revisions \cup {None} /\ (owner[s].state = "complete" <=> v # None)
      /\ \A r \in Revisions : v = r => sourceOf[r] = s
      /\ \A r \in Revisions : Len(content[r]) \in Nat
  <2>1. v \in Revisions \cup {None} /\ \A r \in Revisions : Len(content[r]) \in Nat
    BY DEF IInv, TypeOK, Owners
  <2>2. /\ owner[s].state = "complete" <=> v # None
        /\ \A r \in Revisions : v = r => sourceOf[r] = s
    BY DEF IInv, Owned
  <2> QED BY <2>1, <2>2
<1>4. /\ Counted(s) = IF IsSelected(p) THEN Page(p.from, p.fromIndex, p.fromRecords) \cup Page(p.to, 0, p.toIndex)
                      ELSE IF v # None THEN Page(v, 0, Len(content[v])) ELSE {}
      /\ IsSelected(p) => p.to = v /\ (p.to # None => p.toRecords = Len(content[p.to]))
  <2>1. Counted(s) = IF IsSelected(p) THEN Page(p.from, p.fromIndex, p.fromRecords) \cup Page(p.to, 0, p.toIndex)
                     ELSE IF v # None THEN Page(v, 0, Len(content[v])) ELSE {}
    BY <1>3 DEF Counted
  <2>2. IsSelected(p) => p.to = v /\ (p.to # None => p.toRecords = Len(content[p.to]))
    BY <1>1 DEF Recorded
  <2> QED BY <2>1, <2>2
<1> HIDE DEF p, v
<1> SUFFICES ASSUME NEW row \in Counted(s)
             PROVE  row \in rows /\ sourceOf[row[1]] = s
  OBVIOUS
<1>5. CASE IsSelected(p) /\ row \in Page(p.from, p.fromIndex, p.fromRecords)
  <2>1. PICK i \in Int : row = <<p.from, i>> /\ p.fromIndex <= i /\ i < p.fromRecords
    BY <1>1, <1>5 DEF Page
  <2>2. i \in Nat /\ p.from \in Revisions
    BY <1>1, <2>1
  <2> QED BY <1>1, <1>2, <1>5, <2>1, <2>2 DEF Needed
<1>6. CASE IsSelected(p) /\ row \in Page(p.to, 0, p.toIndex)
  <2>1. PICK i \in Int : row = <<p.to, i>> /\ 0 <= i /\ i < p.toIndex
    BY <1>1, <1>6 DEF Page
  <2>2. i \in Nat /\ p.to \in Revisions /\ i < p.toRecords
    BY <1>1, <2>1
  <2> QED BY <1>1, <1>2, <1>4, <1>6, <2>1, <2>2, NoneIsNoId DEF Needed
<1>7. CASE ~IsSelected(p)
  <2>1. v # None /\ row \in Page(v, 0, Len(content[v]))
    BY <1>4, <1>7
  <2>2. PICK i \in Int : row = <<v, i>> /\ 0 <= i /\ i < Len(content[v])
    BY <2>1 DEF Page
  <2> QED BY <1>2, <1>3, <2>1, <2>2 DEF Needed
<1> QED BY <1>4, <1>5, <1>6, <1>7

LEMMA AllFinite ==
  ASSUME IInv
  PROVE  /\ IsFiniteSet(All)
         /\ \A s \in Sources : IsFiniteSet(Counted(s))
<1>1. All \in SUBSET rows /\ \A s \in Sources : Counted(s) \in SUBSET rows
  BY CountedIs DEF All
<1>2. IsFiniteSet(rows)
  BY DEF IInv
<1> QED BY <1>1, <1>2, FS_Subset

LEMMA WithFinite ==
  ASSUME NEW S, IsFiniteSet(S), NEW k
  PROVE  With(S, k) \in SUBSET S /\ IsFiniteSet(With(S, k)) /\ Cardinality(With(S, k)) \in Nat
<1>1. With(S, k) \in SUBSET S
  BY DEF With
<1> QED BY <1>1, FS_Subset, FS_CardinalityType

(* A part is exchanged for rows that are new. *)
LEMMA Exchange ==
  ASSUME NEW S, NEW out, NEW in, IsFiniteSet(S), out \in SUBSET S, IsFiniteSet(in),
         in \cap (S \ out) = {}
  PROVE  Cardinality((S \ out) \cup in) = (Cardinality(S) - Cardinality(out)) + Cardinality(in)
<1>1. S \cap out = out
  OBVIOUS
<1>2. IsFiniteSet(S \ out) /\ Cardinality(S \ out) = Cardinality(S) - Cardinality(out)
  BY <1>1, FS_Difference
<1>3. (S \ out) \cap in = {}
  OBVIOUS
<1>4. Cardinality((S \ out) \cup in) = Cardinality(S \ out) + Cardinality(in) - Cardinality({})
  BY <1>2, <1>3, FS_Union
<1>5. Cardinality({}) = 0
  BY FS_EmptySet
<1>6. Cardinality(S \ out) \in Nat /\ Cardinality(in) \in Nat
  BY <1>2, FS_CardinalityType
<1> QED BY <1>2, <1>4, <1>5, <1>6

(* Source s contributes T from now on, the others what they did. *)
LEMMA Contributing ==
  ASSUME IInv, NEW s \in Sources, NEW T, IsFiniteSet(T), NEW k,
         \A row \in T : sourceOf[row[1]] = s,
         Counted(s)' = T, \A x \in Sources : x # s => Counted(x)' = Counted(x),
         UNCHANGED content
  PROVE  Cardinality(With(All, k))' =
           (Cardinality(With(All, k)) - Cardinality(With(Counted(s), k))) + Cardinality(With(T, k))
<1> DEFINE S == With(All, k)
           out == With(Counted(s), k)
           in == With(T, k)
<1>1. IsFiniteSet(S) /\ IsFiniteSet(in)
  BY AllFinite, WithFinite
<1>2. out \in SUBSET S
  BY DEF With, All
<1>3. in \cap (S \ out) = {}
  <2>1. ASSUME NEW row \in All, sourceOf[row[1]] = s
        PROVE  row \in Counted(s)
    BY <2>1, CountedIs DEF All
  <2> QED BY <2>1 DEF With
<1>4. All' = (All \ Counted(s)) \cup T
  <2>1. ASSUME NEW x \in Sources, x # s
        PROVE  Counted(x) \cap Counted(s) = {}
    BY <2>1, CountedIs
  <2> QED BY <2>1 DEF All
<1>5. With(All, k)' = (S \ out) \cup in
  <2>1. With(All, k)' = With(All', k)
    BY DEF With, KeyOf
  <2> QED BY <1>4, <2>1 DEF With
<1> HIDE DEF S, out, in
<1>6. Cardinality((S \ out) \cup in) = (Cardinality(S) - Cardinality(out)) + Cardinality(in)
  BY <1>1, <1>2, <1>3, Exchange
<1>7. Cardinality(With(All, k))' = Cardinality((S \ out) \cup in)
  BY <1>5
<1> QED BY <1>6, <1>7 DEF S, out, in
-----------------------------------------------------------------------------
(* Actions that move no count. *)
LEMMA CountsRest ==
  ASSUME CountsExact, UNCHANGED <<owner, content, repair, count, pending>>
  PROVE  CountsExact'
  BY DEF CountsExact, Counted, With, KeyOf, Page

(* A private record takes the place of none, of another, or is dropped. *)
LEMMA CountsMarked ==
  ASSUME IInv, CountsExact, NEW s \in Sources, NEW q, ~IsSelected(q), ~IsSelected(repair[s]),
         repair' = [repair EXCEPT ![s] = q], UNCHANGED <<owner, content, count, pending>>
  PROVE  CountsExact'
<1>1. /\ repair'[s] = q
      /\ \A x \in Sources : x # s => repair'[x] = repair[x]
  BY DEF IInv, TypeOK
<1>2. \A x \in Sources : IsSelected(repair'[x]) <=> IsSelected(repair[x])
  BY <1>1
<1>3. ASSUME NEW x \in Sources
      PROVE  Counted(x)' = Counted(x)
  <2>1. CASE x = s
    BY <1>1, <2>1 DEF Counted, Page
  <2>2. CASE x # s
    BY <1>1, <2>2 DEF Counted, Page
  <2> QED BY <2>1, <2>2
<1>4. UNION {Counted(x) : x \in Sources}' = UNION {Counted(x) : x \in Sources}
  BY <1>3
<1>5. \A k \in Keys : With(UNION {Counted(x) : x \in Sources}, k)' = With(UNION {Counted(x) : x \in Sources}, k)
  BY <1>4 DEF With, KeyOf
<1>6. {x \in Sources : IsSelected(repair[x])}' = {x \in Sources : IsSelected(repair[x])}
  BY <1>2
<1> QED BY <1>5, <1>6 DEF CountsExact

(* A revision id that is drawn has no rows in the counts yet. *)
LEMMA CountsDrawn ==
  ASSUME IInv, CountsExact, NEW r \in Revisions, sourceOf[r] = None,
         \A x \in Revisions : x # r => content'[x] = content[x],
         UNCHANGED <<owner, repair, count, pending>>
  PROVE  CountsExact'
<1>1. ASSUME NEW x \in Sources
      PROVE  owner[x].rev # r
  BY NoneIsNoId DEF IInv, Owned
<1>2. ASSUME NEW x \in Sources
      PROVE  Counted(x)' = Counted(x)
  <2>1. owner[x].state = "complete" => owner[x].rev \in Revisions /\ owner[x].rev # r
    BY <1>1 DEF IInv, TypeOK, Owners, Owned
  <2> QED BY <2>1 DEF Counted, Page
<1>3. UNION {Counted(x) : x \in Sources}' = UNION {Counted(x) : x \in Sources}
  BY <1>2
<1>4. ASSUME NEW row \in UNION {Counted(x) : x \in Sources}
      PROVE  KeyOf(row)' = KeyOf(row)
  <2>1. row \in rows /\ sourceOf[row[1]] \in Sources
    BY CountedIs
  <2>2. row[1] \in Revisions /\ row[1] # r
    BY <2>1, NoneIsNoId DEF IInv, TypeOK
  <2> QED BY <2>2 DEF KeyOf
<1>5. \A k \in Keys : With(UNION {Counted(x) : x \in Sources}, k)' = With(UNION {Counted(x) : x \in Sources}, k)
  BY <1>3, <1>4 DEF With
<1> QED BY <1>5 DEF CountsExact

(* Source s contributes T from now on, and the counts know it. *)
OwnRows(s, T) == IsFiniteSet(T) /\ \A row \in T : sourceOf[row[1]] = s

CountsFollow(s, T) ==
  \A k \in Keys :
    count'[k] = (count[k] - Cardinality(With(Counted(s), k))) + Cardinality(With(T, k))

(* The record of s changes to q; a journal opens, retires or neither. *)
PendingFollows(s, q) ==
  pending' = IF IsSelected(q)
             THEN IF IsSelected(repair[s]) THEN pending ELSE pending + 1
             ELSE IF IsSelected(repair[s]) THEN pending - 1 ELSE pending

OnlyOwner(s) == \A x \in Sources : x # s => owner'[x] = owner[x]

LEMMA CountsMove ==
  ASSUME IInv, CountsExact, NEW s \in Sources, NEW T, NEW q,
         repair' = [repair EXCEPT ![s] = q], OwnRows(s, T), Counted(s)' = T, OnlyOwner(s),
         content' = content, CountsFollow(s, T), PendingFollows(s, q)
  PROVE  CountsExact'
<1> USE DEF OwnRows, CountsFollow, PendingFollows, OnlyOwner
<1>1. /\ repair'[s] = q
      /\ \A x \in Sources : x # s => repair'[x] = repair[x]
  BY DEF IInv, TypeOK
<1>2. ASSUME NEW x \in Sources, x # s
      PROVE  Counted(x)' = Counted(x)
  BY <1>1, <1>2 DEF Counted, Page
<1>3. ASSUME NEW k \in Keys
      PROVE  count'[k] = Cardinality(With(All, k))'
  <2>1. count[k] = Cardinality(With(All, k))
    BY DEF CountsExact, All
  <2>2. Cardinality(With(All, k))' =
          (Cardinality(With(All, k)) - Cardinality(With(Counted(s), k))) + Cardinality(With(T, k))
    BY <1>2, Contributing
  <2> QED BY <2>1, <2>2
<1>4. pending' = Cardinality(Open')
  <2>1. IsFiniteSet(Open) /\ pending = Cardinality(Open)
    BY ConstantsAssumption, FS_Subset DEF Open, CountsExact
  <2>2. CASE IsSelected(q)
    <3>1. Open' = Open \cup {s}
      BY <1>1, <2>2 DEF Open
    <3> QED BY <2>1, <2>2, <3>1, FS_AddElement DEF Open
  <2>3. CASE ~IsSelected(q)
    <3>1. Open' = Open \ {s}
      BY <1>1, <2>3 DEF Open
    <3> QED BY <2>1, <2>3, <3>1, FS_RemoveElement DEF Open
  <2> QED BY <2>2, <2>3
<1> QED BY <1>3, <1>4 DEF CountsExact, All, Open
-----------------------------------------------------------------------------
(* Pages: splitting one, and two that cannot meet. *)
LEMMA PageSplits ==
  ASSUME NEW r, NEW a \in Int, NEW b \in Int, NEW c \in Int, a <= b, b <= c
  PROVE  \A row : row \in Page(r, a, c) <=> row \in Page(r, a, b) \/ row \in Page(r, b, c)
  BY DEF Page

LEMMA PagesFollow ==
  ASSUME NEW r, NEW a \in Int, NEW b \in Int, NEW c \in Int
  PROVE  Page(r, a, b) \cap Page(r, b, c) = {}
  BY DEF Page

LEMMA PagesApart ==
  ASSUME NEW r, NEW q, r # q, NEW a, NEW b, NEW c, NEW d
  PROVE  Page(r, a, b) \cap Page(q, c, d) = {}
  BY DEF Page

(* Equal projections have equally many rows of each key. *)
LEMMA EqualPages ==
  ASSUME NEW r, NEW v, content[r] = content[v], NEW n \in Nat, NEW k
  PROVE  Cardinality(With(Page(r, 0, n), k)) = Cardinality(With(Page(v, 0, n), k))
<1> DEFINE S == With(Page(v, 0, n), k)
           T == With(Page(r, 0, n), k)
           f == [row \in S |-> <<r, row[2]>>]
<1>1. IsFiniteSet(S)
  BY PageFinite, WithFinite
<1>2. ASSUME NEW row \in S
      PROVE  row = <<v, row[2]>> /\ <<r, row[2]>> \in T
  BY <1>2 DEF With, Page, KeyOf
<1>3. ASSUME NEW row \in T
      PROVE  row = <<r, row[2]>> /\ <<v, row[2]>> \in S
  BY <1>3 DEF With, Page, KeyOf
<1> HIDE DEF S, T
<1>4. f \in [S -> T]
  BY <1>2
<1>5. ASSUME NEW x \in S, NEW y \in S, f[x] = f[y]
      PROVE  x = y
  <2>1. x[2] = y[2]
    BY <1>5
  <2> QED BY <1>2, <2>1
<1>6. ASSUME NEW row \in T
      PROVE  \E x \in S : f[x] = row
  <2>1. <<v, row[2]>> \in S /\ f[<<v, row[2]>>] = <<r, row[2]>>
    BY <1>3
  <2> QED BY <1>3, <2>1
<1> HIDE DEF f
<1>7. f \in Bijection(S, T)
  BY <1>4, <1>5, <1>6, Fun_IsBij
<1>8. ExistsBijection(S, T)
  BY <1>7, Fun_ExistsBij
<1> QED BY <1>1, <1>8, FS_Bijection DEF S, T
-----------------------------------------------------------------------------
(* The actions that move counts. *)
LEMMA RepairPageCounts ==
  ASSUME IInv, CountsExact, NEW o \in Ops, NEW k \in 0 .. PageSize, NEW m \in 0 .. PageSize,
         RepairPage(o, k, m), NEW s \in Sources, s = op[o].source
  PROVE  CountsExact'
<1> DEFINE p == repair[s]
           v == owner[s].rev
           next == p.fromIndex + k
           end == p.toIndex + m
           q == Shift(p, k, m)
           taken == Page(p.from, p.fromIndex, next)
           given == Page(p.to, p.toIndex, end)
           over == q.fromIndex = q.fromRecords /\ q.toIndex = q.toRecords
           new == IF over THEN NoRepair ELSE q
           C == Counted(s)
           T == (C \ taken) \cup given
<1>1. k \in Nat /\ m \in Nat /\ TypeOK
  BY ConstantsAssumption DEF IInv
<1>2. /\ IsSelected(p)
      /\ next <= p.fromRecords /\ end <= p.toRecords
      /\ count' = [x \in Keys |->
           (count[x] - Cardinality(With(taken, x))) + Cardinality(With(given, x))]
      /\ repair' = [repair EXCEPT ![s] = new]
      /\ pending' = IF over THEN pending - 1 ELSE pending
      /\ UNCHANGED <<owner, content>>
  BY DEF RepairPage, ids
<1>3. /\ p \in Repairs
      /\ p.fromRecords \in Nat /\ p.fromIndex \in Nat /\ p.toRecords \in Nat /\ p.toIndex \in Nat
      /\ p.to = None => p.toRecords = 0
      /\ p.to = v /\ p.from # p.to
      /\ p.to # None => p.toRecords = Len(content[p.to])
  BY <1>1, <1>2, RecordFacts DEF Recorded
<1> HIDE DEF p
<1>4. /\ q \in Repairs /\ q.from = p.from /\ q.to = p.to /\ q.fromRecords = p.fromRecords
      /\ q.toRecords = p.toRecords /\ q.fromIndex = next /\ q.toIndex = end
  BY <1>1, <1>3, ShiftMoves
<1>5. /\ next \in Nat /\ end \in Nat /\ p.fromIndex <= next /\ p.toIndex <= end
  BY <1>1, <1>3
<1>6. /\ p.fromIndex \in Int /\ next \in Int /\ p.fromRecords \in Int /\ next <= p.fromRecords
       /\ 0 \in Int /\ p.toIndex \in Int /\ end \in Int /\ 0 <= p.toIndex
  BY <1>2, <1>3, <1>5
<1>7. /\ Page(p.from, p.fromIndex, next) \cup Page(p.from, next, p.fromRecords)
            = Page(p.from, p.fromIndex, p.fromRecords)
       /\ Page(p.from, p.fromIndex, next) \cap Page(p.from, next, p.fromRecords) = {}
  <2> DEFINE a == p.fromIndex
             c == p.fromRecords
  <2>1. a \in Int /\ next \in Int /\ c \in Int /\ a <= next /\ next <= c
    BY <1>5, <1>6
  <2> HIDE DEF next, a, c
  <2>2. Page(p.from, a, next) \cup Page(p.from, next, c) = Page(p.from, a, c)
    BY <2>1, PageSplits
  <2>3. Page(p.from, a, next) \cap Page(p.from, next, c) = {}
    BY <2>1, PagesFollow
  <2> QED BY <2>2, <2>3 DEF a, c
<1>8. /\ Page(p.to, 0, p.toIndex) \cup given = Page(p.to, 0, end)
       /\ Page(p.to, 0, p.toIndex) \cap given = {}
  <2> DEFINE a == 0
             b == p.toIndex
  <2>1. a \in Int /\ b \in Int /\ end \in Int /\ a <= b /\ b <= end
    BY <1>5, <1>6
  <2> HIDE DEF end, a, b
  <2>2. Page(p.to, a, b) \cup Page(p.to, b, end) = Page(p.to, a, end)
    BY <2>1, PageSplits
  <2>3. Page(p.to, a, b) \cap Page(p.to, b, end) = {}
    BY <2>1, PagesFollow
  <2> QED BY <2>2, <2>3 DEF a, b
<1> HIDE DEF q, next, end
<1>9. IsSelected(q) /\ ~IsSelected(NoRepair)
  <2>1. q \in Repairs /\ q.from # q.to
    BY <1>3, <1>4
  <2> HIDE DEF p
  <2> QED BY <2>1, SidesTell, NoRepairIsNoMark
<1>10. C = Page(p.from, p.fromIndex, p.fromRecords) \cup Page(p.to, 0, p.toIndex)
  BY <1>2 DEF Counted, p
<1>11. owner[s].state = "complete" <=> v # None
  BY <1>1 DEF IInv, Owned
<1>12. T = Page(p.from, next, p.fromRecords) \cup Page(p.to, 0, end)
  <2> DEFINE A == Page(p.from, p.fromIndex, p.fromRecords)
             B == Page(p.to, 0, p.toIndex)
             D == Page(p.from, next, p.fromRecords)
             E == Page(p.to, 0, end)
  <2>1. A \ taken = D
    BY <1>7
  <2>2. B \cup given = E
    BY <1>8
  <2>3. B \cap taken = {}
    BY <1>3, PagesApart
  <2>4. C = A \cup B
    BY <1>10
  <2> HIDE DEF A, B, D, E, C, taken, given
  <2>5. T = D \cup E
    BY <2>1, <2>2, <2>3, <2>4
  <2> QED BY <2>5 DEF D, E
<1>13. /\ repair'[s] = new /\ owner'[s] = owner[s]
  BY <1>1, <1>2 DEF TypeOK
<1>14. Counted(s)' = T
  <2>1. CASE over
    <3>1. /\ next = p.fromRecords /\ end = p.toRecords
      BY <1>4, <2>1
    <3>2. Page(p.from, next, p.fromRecords) = {}
      BY <1>5, <3>1 DEF Page
    <3>3. Counted(s)' = IF v # None THEN Page(v, 0, Len(content[v])) ELSE {}
      BY <1>2, <1>9, <1>11, <1>13, <2>1 DEF Counted, Page
    <3>4. CASE v # None
      BY <1>3, <1>12, <3>1, <3>2, <3>3, <3>4
    <3>5. CASE v = None
      <4>1. Page(p.to, 0, end) = {}
        BY <1>3, <3>1, <3>5 DEF Page
      <4> QED BY <1>12, <3>2, <3>3, <3>5, <4>1
    <3> QED BY <3>4, <3>5
  <2>2. CASE ~over
    <3>1. repair'[s] = q
      BY <1>13, <2>2
    <3>2. Counted(s)' = Page(q.from, q.fromIndex, q.fromRecords) \cup Page(q.to, 0, q.toIndex)
      BY <1>9, <3>1 DEF Counted, Page
    <3> QED BY <1>4, <1>12, <3>2
  <2> QED BY <2>1, <2>2
<1>15. IsFiniteSet(C) /\ IsFiniteSet(given) /\ taken \in SUBSET C /\ given \cap (C \ taken) = {}
  <2>1. IsFiniteSet(C) /\ IsFiniteSet(given)
    BY <1>1, <1>3, <1>5, AllFinite, PageFinite
  <2>2. taken \in SUBSET Page(p.from, p.fromIndex, p.fromRecords)
    BY <1>7
  <2>3. given \cap Page(p.from, p.fromIndex, p.fromRecords) = {}
    BY <1>3, PagesApart
  <2>4. given \cap Page(p.to, 0, p.toIndex) = {}
    BY <1>8
  <2> HIDE DEF taken, given, C
  <2> QED BY <1>10, <2>1, <2>2, <2>3, <2>4
<1> HIDE DEF taken, given, C
<1>16. ASSUME NEW x \in Keys
       PROVE  count'[x] = (count[x] - Cardinality(With(C, x))) + Cardinality(With(T, x))
  <2> DEFINE c == With(C, x)
             out == With(taken, x)
             in == With(given, x)
  <2>1. With(T, x) = (c \ out) \cup in
    BY DEF With
  <2>2. out \in SUBSET c /\ in \cap (c \ out) = {}
    BY <1>15 DEF With
  <2>3. IsFiniteSet(taken)
    BY <1>15, FS_Subset
  <2>4. /\ IsFiniteSet(c) /\ IsFiniteSet(in)
        /\ Cardinality(c) \in Nat /\ Cardinality(out) \in Nat /\ Cardinality(in) \in Nat
    BY <1>15, <2>3, WithFinite
  <2>5. count[x] \in Nat /\ count'[x] = (count[x] - Cardinality(out)) + Cardinality(in)
    BY <1>1, <1>2 DEF TypeOK
  <2> HIDE DEF c, out, in
  <2>6. Cardinality((c \ out) \cup in) = (Cardinality(c) - Cardinality(out)) + Cardinality(in)
    BY <2>2, <2>4, Exchange
  <2>7. count'[x] = (count[x] - Cardinality(c)) + Cardinality((c \ out) \cup in)
    BY <2>4, <2>5, <2>6
  <2> QED BY <2>1, <2>7 DEF c
<1>17. IsFiniteSet(T) /\ \A row \in T : sourceOf[row[1]] = s
  <2>1. IsFiniteSet(C \ taken)
    BY <1>15, FS_Difference
  <2>2. IsFiniteSet(T)
    BY <1>15, <2>1, FS_Union
  <2>3. \A row \in C : sourceOf[row[1]] = s
    BY <1>1, CountedIs DEF C
  <2>4. \A row \in given : sourceOf[row[1]] = s
    <3> SUFFICES ASSUME NEW row \in given
                 PROVE  sourceOf[row[1]] = s
      OBVIOUS
    <3>1. row[1] = p.to /\ p.toIndex < end
      BY <1>3, <1>5 DEF given, Page
    <3>2. p.to # None /\ p.to \in Revisions
      BY <1>2, <1>3, <1>5, <3>1 DEF Repairs
    <3> QED BY <1>1, <3>1, <3>2, RecordFacts DEF p
  <2> QED BY <2>2, <2>3, <2>4
<1>18. CountsFollow(s, T) /\ OwnRows(s, T)
  <2> HIDE DEF T
  <2> QED BY <1>16, <1>17 DEF C, CountsFollow, OwnRows
<1>19. OnlyOwner(s) /\ content' = content
  BY <1>2 DEF OnlyOwner
<1>20. PendingFollows(s, new)
  <2>1. IsSelected(repair[s])
    BY <1>2 DEF p
  <2>2. IsSelected(new) <=> ~over
    BY <1>9
  <2> HIDE DEF over, new
  <2> QED BY <1>2, <2>1, <2>2 DEF PendingFollows
<1> HIDE DEF T, new
<1> QED BY <1>2, <1>14, <1>18, <1>19, <1>20, CountsMove

(* Opening a journal moves no count yet: the old rows are still counted.   *)
LEMMA JournalCounts ==
  ASSUME IInv, CountsExact, NEW s \in Sources, NEW r \in Revisions \cup {None}, r # owner[s].rev,
         ~IsSelected(repair[s]), repair' = [repair EXCEPT ![s] = Journal(s, r)],
         OnlyOwner(s), content' = content, count' = count, pending' = pending + 1
  PROVE  CountsExact'
<1> DEFINE q == Journal(s, r)
           v == owner[s].rev
           T == Counted(s)
<1>1. q \in Repairs /\ IsSelected(q) /\ q.from = v /\ q.fromIndex = 0 /\ q.to = r
  BY JournalLeads
<1>2. q.toIndex = 0 /\ (v = None => q.fromRecords = 0) /\ (v # None => q.fromRecords = Len(content[v]))
  <2>1. owner[s].state = "complete" <=> v # None
    BY DEF IInv, Owned
  <2> QED BY <2>1 DEF Journal
<1>3. repair'[s] = q
  BY DEF IInv, TypeOK
<1> HIDE DEF q
<1>4. T = IF v # None THEN Page(v, 0, Len(content[v])) ELSE {}
  <2>1. owner[s].state = "complete" <=> v # None
    BY DEF IInv, Owned
  <2> QED BY <2>1 DEF Counted
<1>5. Counted(s)' = Page(q.from, 0, q.fromRecords) \cup Page(q.to, 0, 0)
  BY <1>1, <1>2, <1>3 DEF Counted, Page
<1>6. Page(q.to, 0, 0) = {}
  BY DEF Page
<1>7. Counted(s)' = T
  <2>1. CASE v # None
    BY <1>1, <1>2, <1>4, <1>5, <1>6, <2>1
  <2>2. CASE v = None
    <3>1. Page(q.from, 0, 0) = {}
      BY DEF Page
    <3> QED BY <1>2, <1>4, <1>5, <1>6, <2>2, <3>1
  <2> QED BY <2>1, <2>2
<1>8. OwnRows(s, T)
  BY AllFinite, CountedIs DEF OwnRows
<1>9. CountsFollow(s, T)
  <2> SUFFICES ASSUME NEW k \in Keys
               PROVE  count'[k] = (count[k] - Cardinality(With(T, k))) + Cardinality(With(T, k))
    BY DEF CountsFollow
  <2>1. count[k] \in Nat /\ Cardinality(With(T, k)) \in Nat
    BY <1>8, WithFinite DEF IInv, TypeOK, OwnRows
  <2> QED BY <2>1
<1>10. PendingFollows(s, q)
  BY <1>1 DEF PendingFollows
<1>11. repair' = [repair EXCEPT ![s] = q]
  BY DEF q
<1> HIDE DEF T
<1> QED BY <1>7, <1>8, <1>9, <1>10, <1>11, CountsMove

(* Reusing the counts of an equal projection moves none.                   *)
LEMMA ReuseCounts ==
  ASSUME IInv, CountsExact, NEW s \in Sources, NEW r \in Revisions, sourceOf[r] = s,
         owner[s].rev # None, content[owner[s].rev] = content[r], ~IsSelected(repair[s]),
         NEW q, ~IsSelected(q), repair' = [repair EXCEPT ![s] = q],
         owner'[s].rev = r, owner'[s].state = "complete",
         OnlyOwner(s), content' = content, count' = count, pending' = pending
  PROVE  CountsExact'
<1> DEFINE v == owner[s].rev
           n == Len(content[r])
           T == Page(r, 0, n)
<1>1. n \in Nat /\ owner[s].state = "complete"
  <2>1. n \in Nat
    BY DEF IInv, TypeOK
  <2>2. owner[s].state = "complete"
    BY DEF IInv, Owned
  <2> QED BY <2>1, <2>2
<1>2. Counted(s) = Page(v, 0, n)
  BY <1>1 DEF Counted
<1>3. repair'[s] = q
  BY DEF IInv, TypeOK
<1>4. Counted(s)' = T
  BY <1>3 DEF Counted, Page
<1> HIDE DEF n
<1>5. OwnRows(s, T)
  <2>1. IsFiniteSet(T)
    BY <1>1, PageFinite
  <2> QED BY <2>1 DEF Page, OwnRows
<1>6. CountsFollow(s, T)
  <2> SUFFICES ASSUME NEW k \in Keys
               PROVE  count'[k] = (count[k] - Cardinality(With(Counted(s), k))) + Cardinality(With(T, k))
    BY DEF CountsFollow
  <2>1. Cardinality(With(T, k)) = Cardinality(With(Page(v, 0, n), k))
    <3> HIDE DEF v
    <3>1. content[r] = content[v]
      BY DEF v
    <3> QED BY <1>1, <3>1, EqualPages
  <2>2. count[k] \in Nat /\ Cardinality(With(T, k)) \in Nat
    BY <1>5, WithFinite DEF IInv, TypeOK, OwnRows
  <2> QED BY <1>2, <2>1, <2>2
<1>7. PendingFollows(s, q)
  BY DEF PendingFollows
<1> HIDE DEF T
<1> QED BY <1>4, <1>5, <1>6, <1>7, CountsMove

LEMMA StagePageCounts ==
  ASSUME IInv, CountsExact, NEW o \in Ops, NEW k \in 1 .. PageSize, StagePage(o, k),
         NEW s \in Sources, s = op[o].source
  PROVE  CountsExact'
<1> DEFINE n == op[o].staged + k
           q == StagingOf(op[o].rev, n)
<1>1. op[o] \in Operations /\ Shape(op[o]) /\ op[o].phase = "stage"
  BY DEF IInv, TypeOK, StagePage
<1>2. op[o].rev \in Revisions /\ n \in Nat
  BY <1>1, ConstantsAssumption DEF Shape, Early, Operations
<1>3. ~IsSelected(q)
  BY <1>2, StagingMarks
<1>4. ~IsSelected(repair[s])
  BY NoRepairIsNoMark DEF StagePage, MarkerAllows, IsSelected, IsPrivate
<1>5. /\ repair' = [repair EXCEPT ![s] = q]
      /\ UNCHANGED <<owner, content, count, pending>>
  BY DEF StagePage, ids
<1> HIDE DEF q
<1> QED BY <1>3, <1>4, <1>5, CountsMarked

LEMMA ReclaimPageCounts ==
  ASSUME IInv, CountsExact, NEW o \in Ops, ReclaimPage(o), NEW s \in Sources, s = op[o].source
  PROVE  CountsExact'
<1> DEFINE p == repair[s]
           end == IF p.toIndex + PageSize < p.toRecords THEN p.toIndex + PageSize ELSE p.toRecords
           next == [p EXCEPT !.fromIndex = p.fromRecords, !.toIndex = end]
           q == IF end = p.toRecords THEN NoRepair ELSE next
<1>1. /\ IsPrivate(p)
      /\ repair' = [repair EXCEPT ![s] = q]
      /\ UNCHANGED <<owner, content, count, pending>>
  BY DEF ReclaimPage, ids
<1>2. /\ p \in Repairs /\ p.from # None /\ p.from = p.to /\ p.fromRecords = p.toRecords
      /\ p.fromRecords \in Nat /\ p.toIndex \in Nat /\ p.toIndex <= p.toRecords /\ ~IsSelected(p)
  BY <1>1, RecordFacts, SidesTell DEF IsPrivate, IsStaging, IsReclaim
<1>3. PageSize \in Nat /\ PageSize > 0
  BY ConstantsAssumption
<1>4. end \in Nat /\ end <= p.toRecords
  BY <1>2, <1>3
<1> HIDE DEF end, p
<1>5. CASE end = p.toRecords
  <2>1. ~IsSelected(q)
    BY <1>5, NoRepairIsNoMark
  <2> HIDE DEF q
  <2> QED BY <1>1, <1>2, <2>1, CountsMarked DEF p
<1>6. CASE end # p.toRecords
  <2>1. /\ next.from = p.from /\ next.to = p.to /\ next.fromRecords = p.fromRecords
        /\ next.toRecords = p.toRecords /\ next.fromIndex = p.fromRecords /\ next.toIndex = end
    BY <1>2 DEF Repairs
  <2>2. q = next
    BY <1>6
  <2> HIDE DEF next, q
  <2>3. ~IsSelected(q)
    BY <1>2, <1>4, <1>6, <2>1, <2>2 DEF IsSelected, IsPrivate, IsReclaim
  <2> QED BY <1>1, <1>2, <2>3, CountsMarked DEF p
<1> QED BY <1>5, <1>6

LEMMA SweepLastCounts ==
  ASSUME IInv, CountsExact, NEW o \in Ops, SweepLast(o)
  PROVE  CountsExact'
<1> DEFINE s == op[o].source
<1>1. op[o].phase = "retire" /\ Shape(op[o]) /\ Works(op[o]) /\ TypeOK
  BY DEF SweepLast, IInv
<1>2. s \in Sources /\ ~Marks(repair[s], op[o].rev)
  BY <1>1 DEF Shape, Works
<1>3. repair' = [repair EXCEPT ![s] = repair[s]]
  BY <1>2 DEF SweepLast, Marks
<1>4. repair' = repair
  BY <1>1, <1>2, <1>3 DEF TypeOK
<1>5. UNCHANGED <<owner, content, count, pending>>
  BY DEF SweepLast, ids
<1> QED BY <1>4, <1>5, CountsRest

(* What a selection does to the owners. *)
LEMMA SelectedOwner ==
  ASSUME IInv, NEW s \in Sources, NEW state, NEW r, Select(s, state, r)
  PROVE  owner'[s].rev = r /\ owner'[s].state = state /\ OnlyOwner(s)
<1> DEFINE w == [state |-> state, rev |-> r, seq |-> sequence + 1]
<1>1. owner' = [owner EXCEPT ![s] = w] /\ w.rev = r /\ w.state = state
  BY DEF Select
<1> HIDE DEF w
<1> QED BY <1>1 DEF IInv, TypeOK, OnlyOwner

LEMMA ActivateWriteCounts ==
  ASSUME IInv, CountsExact, NEW o \in Ops, ActivateWrite(o), NEW s \in Sources, s = op[o].source,
         NEW r \in Revisions, r = op[o].rev
  PROVE  CountsExact'
<1>1. /\ op[o] \in Operations /\ Shape(op[o]) /\ Works(op[o]) /\ op[o].phase = "activate"
      /\ op[o].kind = "write"
  BY DEF IInv, TypeOK, ActivateWrite
<1>2. Early(op[o])
  BY <1>1 DEF Shape
<1>3. sourceOf[r] = s /\ owner[s].rev # r
  BY <1>1, <1>2 DEF Works, Early
<1>4. /\ owner[s].seq = op[o].base /\ Select(s, "complete", r)
      /\ repair[s] = StagingOf(r, Len(content[r]))
      /\ content' = content /\ count' = count
  BY DEF ActivateWrite, OwnStaging, ids
<1>5. ~IsSelected(repair[s])
  <2>1. Len(content[r]) \in Nat
    BY DEF IInv, TypeOK
  <2> QED BY <1>4, <2>1, StagingMarks
<1>6. owner'[s].rev = r /\ owner'[s].state = "complete" /\ OnlyOwner(s)
  BY <1>4, SelectedOwner
<1>7. CASE CountsReused(o)
  <2> DEFINE v == owner[s].rev
             q == ReclaimOf(v, Len(content[v]))
  <2>1. op[o].old # None /\ content[op[o].old] = content[r]
    BY <1>7 DEF CountsReused
  <2>2. v = op[o].old /\ v # None
    BY <1>1, <1>2, <1>4, <2>1 DEF Works
  <2>3. v \in Revisions /\ sourceOf[v] = s
    BY <2>2 DEF IInv, TypeOK, Owners, Owned
  <2>4. Len(content[v]) \in Nat /\ Len(content[v]) > 0
    <3>1. sourceOf[v] # None
      BY <2>3, NoneIsNoId
    <3>2. v \in Revisions
      BY <2>3
    <3> HIDE DEF v
    <3> QED BY <3>1, <3>2 DEF IInv, TypeOK, Drawn
  <2>5. repair' = [repair EXCEPT ![s] = q] /\ pending' = pending
    BY <1>7, <2>2 DEF ActivateWrite
  <2>6. ~IsSelected(q)
    BY <2>3, <2>4, ReclaimMarks
  <2>7. content[v] = content[r]
    BY <2>1, <2>2
  <2> HIDE DEF q
  <2> QED BY <1>3, <1>4, <1>5, <1>6, <2>2, <2>5, <2>6, <2>7, ReuseCounts
<1>8. CASE ~CountsReused(o)
  <2>1. repair' = [repair EXCEPT ![s] = Journal(s, r)] /\ pending' = pending + 1
    BY <1>8 DEF ActivateWrite
  <2> QED BY <1>3, <1>4, <1>5, <1>6, <2>1, JournalCounts
<1> QED BY <1>7, <1>8

LEMMA ActivateDeleteCounts ==
  ASSUME IInv, CountsExact, NEW o \in Ops, ActivateDelete(o), NEW s \in Sources, s = op[o].source
  PROVE  CountsExact'
<1> DEFINE none == None
<1>1. /\ Select(s, "tombstone", none) /\ repair[s] = NoRepair
      /\ content' = content /\ count' = count
  BY DEF ActivateDelete, ids
<1>2. ~IsSelected(repair[s])
  BY <1>1, NoRepairIsNoMark
<1>3. owner'[s].rev = none /\ owner'[s].state = "tombstone" /\ OnlyOwner(s)
  BY <1>1, SelectedOwner
<1>4. owner[s].state = "complete" <=> owner[s].rev # None
  BY DEF IInv, Owned
<1>5. CASE owner[s].state = "complete"
  <2>1. repair' = [repair EXCEPT ![s] = Journal(s, none)] /\ pending' = pending + 1
    BY <1>5 DEF ActivateDelete
  <2>2. none \in Revisions \cup {None} /\ none # owner[s].rev
    BY <1>4, <1>5
  <2> HIDE DEF none
  <2> QED BY <1>1, <1>2, <1>3, <2>1, <2>2, JournalCounts
<1>6. CASE owner[s].state # "complete"
  <2>1. repair' = repair /\ pending' = pending
    BY <1>6 DEF ActivateDelete
  <2>2. ASSUME NEW x \in Sources
        PROVE  Counted(x)' = Counted(x)
    <3>1. CASE x = s
      BY <1>2, <1>3, <1>6, <2>1, <3>1 DEF Counted, Page
    <3>2. CASE x # s
      BY <1>1, <1>3, <2>1, <3>2 DEF Counted, Page, OnlyOwner
    <3> QED BY <3>1, <3>2
  <2>3. UNION {Counted(x) : x \in Sources}' = UNION {Counted(x) : x \in Sources}
    BY <2>2
  <2> QED BY <1>1, <2>1, <2>3 DEF CountsExact, With, KeyOf
<1> QED BY <1>5, <1>6
-----------------------------------------------------------------------------
LEMMA InitCounts == Init => CountsExact
<1> SUFFICES ASSUME Init
             PROVE  CountsExact
  OBVIOUS
<1>1. ASSUME NEW s \in Sources
      PROVE  Counted(s) = {} /\ ~IsSelected(repair[s])
  <2>1. repair[s] = NoRepair /\ owner[s].state # "complete"
    BY DEF Init, Missing
  <2> QED BY <2>1, NoRepairIsNoMark DEF Counted
<1>2. UNION {Counted(s) : s \in Sources} = {} /\ {s \in Sources : IsSelected(repair[s])} = {}
  BY <1>1
<1>3. \A k : With({}, k) = {}
  BY DEF With
<1> QED BY <1>2, <1>3, FS_EmptySet DEF CountsExact, Init

LEMMA WorkingSource ==
  ASSUME IInv, NEW o \in Ops,
         op[o].phase \in {"repair", "reclaim", "stage"} \/ (op[o].phase = "activate" /\ op[o].kind \in {"write", "delete"})
  PROVE  op[o].source \in Sources
  BY DEF IInv, Shape, Early

LEMMA NextCounts == IInv /\ CountsExact /\ [Next]_vars => CountsExact'
<1> SUFFICES ASSUME IInv, CountsExact, [Next]_vars
             PROVE  CountsExact'
  OBVIOUS
<1> DEFINE Same == UNCHANGED <<owner, content, repair, count, pending>>
<1>1. CASE UNCHANGED vars
  BY <1>1, CountsRest DEF vars
<1>2. ASSUME NEW o \in Ops, NEW s \in Sources, NEW r \in Revisions, NEW c \in Contents,
             StartWrite(o, s, r, c)
      PROVE  CountsExact'
  <2>1. /\ sourceOf[r] = None /\ content' = [content EXCEPT ![r] = c]
        /\ UNCHANGED <<owner, repair, count, pending>>
    BY <1>2 DEF StartWrite, disk
  <2>2. \A x \in Revisions : x # r => content'[x] = content[x]
    BY <2>1 DEF IInv, TypeOK
  <2> QED BY <2>1, <2>2, CountsDrawn
<1>3. ASSUME NEW o \in Ops, NEW s \in Sources, NEW r \in Revisions, StartClean(o, s, r)
      PROVE  CountsExact'
  <2>1. Same
    BY <1>3 DEF StartClean, disk, ids
  <2> QED BY <2>1, CountsRest
<1>4. ASSUME NEW o \in Ops, NEW s \in Sources, StartDelete(o, s) \/ StartSettle(o, s) \/ ScanPage(o, s)
      PROVE  CountsExact'
  <2>1. Same
    BY <1>4 DEF StartDelete, StartSettle, ScanPage, disk, ids
  <2> QED BY <2>1, CountsRest
<1>5. ASSUME NEW o \in Ops,
             \/ Settle(o) \/ RepairFinished(o) \/ ReclaimFinished(o) \/ Prepare(o) \/ Authenticate(o)
             \/ PinDelete(o) \/ Abandon(o) \/ Return(o) \/ Preflight(o) \/ SweepPage(o)
             \/ (\E k \in Asked : StartLookup(o, k)) \/ ReadCount(o) \/ Answer(o)
      PROVE  CountsExact'
  <2>1. CASE Settle(o) \/ RepairFinished(o) \/ ReclaimFinished(o) \/ Prepare(o) \/ Authenticate(o)
    <3>1. Same
      BY <2>1 DEF Settle, RepairFinished, ReclaimFinished, Prepare, Authenticate, disk, ids
    <3> QED BY <3>1, CountsRest
  <2>2. CASE PinDelete(o) \/ Abandon(o) \/ Return(o) \/ Preflight(o) \/ SweepPage(o)
    <3>1. Same
      BY <2>2 DEF PinDelete, Abandon, Return, Preflight, SweepPage, disk, ids
    <3> QED BY <3>1, CountsRest
  <2>3. CASE (\E k \in Asked : StartLookup(o, k)) \/ ReadCount(o) \/ Answer(o)
    <3>1. Same
      BY <2>3 DEF StartLookup, ReadCount, Answer, disk, ids
    <3> QED BY <3>1, CountsRest
  <2> QED BY <1>5, <2>1, <2>2, <2>3
<1>6. ASSUME NEW o \in Ops, NEW k \in 0 .. PageSize, NEW m \in 0 .. PageSize, RepairPage(o, k, m)
      PROVE  CountsExact'
  <2>1. op[o].source \in Sources
    BY <1>6, WorkingSource DEF RepairPage
  <2>2. PICK s \in Sources : s = op[o].source
    BY <2>1
  <2> QED BY <1>6, <2>2, RepairPageCounts
<1>7. ASSUME NEW o \in Ops, ReclaimPage(o)
      PROVE  CountsExact'
  <2>1. op[o].source \in Sources
    BY <1>7, WorkingSource DEF ReclaimPage
  <2>2. PICK s \in Sources : s = op[o].source
    BY <2>1
  <2> QED BY <1>7, <2>2, ReclaimPageCounts
<1>8. ASSUME NEW o \in Ops, NEW k \in 1 .. PageSize, StagePage(o, k)
      PROVE  CountsExact'
  <2>1. op[o].source \in Sources
    BY <1>8, WorkingSource DEF StagePage
  <2>2. PICK s \in Sources : s = op[o].source
    BY <2>1
  <2> QED BY <1>8, <2>2, StagePageCounts
<1>9. ASSUME NEW o \in Ops, ActivateWrite(o)
      PROVE  CountsExact'
  <2>1. op[o].source \in Sources /\ op[o].rev \in Revisions
    BY <1>9 DEF ActivateWrite, IInv, Shape
  <2>2. PICK s \in Sources, r \in Revisions : s = op[o].source /\ r = op[o].rev
    BY <2>1
  <2> QED BY <1>9, <2>2, ActivateWriteCounts
<1>10. ASSUME NEW o \in Ops, ActivateDelete(o)
       PROVE  CountsExact'
  <2>1. op[o].source \in Sources
    BY <1>10 DEF ActivateDelete, IInv, Shape
  <2>2. PICK s \in Sources : s = op[o].source
    BY <2>1
  <2> QED BY <1>10, <2>2, ActivateDeleteCounts
<1>11. ASSUME NEW c \in Connections, Crash(c)
       PROVE  CountsExact'
  <2>1. Same
    BY <1>11 DEF Crash, disk, ids
  <2> QED BY <2>1, CountsRest
<1>12. ASSUME NEW o \in Ops, SweepLast(o)
       PROVE  CountsExact'
  BY <1>12, SweepLastCounts
<1> HIDE DEF Same
<1> QED BY <1>1, <1>2, <1>3, <1>4, <1>5, <1>6, <1>7, <1>8, <1>9, <1>10, <1>11, <1>12 DEF Next

(* The ledger is exact at every moment, for any number of repositories,    *)
(* sources and keys and any page size: whoever crashes, gives up or takes  *)
(* over a repair between two of its pages, and whichever counts a writer   *)
(* reuses, no row is counted twice or forgotten, and lookups are suspended *)
(* exactly while a journal is open.                                        *)
THEOREM CountsAreExact == Spec => []CountsExact
<1>1. Init => CInv
  BY InitKeeps, InitCounts DEF CInv
<1>2. CInv /\ [Next]_vars => CInv'
  BY NextKeeps, NextCounts DEF CInv
<1>3. CInv => CountsExact
  BY DEF CInv
<1> QED BY <1>1, <1>2, <1>3, PTL DEF Spec

(* No repair is refused by its own counts: the rows the next page takes    *)
(* are counted, and the pending number that its last page lowers is not    *)
(* zero.  What repairLocalDependencies() checks before it subtracts never  *)
(* fails, so no source stays behind a journal nobody can drive to its end. *)
RepairsCovered ==
  \A s \in Sources, n \in Nat, k \in Keys :
    LET p == repair[s] IN
    IsSelected(p) /\ p.fromIndex + n <= p.fromRecords =>
      pending > 0 /\ Covered(k, Page(p.from, p.fromIndex, p.fromIndex + n))

(* Whatever crashed before, the next page of every open journal passes its *)
(* checks against the ledger.                                              *)
THEOREM RepairsAreCovered == Spec => []RepairsCovered
<1>1. CInv => RepairsCovered
  <2> SUFFICES ASSUME CInv, NEW s \in Sources, NEW n \in Nat, NEW k \in Keys,
                      IsSelected(repair[s]), repair[s].fromIndex + n <= repair[s].fromRecords
               PROVE  pending > 0 /\ Covered(k, Page(repair[s].from, repair[s].fromIndex, repair[s].fromIndex + n))
    BY DEF RepairsCovered
  <2> DEFINE p == repair[s]
             next == p.fromIndex + n
             taken == Page(p.from, p.fromIndex, next)
  <2>1. p.fromIndex \in Nat /\ p.fromRecords \in Nat /\ IInv /\ CountsExact
    BY RecordFacts DEF CInv
  <2>2. pending > 0
    <3>1. IsFiniteSet(Open) /\ pending = Cardinality(Open) /\ s \in Open
      BY <2>1, ConstantsAssumption, FS_Subset DEF Open, CountsExact
    <3>2. Cardinality(Open) \in Nat /\ Cardinality(Open) # 0
      BY <3>1, FS_EmptySet, FS_CardinalityType
    <3> QED BY <3>1, <3>2
  <2>3. taken \subseteq All
    <3>1. taken \subseteq Page(p.from, p.fromIndex, p.fromRecords)
      BY <2>1 DEF Page
    <3>2. Page(p.from, p.fromIndex, p.fromRecords) \subseteq Counted(s)
      BY DEF Counted
    <3> HIDE DEF taken
    <3> QED BY <3>1, <3>2 DEF All
  <2> HIDE DEF taken
  <2>4. With(taken, k) \in SUBSET With(All, k)
    BY <2>3 DEF With
  <2>5. IsFiniteSet(With(All, k))
    BY <2>1, AllFinite, WithFinite
  <2>6. Cardinality(With(taken, k)) <= Cardinality(With(All, k))
    BY <2>4, <2>5, FS_Subset
  <2>7. Cardinality(With(All, k)) = count[k]
    BY <2>1 DEF CountsExact, All
  <2>8. Covered(k, taken)
    BY <2>6, <2>7 DEF Covered
  <2> QED BY <2>2, <2>8 DEF taken
<1>2. Init => CInv
  BY InitKeeps, InitCounts DEF CInv
<1>3. CInv /\ [Next]_vars => CInv'
  BY NextKeeps, NextCounts DEF CInv
<1> QED BY <1>1, <1>2, <1>3, PTL DEF Spec
-----------------------------------------------------------------------------
(* Closed-world lookups.  What a lookup may read of a source is fixed by   *)
(* the owner, whatever rows and counts move meanwhile; and a selection     *)
(* raises the sequence the lookup compares.                                *)
Chosen(s) == IF owner[s].state = "complete" THEN Page(owner[s].rev, 0, Len(content[owner[s].rev])) ELSE {}
Named(s, k) == With(Chosen(s), k)
NamedBy(S, k) == UNION {Named(s, k) : s \in S}

(* What a lookup has read agrees with the selection it started from.       *)
Reads(x) ==
  x.kind = "lookup" =>
    /\ x.base <= sequence
    /\ x.phase = "count" => x.todo = Sources /\ x.found = {} /\ x.active = 0
    /\ x.phase = "scan" /\ x.base = sequence =>
         /\ x.found = {s \in Sources \ x.todo : Named(s, x.key) # {}}
         /\ x.active = Cardinality(NamedBy(Sources \ x.todo, x.key))
         /\ x.need = Cardinality(NamedBy(Sources, x.key))

Reading == \A p \in Ops, x \in Operations : op[p] = x => Reads(x)

LInv == CInv /\ Reading

(* The matching rows on disk are those the owner has chosen.               *)
LEMMA ChosenIs ==
  ASSUME IInv, NEW s \in Sources
  PROVE  /\ \A row : row \in Chosen(s) => row \in rows /\ sourceOf[row[1]] = s
         /\ \A k : Matching(s, k) = Named(s, k)
<1> DEFINE p == repair[s]
           v == owner[s].rev
<1>1. CASE owner[s].state # "complete"
  BY <1>1 DEF Chosen, Matching, Named, With
<1>2. CASE owner[s].state = "complete"
  <2>1. v \in Revisions /\ sourceOf[v] = s /\ Len(content[v]) \in Nat
    <3>1. v \in Revisions \cup {None} /\ \A r \in Revisions : Len(content[r]) \in Nat
      BY DEF IInv, TypeOK, Owners
    <3>2. v # None /\ \A r \in Revisions : v = r => sourceOf[r] = s
      BY <1>2 DEF IInv, Owned
    <3> QED BY <3>1, <3>2
  <2>2. /\ p \in Repairs
        /\ IsPrivate(p) => p.from # v
        /\ IsSelected(p) => p.from # v
    BY RecordFacts DEF Recorded
  <2>3. \A i \in Nat : <<v, i>> \in rows <=> i < Len(content[v])
    BY <2>1, <2>2, RowsOf DEF Needed
  <2>4. Chosen(s) = Page(v, 0, Len(content[v]))
    BY <1>2 DEF Chosen
  <2> HIDE DEF v, p
  <2>5. Page(v, 0, Len(content[v])) = {row \in rows : row[1] = v}
    <3>1. ASSUME NEW row \in Page(v, 0, Len(content[v]))
          PROVE  row \in rows /\ row[1] = v
      BY <2>1, <2>3, <3>1 DEF Page
    <3>2. ASSUME NEW row \in rows, row[1] = v
          PROVE  row \in Page(v, 0, Len(content[v]))
      <4>1. PICK i \in Nat : row = <<v, i>>
        BY <3>2 DEF IInv, TypeOK
      <4> QED BY <2>1, <2>3, <4>1 DEF Page
    <3> QED BY <3>1, <3>2
  <2>6. \A row : row \in Chosen(s) => row \in rows /\ sourceOf[row[1]] = s
    BY <2>1, <2>4, <2>5
  <2>7. ASSUME NEW k
        PROVE  Matching(s, k) = Named(s, k)
    <3>1. Matching(s, k) = {row \in rows : row[1] = v /\ KeyOf(row) = k}
      BY <1>2 DEF Matching, v
    <3>2. Named(s, k) = {row \in {r \in rows : r[1] = v} : KeyOf(row) = k}
      BY <2>4, <2>5 DEF Named, With
    <3> QED BY <3>1, <3>2
  <2> QED BY <2>6, <2>7
<1> QED BY <1>1, <1>2

LEMMA NamedFinite ==
  ASSUME IInv, NEW S \in SUBSET Sources, NEW k
  PROVE  IsFiniteSet(NamedBy(S, k)) /\ Cardinality(NamedBy(S, k)) \in Nat
<1>1. NamedBy(S, k) \in SUBSET rows
  BY ChosenIs DEF NamedBy, Named, With
<1>2. IsFiniteSet(rows)
  BY DEF IInv
<1> QED BY <1>1, <1>2, FS_Subset, FS_CardinalityType

(* One more source is read: its rows are counted once.                     *)
LEMMA NamedAdds ==
  ASSUME IInv, NEW S \in SUBSET Sources, NEW s \in Sources, s \notin S, NEW k
  PROVE  Cardinality(NamedBy(S \cup {s}, k)) = Cardinality(NamedBy(S, k)) + Cardinality(Named(s, k))
<1> DEFINE A == NamedBy(S, k)
           B == Named(s, k)
<1>1. NamedBy({s}, k) = B
  BY DEF NamedBy
<1>2. IsFiniteSet(A) /\ IsFiniteSet(B) /\ Cardinality(A) \in Nat /\ Cardinality(B) \in Nat
  BY <1>1, NamedFinite
<1>3. NamedBy(S \cup {s}, k) = A \cup B
  BY DEF NamedBy
<1>4. A \cap B = {}
  BY ChosenIs DEF NamedBy, Named, With
<1> HIDE DEF A, B
<1>5. Cardinality(A \cup B) = Cardinality(A) + Cardinality(B) - Cardinality({})
  BY <1>2, <1>4, FS_Union
<1>6. Cardinality(A \cup B) = Cardinality(A) + Cardinality(B)
  BY <1>2, <1>5, FS_EmptySet
<1> QED BY <1>3, <1>6 DEF A, B

(* Without an open journal the ledger counts what the owners have chosen.  *)
LEMMA CountIsNamed ==
  ASSUME IInv, CountsExact, pending = 0, NEW k \in Keys
  PROVE  count[k] = Cardinality(NamedBy(Sources, k))
<1>1. Open = {}
  <2>1. IsFiniteSet(Open) /\ Cardinality(Open) = 0
    BY ConstantsAssumption, FS_Subset DEF Open, CountsExact
  <2> QED BY <2>1, FS_EmptySet
<1>2. \A s \in Sources : Counted(s) = Chosen(s)
  BY <1>1 DEF Open, Counted, Chosen
<1>3. With(UNION {Counted(s) : s \in Sources}, k) = NamedBy(Sources, k)
  BY <1>2 DEF NamedBy, Named, With
<1> QED BY <1>3 DEF CountsExact

(* As long as no owner changes, neither does what a lookup may read: the   *)
(* projection of a revision that is drawn stays as it is.                  *)
Quiet ==
  /\ UNCHANGED <<owner, sequence>>
  /\ \A r \in Revisions : sourceOf[r] # None => content'[r] = content[r]

LEMMA NamedRests ==
  ASSUME IInv, Quiet, NEW s \in Sources, NEW k
  PROVE  Named(s, k)' = Named(s, k)
<1>1. CASE owner[s].state # "complete"
  BY <1>1 DEF Named, Chosen, With, Quiet
<1>2. CASE owner[s].state = "complete"
  <2>1. owner[s].rev \in Revisions /\ sourceOf[owner[s].rev] # None
    BY <1>2, NoneIsNoId DEF IInv, TypeOK, Owners, Owned
  <2>2. owner' = owner /\ content'[owner[s].rev] = content[owner[s].rev]
    BY <2>1 DEF Quiet
  <2>3. Chosen(s)' = Chosen(s)
    BY <2>2 DEF Chosen, Page
  <2>4. \A row \in Chosen(s) : KeyOf(row)' = KeyOf(row)
    BY <1>2, <2>2 DEF Chosen, Page, KeyOf
  <2> QED BY <2>3, <2>4 DEF Named, With
<1> QED BY <1>1, <1>2

LEMMA ReadsRest ==
  ASSUME IInv, Quiet, NEW x, Reads(x)
  PROVE  Reads(x)'
<1>1. \A s \in Sources : \A k : Named(s, k)' = Named(s, k)
  BY NamedRests
<1>2. \A S \in SUBSET Sources : \A k : NamedBy(S, k)' = NamedBy(S, k)
  BY <1>1 DEF NamedBy
<1>3. {s \in Sources \ x.todo : Named(s, x.key)' # {}} = {s \in Sources \ x.todo : Named(s, x.key) # {}}
  BY <1>1
<1>4. NamedBy(Sources \ x.todo, x.key)' = NamedBy(Sources \ x.todo, x.key)
      /\ NamedBy(Sources, x.key)' = NamedBy(Sources, x.key)
  BY <1>2
<1>5. sequence' = sequence
  BY DEF Quiet
<1> QED BY <1>3, <1>4, <1>5 DEF Reads

LEMMA ReadsSelected ==
  ASSUME sequence \in Nat, sequence' = sequence + 1, NEW x \in Operations, Reads(x)
  PROVE  Reads(x)'
  BY DEF Reads, Operations

(* What a step does to a lookup, and to what lookups compare.              *)
LookupStep(p) ==
  \/ op'[p] = op[p]
  \/ op'[p].kind # "lookup"
  \/ \E k \in Asked : StartLookup(p, k)
  \/ ReadCount(p)
  \/ \E s \in Sources : ScanPage(p, s)
  \/ Answer(p)

LEMMA OneMoves ==
  ASSUME NEW o \in Ops, NEW n, op' = [op EXCEPT ![o] = n], TypeOK, n.kind # "lookup"
  PROVE  \A p \in Ops : LookupStep(p)
  BY DEF TypeOK, LookupStep

LEMMA GoMoves ==
  ASSUME IInv, NEW o \in Ops, op[o].kind # "lookup", NEW phase, Go(o, phase)
  PROVE  \A p \in Ops : LookupStep(p)
<1> DEFINE n == [op[o] EXCEPT !.phase = phase]
<1>1. op[o] \in Operations
  BY DEF IInv, TypeOK
<1>2. n.kind # "lookup"
  BY <1>1 DEF Operations
<1>3. op' = [op EXCEPT ![o] = n]
  BY DEF Go
<1> QED BY <1>2, <1>3, OneMoves DEF IInv

LEMMA FinishMoves ==
  ASSUME IInv, NEW o \in Ops, Finish(o)
  PROVE  \A p \in Ops : LookupStep(p)
<1>1. Idle.kind # "lookup"
  BY DEF Idle
<1> QED BY <1>1, OneMoves DEF IInv, Finish

LEMMA LookupMoves ==
  ASSUME IInv, NEW o \in Ops,
         (\E k \in Asked : StartLookup(o, k)) \/ ReadCount(o) \/ (\E s \in Sources : ScanPage(o, s)) \/ Answer(o)
  PROVE  Quiet /\ \A p \in Ops : LookupStep(p)
<1>1. UNCHANGED <<disk, ids>>
  BY DEF StartLookup, ReadCount, ScanPage, Answer
<1>2. \A p \in Ops : p # o => op'[p] = op[p]
  BY DEF StartLookup, ReadCount, ScanPage, Answer, Go, IInv, TypeOK
<1> QED BY <1>1, <1>2 DEF Quiet, LookupStep, disk, ids

(* Work that leaves the owners alone: what one operation goes on as.       *)
LEMMA StartMoves ==
  ASSUME IInv, NEW o \in Ops, NEW s \in Sources,
         \/ \E r \in Revisions : (\E c \in Contents : StartWrite(o, s, r, c)) \/ StartClean(o, s, r)
         \/ StartDelete(o, s) \/ StartSettle(o, s)
  PROVE  Quiet /\ \A p \in Ops : LookupStep(p)
<1>1. ASSUME NEW r \in Revisions, NEW c \in Contents, StartWrite(o, s, r, c)
      PROVE  Quiet /\ \A p \in Ops : LookupStep(p)
  <2> DEFINE n == [Idle EXCEPT !.kind = "write", !.source = s, !.phase = "settle",
                               !.then = "prepare", !.rev = r, !.base = owner[s].seq]
  <2>1. op' = [op EXCEPT ![o] = n] /\ n.kind = "write"
    BY <1>1 DEF StartWrite, Idle
  <2> HIDE DEF n
  <2>2. Quiet
    BY <1>1 DEF StartWrite, Quiet, disk, IInv, TypeOK
  <2> QED BY <2>1, <2>2, OneMoves DEF IInv
<1>2. ASSUME NEW r \in Revisions, StartClean(o, s, r)
      PROVE  Quiet /\ \A p \in Ops : LookupStep(p)
  <2> DEFINE n == [Idle EXCEPT !.kind = "clean", !.source = s, !.rev = r,
                               !.phase = "preflight", !.then = "sweep"]
  <2>1. op' = [op EXCEPT ![o] = n] /\ n.kind = "clean" /\ UNCHANGED <<disk, ids>>
    BY <1>2 DEF StartClean, Idle
  <2> HIDE DEF n
  <2> QED BY <2>1, OneMoves DEF IInv, Quiet, disk, ids
<1>3. CASE StartDelete(o, s)
  <2> DEFINE n == [Idle EXCEPT !.kind = "delete", !.source = s, !.phase = "settle", !.then = "pin"]
  <2>1. op' = [op EXCEPT ![o] = n] /\ n.kind = "delete" /\ UNCHANGED <<disk, ids>>
    BY <1>3 DEF StartDelete, Idle
  <2> HIDE DEF n
  <2> QED BY <2>1, OneMoves DEF IInv, Quiet, disk, ids
<1>4. CASE StartSettle(o, s)
  <2> DEFINE n == [Idle EXCEPT !.kind = "settle", !.source = s, !.phase = "settle", !.then = "done"]
  <2>1. op' = [op EXCEPT ![o] = n] /\ n.kind = "settle" /\ UNCHANGED <<disk, ids>>
    BY <1>4 DEF StartSettle, Idle
  <2> HIDE DEF n
  <2> QED BY <2>1, OneMoves DEF IInv, Quiet, disk, ids
<1> QED BY <1>1, <1>2, <1>3, <1>4

(* The phases of work, and none of a lookup. *)
LEMMA Laboring ==
  ASSUME IInv, NEW o \in Ops,
         op[o].phase \in {"settle", "repair", "reclaim", "prepare", "stage", "authenticate", "activate",
                          "pin", "preflight", "sweep", "retire"}
  PROVE  op[o].kind # "lookup"
  BY DEF IInv, Shape, Early

LEMMA RowsMove ==
  ASSUME IInv, NEW o \in Ops,
         \/ Settle(o) \/ RepairFinished(o) \/ ReclaimFinished(o) \/ ReclaimPage(o)
         \/ (\E n, m \in 0 .. PageSize : RepairPage(o, n, m))
         \/ Preflight(o) \/ SweepPage(o) \/ SweepLast(o)
  PROVE  Quiet /\ \A p \in Ops : LookupStep(p)
<1>1. CASE Settle(o) \/ RepairFinished(o) \/ ReclaimFinished(o) \/ Preflight(o)
  <2>1. (\E phase : Go(o, phase)) /\ UNCHANGED <<disk, ids>>
    BY <1>1 DEF Settle, RepairFinished, ReclaimFinished, Preflight
  <2>2. op[o].kind # "lookup"
    BY <1>1, Laboring DEF Settle, RepairFinished, ReclaimFinished, Preflight
  <2> QED BY <2>1, <2>2, GoMoves DEF Quiet, disk, ids
<1>2. CASE ReclaimPage(o) \/ SweepPage(o)
  <2>1. (\E phase : Go(o, phase)) \/ UNCHANGED op
    BY <1>2 DEF ReclaimPage, SweepPage
  <2>2. op[o].kind # "lookup" /\ Quiet
    BY <1>2, Laboring DEF ReclaimPage, SweepPage, ids, Quiet
  <2> QED BY <2>1, <2>2, GoMoves DEF LookupStep
<1>3. CASE \E n, m \in 0 .. PageSize : RepairPage(o, n, m)
  <2>1. (\E phase : Go(o, phase)) \/ UNCHANGED op
    BY <1>3 DEF RepairPage
  <2>2. op[o].kind # "lookup" /\ Quiet
    BY <1>3, Laboring DEF RepairPage, ids, Quiet
  <2> QED BY <2>1, <2>2, GoMoves DEF LookupStep
<1>4. CASE SweepLast(o)
  <2>1. Finish(o) /\ Quiet
    BY <1>4 DEF SweepLast, ids, Quiet
  <2> QED BY <2>1, FinishMoves
<1> QED BY <1>1, <1>2, <1>3, <1>4

LEMMA WriterMoves ==
  ASSUME IInv, NEW o \in Ops,
         Prepare(o) \/ (\E n \in 1 .. PageSize : StagePage(o, n)) \/ Authenticate(o) \/ PinDelete(o)
  PROVE  Quiet /\ \A p \in Ops : LookupStep(p)
<1>1. op[o] \in Operations
  BY DEF IInv, TypeOK
<1>2. CASE Prepare(o)
  <2> DEFINE old == IF /\ pending = 0
                       /\ repair[op[o].source] = NoRepair
                       /\ owner[op[o].source].state = "complete"
                       /\ owner[op[o].source].seq = op[o].base
                    THEN owner[op[o].source].rev ELSE None
             m == [op[o] EXCEPT !.phase = "stage", !.stamp = revision, !.old = old]
  <2>1. \E n : op' = [op EXCEPT ![o] = n] /\ n.kind = op[o].kind
    <3>1. op' = [op EXCEPT ![o] = m]
      BY <1>2 DEF Prepare
    <3> HIDE DEF old
    <3>2. m.kind = op[o].kind
      BY <1>1 DEF Operations
    <3> HIDE DEF m
    <3> QED BY <3>1, <3>2
  <2>2. op[o].kind # "lookup" /\ Quiet
    BY <1>2, Laboring DEF Prepare, disk, ids, Quiet
  <2> QED BY <2>1, <2>2, OneMoves DEF IInv
<1>3. CASE \E n \in 1 .. PageSize : StagePage(o, n)
  <2>1. \E n : op' = [op EXCEPT ![o] = n] /\ n.kind = op[o].kind
    <3>1. PICK i \in 1 .. PageSize : StagePage(o, i)
      BY <1>3
    <3> DEFINE r == op[o].rev
               staged == op[o].staged + i
               phase == IF staged < Len(content[r]) THEN "stage"
                        ELSE IF op[o].old # None /\ content[op[o].old] = content[r]
                        THEN "authenticate" ELSE "activate"
               m == [op[o] EXCEPT !.staged = staged, !.phase = phase]
    <3>2. op' = [op EXCEPT ![o] = m]
      BY <3>1 DEF StagePage
    <3> HIDE DEF staged, phase
    <3>3. m.kind = op[o].kind
      BY <1>1 DEF Operations
    <3> HIDE DEF m
    <3> QED BY <3>2, <3>3
  <2>2. op[o].kind # "lookup" /\ Quiet
    BY <1>3, Laboring DEF StagePage, ids, Quiet
  <2> QED BY <2>1, <2>2, OneMoves DEF IInv
<1>4. CASE Authenticate(o)
  <2> DEFINE old == IF Authenticated(o) THEN op[o].old ELSE None
             m == [op[o] EXCEPT !.phase = "activate", !.old = old]
  <2>1. \E n : op' = [op EXCEPT ![o] = n] /\ n.kind = op[o].kind
    <3>1. op' = [op EXCEPT ![o] = m]
      BY <1>4 DEF Authenticate
    <3> HIDE DEF old
    <3>2. m.kind = op[o].kind
      BY <1>1 DEF Operations
    <3> HIDE DEF m
    <3> QED BY <3>1, <3>2
  <2>2. op[o].kind # "lookup" /\ Quiet
    BY <1>4, Laboring DEF Authenticate, disk, ids, Quiet
  <2> QED BY <2>1, <2>2, OneMoves DEF IInv
<1>5. CASE PinDelete(o)
  <2>1. Finish(o) \/ \E n : op' = [op EXCEPT ![o] = n] /\ n.kind = op[o].kind
    BY <1>1, <1>5 DEF PinDelete, Operations
  <2>2. op[o].kind # "lookup" /\ Quiet
    BY <1>5, Laboring DEF PinDelete, disk, ids, Quiet
  <2> QED BY <2>1, <2>2, OneMoves, FinishMoves DEF IInv
<1> QED BY <1>2, <1>3, <1>4, <1>5

(* A selection moves the sequence past that of every lookup.               *)
LEMMA SelectionMoves ==
  ASSUME IInv, NEW o \in Ops, ActivateWrite(o) \/ ActivateDelete(o)
  PROVE  sequence' = sequence + 1 /\ \A p \in Ops : LookupStep(p)
<1>1. op[o] \in Operations
  BY DEF IInv, TypeOK
<1>2. \E n : op' = [op EXCEPT ![o] = n] /\ n.kind = op[o].kind
  BY <1>1 DEF ActivateWrite, ActivateDelete, Operations
<1>3. op[o].kind # "lookup" /\ sequence' = sequence + 1
  BY DEF ActivateWrite, ActivateDelete, Select
<1> QED BY <1>2, <1>3, OneMoves DEF IInv

LEMMA EndMoves ==
  ASSUME IInv, NEW o \in Ops, Abandon(o) \/ Return(o)
  PROVE  Quiet /\ \A p \in Ops : LookupStep(p)
<1>1. op[o] \in Operations
  BY DEF IInv, TypeOK
<1>2. Quiet
  BY DEF Abandon, Return, disk, ids, Quiet
<1>3. \/ Finish(o)
      \/ op[o].kind = "write" /\ \E n : op' = [op EXCEPT ![o] = n] /\ n.kind = op[o].kind
  BY <1>1 DEF Abandon, Return, Operations
<1> QED BY <1>2, <1>3, OneMoves, FinishMoves DEF IInv

LEMMA CrashMoves ==
  ASSUME IInv, NEW c \in Connections, Crash(c)
  PROVE  Quiet /\ \A p \in Ops : LookupStep(p)
<1>1. \A p \in Ops : op'[p] = op[p] \/ op'[p] = Idle
  BY DEF Crash
<1>2. Idle.kind # "lookup"
  BY DEF Idle
<1> QED BY <1>1, <1>2 DEF Crash, LookupStep, disk, ids, Quiet

LEMMA NextMoves ==
  ASSUME IInv, [Next]_vars
  PROVE  (Quiet \/ sequence' = sequence + 1) /\ \A p \in Ops : LookupStep(p)
<1>1. CASE UNCHANGED vars
  BY <1>1 DEF vars, Quiet, LookupStep
<1>2. ASSUME NEW o \in Ops, NEW s \in Sources,
             \/ \E r \in Revisions : (\E c \in Contents : StartWrite(o, s, r, c)) \/ StartClean(o, s, r)
             \/ StartDelete(o, s) \/ StartSettle(o, s)
      PROVE  Quiet /\ \A p \in Ops : LookupStep(p)
  BY <1>2, StartMoves
<1>3. ASSUME NEW o \in Ops,
             \/ Settle(o) \/ RepairFinished(o) \/ ReclaimFinished(o) \/ ReclaimPage(o)
             \/ (\E n, m \in 0 .. PageSize : RepairPage(o, n, m))
             \/ Preflight(o) \/ SweepPage(o) \/ SweepLast(o)
      PROVE  Quiet /\ \A p \in Ops : LookupStep(p)
  BY <1>3, RowsMove
<1>4. ASSUME NEW o \in Ops,
             Prepare(o) \/ (\E n \in 1 .. PageSize : StagePage(o, n)) \/ Authenticate(o) \/ PinDelete(o)
      PROVE  Quiet /\ \A p \in Ops : LookupStep(p)
  BY <1>4, WriterMoves
<1>5. ASSUME NEW o \in Ops, ActivateWrite(o) \/ ActivateDelete(o)
      PROVE  sequence' = sequence + 1 /\ \A p \in Ops : LookupStep(p)
  BY <1>5, SelectionMoves
<1>6. ASSUME NEW o \in Ops, Abandon(o) \/ Return(o)
      PROVE  Quiet /\ \A p \in Ops : LookupStep(p)
  BY <1>6, EndMoves
<1>7. ASSUME NEW o \in Ops,
             (\E k \in Asked : StartLookup(o, k)) \/ ReadCount(o) \/ (\E s \in Sources : ScanPage(o, s)) \/ Answer(o)
      PROVE  Quiet /\ \A p \in Ops : LookupStep(p)
  BY <1>7, LookupMoves
<1>8. ASSUME NEW c \in Connections, Crash(c)
      PROVE  Quiet /\ \A p \in Ops : LookupStep(p)
  BY <1>8, CrashMoves
<1> QED BY <1>1, <1>2, <1>3, <1>4, <1>5, <1>6, <1>7, <1>8 DEF Next

(* A lookup is told the count while no journal is open, and adds up the    *)
(* rows of one source after another.                                       *)
LEMMA CountRead ==
  ASSUME IInv, CountsExact, NEW p \in Ops, NEW x \in Operations, op[p] = x, Reads(x),
         ReadCount(p), NEW y, op'[p] = y
  PROVE  Reads(y)
<1>1. /\ x.base = sequence /\ pending = 0 /\ x.phase = "count"
      /\ y = [x EXCEPT !.phase = "scan", !.need = count[x.key]]
  BY DEF ReadCount, Fenced, IInv, TypeOK
<1>2. x.kind = "lookup" /\ x.key \in Keys
  BY <1>1 DEF IInv, Shape
<1>3. count[x.key] = Cardinality(NamedBy(Sources, x.key)) /\ sequence \in Nat
  BY <1>1, <1>2, CountIsNamed DEF IInv, TypeOK
<1>4. /\ y.base = sequence /\ y.key = x.key /\ y.todo = Sources /\ y.found = {} /\ y.active = 0
      /\ y.need = count[x.key] /\ y.phase = "scan"
  BY <1>1, <1>2 DEF Reads, Operations
<1>5. Sources \ y.todo = {} /\ NamedBy({}, y.key) = {} /\ Cardinality({}) = 0
  BY <1>4, FS_EmptySet DEF NamedBy
<1> QED BY <1>3, <1>4, <1>5 DEF Reads

LEMMA PageRead ==
  ASSUME IInv, NEW p \in Ops, NEW x \in Operations, op[p] = x, Reads(x),
         NEW s \in Sources, ScanPage(p, s), NEW y, op'[p] = y
  PROVE  Reads(y)
<1> DEFINE S == Sources \ x.todo
<1>1. /\ x.phase = "scan" /\ s \in x.todo /\ x.base = sequence
      /\ y = [x EXCEPT !.todo = x.todo \ {s},
                       !.active = x.active + Cardinality(Named(s, x.key)),
                       !.found = IF Named(s, x.key) = {} THEN x.found ELSE x.found \cup {s}]
  <2>1. Matching(s, op[p].key) = Named(s, x.key)
    BY ChosenIs
  <2>2. op[p].phase = "scan" /\ s \in op[p].todo /\ op[p].base = sequence
    BY DEF ScanPage, Fenced
  <2>3. op \in [Ops -> Operations]
    BY DEF IInv, TypeOK
  <2>4. op'[p] = [op[p] EXCEPT
          !.todo = op[p].todo \ {s},
          !.active = op[p].active + Cardinality(Matching(s, op[p].key)),
          !.found = IF Matching(s, op[p].key) = {} THEN op[p].found ELSE op[p].found \cup {s}]
    BY <2>3 DEF ScanPage
  <2> QED BY <2>1, <2>2, <2>4
<1>2. x.kind = "lookup"
  BY <1>1 DEF IInv, Shape
<1>3. /\ x.found = {z \in S : Named(z, x.key) # {}}
      /\ x.active = Cardinality(NamedBy(S, x.key))
      /\ x.need = Cardinality(NamedBy(Sources, x.key))
  BY <1>1, <1>2 DEF Reads
<1>4. /\ y.kind = x.kind /\ y.base = x.base /\ y.phase = x.phase /\ y.key = x.key /\ y.need = x.need
      /\ y.todo = x.todo \ {s}
      /\ y.active = x.active + Cardinality(Named(s, x.key))
      /\ y.found = IF Named(s, x.key) = {} THEN x.found ELSE x.found \cup {s}
  BY <1>1 DEF Operations
<1>5. Sources \ y.todo = S \cup {s} /\ s \notin S /\ S \in SUBSET Sources
  BY <1>1, <1>4
<1> HIDE DEF S
<1>6. y.found = {z \in S \cup {s} : Named(z, x.key) # {}}
  BY <1>3, <1>4
<1>7. y.active = Cardinality(NamedBy(S \cup {s}, x.key))
  BY <1>3, <1>4, <1>5, NamedAdds
<1>8. y.base = sequence /\ sequence \in Nat /\ y.phase = "scan" /\ y.key = x.key
  BY <1>1, <1>4 DEF IInv, TypeOK
<1>9. /\ y.found = {z \in Sources \ y.todo : Named(z, y.key) # {}}
      /\ y.active = Cardinality(NamedBy(Sources \ y.todo, y.key))
      /\ y.need = Cardinality(NamedBy(Sources, y.key))
  <2>1. y.found = {z \in Sources \ y.todo : Named(z, x.key) # {}}
    BY <1>5, <1>6
  <2> QED BY <1>3, <1>4, <1>5, <1>7, <1>8, <2>1
<1> QED BY <1>8, <1>9 DEF Reads

LEMMA NextReads ==
  ASSUME CInv, Reading, [Next]_vars
  PROVE  Reading'
<1> USE DEF CInv
<1>1. (Quiet \/ sequence' = sequence + 1) /\ \A p \in Ops : LookupStep(p)
  BY NextMoves
<1>2. sequence \in Nat /\ op \in [Ops -> Operations]
  BY DEF IInv, TypeOK
<1> SUFFICES ASSUME NEW p \in Ops, NEW y \in Operations, op'[p] = y
             PROVE  Reads(y)'
  BY DEF Reading
<1>3. ASSUME Reads(y)
      PROVE  Reads(y)'
  BY <1>1, <1>2, <1>3, ReadsRest, ReadsSelected
<1>4. PICK x \in Operations : x = op[p]
  BY <1>2
<1>5. Reads(x)
  BY <1>4 DEF Reading
<1>6. CASE op'[p] = op[p]
  BY <1>3, <1>4, <1>5, <1>6
<1>7. CASE op'[p].kind # "lookup"
  BY <1>7 DEF Reads
<1>8. CASE \E k \in Asked : StartLookup(p, k)
  <2>1. PICK k \in Asked : StartLookup(p, k)
    BY <1>8
  <2>2. y = [Idle EXCEPT !.kind = "lookup", !.phase = "count", !.key = k,
                         !.stamp = revision, !.base = sequence, !.todo = Sources]
    BY <1>2, <2>1 DEF StartLookup
  <2>3. y.base = sequence /\ y.phase = "count" /\ y.todo = Sources /\ y.found = {} /\ y.active = 0
    BY <2>2 DEF Idle
  <2>4. Reads(y)
    BY <1>2, <2>3 DEF Reads
  <2> QED BY <1>3, <2>4
<1>9. CASE ReadCount(p)
  BY <1>3, <1>4, <1>5, <1>9, CountRead
<1>10. CASE \E s \in Sources : ScanPage(p, s)
  BY <1>3, <1>4, <1>5, <1>10, PageRead
<1>11. CASE Answer(p)
  <2>1. x.phase = "scan" /\ y = [x EXCEPT !.phase = "done"]
    BY <1>2, <1>4, <1>11 DEF Answer, Go
  <2>2. x.kind = "lookup"
    BY <1>4, <2>1 DEF IInv, Shape
  <2>3. y.kind = "lookup" /\ y.base = x.base /\ y.phase = "done"
    BY <2>1, <2>2 DEF Operations
  <2>4. Reads(y)
    BY <1>5, <2>2, <2>3 DEF Reads
  <2> QED BY <1>3, <2>4
<1> QED BY <1>1, <1>6, <1>7, <1>8, <1>9, <1>10, <1>11 DEF LookupStep

LEMMA LookupInvariance == Spec => []LInv
<1>1. Init => LInv
  <2>1. Init => CInv
    BY InitKeeps, InitCounts DEF CInv
  <2>2. Init => Reading
    BY DEF Init, Reading, Reads, Idle
  <2> QED BY <2>1, <2>2 DEF LInv
<1>2. LInv /\ [Next]_vars => LInv'
  <2>1. CInv /\ [Next]_vars => CInv'
    BY NextKeeps, NextCounts DEF CInv
  <2> QED BY <2>1, NextReads DEF LInv
<1> QED BY <1>1, <1>2, PTL DEF Spec

(* A lookup never finds the rows it added up at odds with the count it     *)
(* read under the same fence, although it read them in separate            *)
(* transactions and rows, journals and owners moved in between: a healthy  *)
(* index is not reported as damaged.                                       *)
THEOREM LookupsDoAgree == Spec => []LookupsAgree
<1>1. LInv => LookupsAgree
  <2> SUFFICES ASSUME LInv, NEW o \in Ops, op[o].kind = "lookup", op[o].phase = "scan",
                      op[o].todo = {}, Fenced(o)
               PROVE  op[o].active = op[o].need
    BY DEF LookupsAgree
  <2>1. PICK x \in Operations : x = op[o]
    BY DEF LInv, CInv, IInv, TypeOK
  <2>2. Reads(x)
    BY <2>1 DEF LInv, Reading
  <2>3. x.base = sequence /\ x.phase = "scan" /\ x.kind = "lookup" /\ Sources \ x.todo = Sources
    BY <2>1 DEF Fenced
  <2> QED BY <2>1, <2>2, <2>3 DEF Reads
<1> QED BY <1>1, LookupInvariance, PTL

(* What a lookup answers are exactly the sources whose selected projection *)
(* names the key in the state that it answers in.                          *)
THEOREM LookupsAreExact == Spec => LookupsExact
<1> DEFINE Named1(s, k) == owner[s].state = "complete"
                            /\ \E i \in DOMAIN content[owner[s].rev] : content[owner[s].rev][i] = k
           A == \A o \in Ops :
                  op[o].phase = "scan" /\ op'[o].kind = "lookup" /\ op'[o].phase = "done" =>
                    op[o].found = {s \in Sources : Named1(s, op[o].key)}
<1>1. LInv /\ [Next]_vars => A
  <2> SUFFICES ASSUME LInv, [Next]_vars, NEW o \in Ops,
                      op[o].phase = "scan", op'[o].kind = "lookup", op'[o].phase = "done"
               PROVE  op[o].found = {s \in Sources : Named1(s, op[o].key)}
    OBVIOUS
  <2>1. PICK x \in Operations : x = op[o]
    BY DEF LInv, CInv, IInv, TypeOK
  <2>2. Reads(x) /\ IInv /\ LookupStep(o)
    BY <2>1, NextMoves DEF LInv, CInv, Reading
  <2>3. op'[o] # op[o] /\ ~ReadCount(o) /\ ~(\E k \in Asked : StartLookup(o, k))
    BY <2>2 DEF ReadCount, StartLookup, IInv, Shape
  <2>4. ~(\E s \in Sources : ScanPage(o, s))
    <3> SUFFICES ASSUME NEW s \in Sources, ScanPage(o, s)
                 PROVE  op'[o].phase = "scan"
      OBVIOUS
    <3>1. \E t, n, f : op'[o] = [x EXCEPT !.todo = t, !.active = n, !.found = f]
      BY <2>1 DEF ScanPage, LInv, CInv, IInv, TypeOK
    <3> QED BY <2>1, <3>1 DEF Operations
  <2>5. Answer(o)
    BY <2>2, <2>3, <2>4 DEF LookupStep
  <2>6. x.kind = "lookup" /\ x.phase = "scan" /\ x.base = sequence /\ x.todo = {}
    BY <2>1, <2>2, <2>5 DEF Answer, Fenced, IInv, Shape
  <2>7. x.found = {s \in Sources : Named(s, x.key) # {}}
    BY <2>2, <2>6 DEF Reads
  <2>8. ASSUME NEW s \in Sources, NEW k
        PROVE  Named(s, k) # {} <=> Named1(s, k)
    <3>1. CASE owner[s].state # "complete"
      BY <3>1 DEF Named, Chosen, With
    <3>2. CASE owner[s].state = "complete"
      <4> DEFINE v == owner[s].rev
      <4>1. content[v] \in Seq(Keys) /\ Len(content[v]) \in Nat
        <5>1. owner[s].rev \in Revisions
          BY <2>2, <3>2 DEF IInv, TypeOK, Owners, Owned
        <5> QED BY <2>2, <5>1 DEF IInv, TypeOK
      <4>2. Named(s, k) = With(Page(v, 0, Len(content[v])), k)
        BY <3>2 DEF Named, Chosen
      <4> HIDE DEF v
      <4>3. ASSUME NEW row \in With(Page(v, 0, Len(content[v])), k)
            PROVE  \E i \in DOMAIN content[v] : content[v][i] = k
        <5>1. PICK i \in Int : row = <<v, i>> /\ 0 <= i /\ i < Len(content[v])
          BY <4>3 DEF With, Page
        <5>2. content[v][i + 1] = k
          BY <4>3, <5>1 DEF With, KeyOf
        <5>3. i + 1 \in DOMAIN content[v]
          BY <4>1, <5>1
        <5> QED BY <5>2, <5>3
      <4>4. ASSUME NEW i \in DOMAIN content[v], content[v][i] = k
            PROVE  <<v, i - 1>> \in With(Page(v, 0, Len(content[v])), k)
        <5>1. i \in 1 .. Len(content[v])
          BY <4>1
        <5>2. <<v, i - 1>> \in Page(v, 0, Len(content[v])) /\ (i - 1) + 1 = i
          BY <4>1, <5>1 DEF Page
        <5> QED BY <4>4, <5>2 DEF With, KeyOf
      <4> QED BY <3>2, <4>2, <4>3, <4>4 DEF v
    <3> QED BY <3>1, <3>2
  <2> HIDE DEF Named1
  <2> QED BY <2>1, <2>7, <2>8
<1>2. LInv /\ [Next]_vars => [A]_vars
  BY <1>1
<1>3. LookupsExact <=> [][A]_vars
  BY DEF LookupsExact
<1> QED BY <1>2, <1>3, LookupInvariance, PTL DEF Spec
=============================================================================
