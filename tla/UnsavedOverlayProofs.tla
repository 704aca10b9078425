------------------------ MODULE UnsavedOverlayProofs ------------------------
(***************************************************************************)
(* What UnsavedOverlay promises for any sources, sizes and budget, and any *)
(* number of vault events, failures and writers.                           *)
(*                                                                         *)
(* The first part is about the payloads in memory alone: each operation on *)
(* them keeps their sources apart and their bytes accounted.  From there   *)
(* on a proof needs only which payloads are held, not their order.         *)
(***************************************************************************)
EXTENDS UnsavedOverlay, FiniteSetTheorems, SequenceTheorems, WellFoundedInduction, TLAPS

(* At most one payload of each source. *)
Distinct(m) == \A i, j \in DOMAIN m : m[i].source = m[j].source => i = j
Memories == {m \in Seq(Entries) : Distinct(m)}

(* The bytes of a set of payloads. *)
BytesIn(E) == UNION {{e.source} \X (1 .. e.size) : e \in E}

Accounted == memory \in Memories /\ memoryBytes \in 0 .. Budget /\ BytesExact
-----------------------------------------------------------------------------
(* A set of numbers has a least one. *)
LEMMA Least ==
  ASSUME NEW T \in SUBSET Nat, T # {}
  PROVE  \E k \in T : \A j \in T : k <= j
<1>1. PICK k \in T : \A j \in T : ~ (<<j, k>> \in OpToRel(<, Nat))
  BY NatLessThanWellFounded, WFMin
<1>2. \A j \in T : ~(j < k)
  BY <1>1 DEF OpToRel
<1> QED BY <1>2

(* The bytes of payloads of different sources add up. *)
LEMMA OneBytes ==
  ASSUME NEW e \in Entries
  PROVE  IsFiniteSet({e.source} \X (1 .. e.size)) /\ Cardinality({e.source} \X (1 .. e.size)) = e.size
<1>1. e.size \in Nat
  BY DEF Entries
<1>2. IsFiniteSet(1 .. e.size) /\ Cardinality(1 .. e.size) = e.size
  <2> DEFINE n == e.size
  <2>1. 1 \in Int /\ n \in Int /\ n >= 0
    BY <1>1
  <2> HIDE DEF n
  <2>2. IsFiniteSet(1 .. n) /\ Cardinality(1 .. n) = IF 1 > n THEN 0 ELSE n - 1 + 1
    BY <2>1, FS_Interval
  <2>3. Cardinality(1 .. n) = n
    BY <2>1, <2>2
  <2> QED BY <2>2, <2>3 DEF n
<1>3. IsFiniteSet({e.source}) /\ Cardinality({e.source}) = 1
  BY FS_Singleton
<1> DEFINE S == {e.source}
           T == 1 .. e.size
<1>4. IsFiniteSet(S \X T) /\ Cardinality(S \X T) = Cardinality(S) * Cardinality(T)
  <2> HIDE DEF S, T
  <2> QED BY <1>2, <1>3, FS_Product DEF S, T
<1> QED BY <1>1, <1>2, <1>3, <1>4

LEMMA MemoryElements ==
  ASSUME NEW m \in Seq(Entries)
  PROVE  /\ ToSet(m) \subseteq Entries
         /\ IsFiniteSet(ToSet(m))
         /\ BytesOf(m) = Cardinality(BytesIn(ToSet(m)))
<1>1. m \in [1 .. Len(m) -> Entries] /\ Len(m) \in Nat
  BY LenProperties
<1>2. ToSet(m) \subseteq Entries
  BY <1>1 DEF ToSet
<1>3. IsFiniteSet(1 .. Len(m))
  BY <1>1, FS_Interval
<1>4. ToSet(m) = {m[i] : i \in 1 .. Len(m)}
  BY <1>1 DEF ToSet
<1>5. m \in Surjection(1 .. Len(m), ToSet(m))
  BY <1>1, <1>4 DEF Surjection
<1>6. IsFiniteSet(ToSet(m))
  BY <1>3, <1>5, FS_Surjection
<1> QED BY <1>2, <1>6 DEF BytesOf, BytesIn

LEMMA BytesFinite ==
  ASSUME NEW E \in SUBSET Entries, IsFiniteSet(E)
  PROVE  IsFiniteSet(BytesIn(E))
<1> DEFINE f == [e \in E |-> {e.source} \X (1 .. e.size)]
           B == {{e.source} \X (1 .. e.size) : e \in E}
<1>1. f \in Surjection(E, B)
  BY DEF Surjection
<1>2. IsFiniteSet(B)
  BY <1>1, FS_Surjection
<1>3. \A b \in B : IsFiniteSet(b)
  BY OneBytes
<1> QED BY <1>2, <1>3, FS_UNION DEF BytesIn

LEMMA BytesAdd ==
  ASSUME NEW E \in SUBSET Entries, NEW F \in SUBSET Entries, IsFiniteSet(E), IsFiniteSet(F),
         \A e \in E, f \in F : e.source # f.source
  PROVE  Cardinality(BytesIn(E \cup F)) = Cardinality(BytesIn(E)) + Cardinality(BytesIn(F))
<1>1. BytesIn(E \cup F) = BytesIn(E) \cup BytesIn(F)
  BY DEF BytesIn
<1>2. BytesIn(E) \cap BytesIn(F) = {}
  BY DEF BytesIn
<1>3. IsFiniteSet(BytesIn(E)) /\ IsFiniteSet(BytesIn(F))
  BY BytesFinite
<1>4. Cardinality(BytesIn(E)) \in Nat /\ Cardinality(BytesIn(F)) \in Nat
  BY <1>3, FS_CardinalityType
<1> DEFINE X == BytesIn(E)
           Y == BytesIn(F)
<1> HIDE DEF X, Y
<1>5. Cardinality(X \cup Y) = Cardinality(X) + Cardinality(Y) - Cardinality(X \cap Y)
  BY <1>3, FS_Union DEF X, Y
<1>6. Cardinality(X \cap Y) = 0
  <2>1. X \cap Y = {}
    BY <1>2 DEF X, Y
  <2> QED BY ONLY <2>1, FS_EmptySet, Zenon
<1>7. Cardinality(X \cup Y) = Cardinality(X) + Cardinality(Y)
  <2>1. Cardinality(X) \in Nat /\ Cardinality(Y) \in Nat
    BY <1>4 DEF X, Y
  <2> QED BY <2>1, <1>5, <1>6
<1> QED BY <1>1, <1>7 DEF X, Y

LEMMA BytesNat ==
  ASSUME NEW m \in Seq(Entries)
  PROVE  BytesOf(m) \in Nat
BY MemoryElements, BytesFinite, FS_CardinalityType

LEMMA BytesNone ==
  BytesOf(<<>>) = 0
<1>1. ToSet(<<>>) = {}
  BY DEF ToSet
<1>2. UNION {{e.source} \X (1 .. e.size) : e \in {}} = {}
  OBVIOUS
<1> QED BY <1>1, <1>2, FS_EmptySet DEF BytesOf

LEMMA BytesSingle ==
  ASSUME NEW e \in Entries
  PROVE  BytesOf(<<e>>) = e.size
<1>1. ToSet(<<e>>) = {e}
  BY DEF ToSet
<1>2. UNION {{x.source} \X (1 .. x.size) : x \in {e}} = {e.source} \X (1 .. e.size)
  OBVIOUS
<1> QED BY <1>1, <1>2, OneBytes DEF BytesOf

(* The bytes of a memory whose payloads fall into two sets of sources. *)
LEMMA BytesParted ==
  ASSUME NEW m \in Seq(Entries), NEW a \in Seq(Entries), NEW b \in Seq(Entries),
         ToSet(m) = ToSet(a) \cup ToSet(b),
         \A e \in ToSet(a), f \in ToSet(b) : e.source # f.source
  PROVE  BytesOf(m) = BytesOf(a) + BytesOf(b)
BY MemoryElements, BytesAdd

(* A memory cut in two. *)
LEMMA CutMemory ==
  ASSUME NEW m \in Memories, NEW k \in 0 .. Len(m)
  PROVE  LET a == SubSeq(m, 1, k)
             b == SubSeq(m, k + 1, Len(m))
         IN /\ a \in Memories /\ b \in Memories
            /\ ToSet(m) = ToSet(a) \cup ToSet(b)
            /\ \A e \in ToSet(a), f \in ToSet(b) : e.source # f.source
<1> DEFINE a == SubSeq(m, 1, k)
           b == SubSeq(m, k + 1, Len(m))
<1>1. /\ m \in Seq(Entries) /\ Len(m) \in Nat /\ DOMAIN m = 1 .. Len(m)
      /\ \A i \in 1 .. Len(m) : m[i] \in Entries
  BY LenProperties DEF Memories
<1>2. /\ a \in Seq(Entries) /\ DOMAIN a = 1 .. k
      /\ \A i \in 1 .. k : a[i] = m[i]
  <2>1. \A i \in 1 .. k : m[i] \in Entries
    BY <1>1
  <2>2. a \in Seq(Entries) /\ Len(a) = k /\ \A i \in 1 .. k : a[i] = m[i]
    BY <2>1, SubSeqProperties
  <2> QED BY <2>2, LenProperties
<1>3. /\ b \in Seq(Entries) /\ DOMAIN b = 1 .. Len(m) - k
      /\ \A i \in 1 .. Len(m) - k : b[i] = m[k + i]
  <2>1. \A i \in k + 1 .. Len(m) : m[i] \in Entries
    BY <1>1
  <2>2. b \in Seq(Entries) /\ Len(b) = Len(m) - k /\ \A i \in 1 .. Len(m) - k : b[i] = m[k + i]
    <3>1. k + 1 \in Int /\ Len(m) \in Int /\ Len(m) - (k + 1) + 1 = Len(m) - k
      BY <1>1
    <3>2. /\ b \in Seq(Entries) /\ Len(b) = IF k + 1 <= Len(m) THEN Len(m) - (k + 1) + 1 ELSE 0
          /\ \A i \in 1 .. Len(m) - (k + 1) + 1 : b[i] = m[(k + 1) + i - 1]
      BY <2>1, <3>1, SubSeqProperties
    <3>3. \A i \in 1 .. Len(m) - k : (k + 1) + i - 1 = k + i
      BY <1>1
    <3> HIDE DEF b
    <3>4. Len(b) = Len(m) - k
      <4>1. CASE k + 1 <= Len(m)
        BY <1>1, <3>1, <3>2, <4>1
      <4>2. CASE k = Len(m)
        BY <1>1, <3>2, <4>2
      <4>3. k + 1 <= Len(m) \/ k = Len(m)
        <5>1. Len(m) \in Nat
          BY <1>1
        <5> QED BY <5>1
      <4> QED BY <4>1, <4>2, <4>3
    <3> QED BY <3>1, <3>2, <3>3, <3>4
  <2> QED BY <2>2, LenProperties
<1>4. \A i, j \in 1 .. Len(m) : m[i].source = m[j].source => i = j
  BY <1>1 DEF Memories, Distinct
<1> HIDE DEF a, b
<1>5. Distinct(a) /\ Distinct(b)
  <2>1. Distinct(a)
    BY <1>1, <1>2, <1>4 DEF Distinct
  <2>2. SUFFICES ASSUME NEW i \in 1 .. Len(m) - k, NEW j \in 1 .. Len(m) - k, b[i].source = b[j].source
                 PROVE  i = j
    BY <1>3, <2>1 DEF Distinct
  <2>3. k + i \in 1 .. Len(m) /\ k + j \in 1 .. Len(m) /\ m[k + i].source = m[k + j].source
    BY <1>1, <1>3, <2>2
  <2>4. k + i = k + j
    BY <1>4, <2>3
  <2> QED BY <2>4
<1>6. ToSet(m) = ToSet(a) \cup ToSet(b)
  <2>1. ToSet(a) \subseteq ToSet(m) /\ ToSet(b) \subseteq ToSet(m)
    <3>1. \A i \in 1 .. Len(m) - k : k + i \in DOMAIN m /\ b[i] = m[k + i]
      BY <1>1, <1>3
    <3>2. \A i \in 1 .. k : i \in DOMAIN m /\ a[i] = m[i]
      BY <1>1, <1>2
    <3>3. ToSet(a) \subseteq ToSet(m)
      BY <3>2, <1>2 DEF ToSet
    <3>4. ToSet(b) \subseteq ToSet(m)
      BY <3>1, <1>3 DEF ToSet
    <3> QED BY <3>3, <3>4
  <2>2. SUFFICES ASSUME NEW i \in 1 .. Len(m)
                 PROVE  m[i] \in ToSet(a) \cup ToSet(b)
    BY <1>1, <2>1 DEF ToSet
  <2>3. CASE i <= k
    BY <1>2, <2>3 DEF ToSet
  <2>4. CASE i > k
    <3>1. i - k \in 1 .. Len(m) - k /\ b[i - k] = m[i]
      BY <1>1, <1>3, <2>4
    <3> QED BY <3>1, <1>3 DEF ToSet
  <2> QED BY <1>1, <2>3, <2>4
<1>7. \A e \in ToSet(a), f \in ToSet(b) : e.source # f.source
  <2> SUFFICES ASSUME NEW i \in 1 .. k, NEW j \in 1 .. Len(m) - k
               PROVE  a[i].source # b[j].source
    BY <1>2, <1>3 DEF ToSet
  <2>1. i \in 1 .. Len(m) /\ k + j \in 1 .. Len(m) /\ i # k + j
    BY <1>1
  <2>2. m[i].source # m[k + j].source
    BY <2>1, <1>4
  <2> QED BY <2>2, <1>2, <1>3
<1> QED BY <1>2, <1>3, <1>5, <1>6, <1>7 DEF a, b, Memories

(* Two memories put together. *)
LEMMA JoinMemory ==
  ASSUME NEW a \in Memories, NEW b \in Memories,
         \A e \in ToSet(a), f \in ToSet(b) : e.source # f.source
  PROVE  /\ a \o b \in Memories
         /\ ToSet(a \o b) = ToSet(a) \cup ToSet(b)
<1>1. /\ a \in Seq(Entries) /\ Len(a) \in Nat /\ DOMAIN a = 1 .. Len(a)
      /\ b \in Seq(Entries) /\ Len(b) \in Nat /\ DOMAIN b = 1 .. Len(b)
  BY LenProperties DEF Memories
<1> DEFINE m == a \o b
<1>2. /\ m \in Seq(Entries) /\ DOMAIN m = 1 .. Len(a) + Len(b)
      /\ \A i \in 1 .. Len(a) + Len(b) : m[i] = IF i <= Len(a) THEN a[i] ELSE b[i - Len(a)]
  BY <1>1, ConcatProperties, LenProperties
<1> HIDE DEF m
<1>3. ToSet(m) = ToSet(a) \cup ToSet(b)
  <2>1. \A i \in 1 .. Len(a) : a[i] = m[i] /\ i \in DOMAIN m
    BY <1>1, <1>2
  <2>2. \A i \in 1 .. Len(b) : b[i] = m[Len(a) + i] /\ Len(a) + i \in DOMAIN m
    BY <1>1, <1>2
  <2>3. ToSet(a) \subseteq ToSet(m) /\ ToSet(b) \subseteq ToSet(m)
    BY <1>1, <2>1, <2>2 DEF ToSet
  <2>4. SUFFICES ASSUME NEW i \in 1 .. Len(a) + Len(b)
                 PROVE  m[i] \in ToSet(a) \cup ToSet(b)
    BY <1>2, <2>3 DEF ToSet
  <2>5. CASE i <= Len(a)
    BY <1>1, <1>2, <2>5 DEF ToSet
  <2>6. CASE i > Len(a)
    <3>1. i - Len(a) \in 1 .. Len(b) /\ m[i] = b[i - Len(a)]
      BY <1>1, <1>2, <2>6
    <3> QED BY <3>1, <1>1 DEF ToSet
  <2> QED BY <1>1, <2>5, <2>6
<1>4. Distinct(m)
  <2>1. SUFFICES ASSUME NEW i \in 1 .. Len(a) + Len(b), NEW j \in 1 .. Len(a) + Len(b),
                        m[i].source = m[j].source
                 PROVE  i = j
    BY <1>2 DEF Distinct
  <2>2. CASE i <= Len(a) /\ j <= Len(a)
    <3>1. i \in DOMAIN a /\ j \in DOMAIN a /\ m[i] = a[i] /\ m[j] = a[j]
      BY <1>1, <1>2, <2>1, <2>2
    <3> QED BY <3>1, <2>1 DEF Memories, Distinct
  <2>3. CASE i > Len(a) /\ j > Len(a)
    <3> DEFINE x == i - Len(a)
               y == j - Len(a)
    <3>1. x \in DOMAIN b /\ y \in DOMAIN b /\ m[i] = b[x] /\ m[j] = b[y]
      BY <1>1, <1>2, <2>1, <2>3
    <3>2. x = y
      BY <3>1, <2>1 DEF Memories, Distinct
    <3> QED BY <1>1, <3>2
  <2>4. CASE i <= Len(a) /\ j > Len(a)
    <3>1. i \in DOMAIN a /\ j - Len(a) \in DOMAIN b /\ m[i] = a[i] /\ m[j] = b[j - Len(a)]
      BY <1>1, <1>2, <2>1, <2>4
    <3>2. a[i] \in ToSet(a) /\ b[j - Len(a)] \in ToSet(b)
      BY <3>1 DEF ToSet
    <3> QED BY <3>1, <3>2, <2>1
  <2>5. CASE i > Len(a) /\ j <= Len(a)
    <3>1. i - Len(a) \in DOMAIN b /\ j \in DOMAIN a /\ m[j] = a[j] /\ m[i] = b[i - Len(a)]
      BY <1>1, <1>2, <2>1, <2>5
    <3>2. a[j] \in ToSet(a) /\ b[i - Len(a)] \in ToSet(b)
      BY <3>1 DEF ToSet
    <3> QED BY <3>1, <3>2, <2>1
  <2> QED BY <1>1, <2>2, <2>3, <2>4, <2>5
<1> QED BY <1>2, <1>3, <1>4 DEF m, Memories

LEMMA OneMemory ==
  ASSUME NEW e \in Entries
  PROVE  <<e>> \in Memories /\ ToSet(<<e>>) = {e}
BY DEF Memories, Distinct, ToSet

(* What is left without a source. *)
LEMMA WithoutIs ==
  ASSUME NEW m \in Memories, NEW s
  PROVE  LET x == Without(m, s)
         IN /\ x \in Memories
            /\ ToSet(x) = {e \in ToSet(m) : e.source # s}
<1>1. /\ m \in Seq(Entries) /\ Len(m) \in Nat /\ DOMAIN m = 1 .. Len(m)
  BY LenProperties DEF Memories
<1>2. CASE \A i \in 1 .. Len(m) : m[i].source # s
  <2>1. Without(m, s) = m
    BY <1>2 DEF Without, RemoveFirstMatch
  <2> QED BY <2>1, <1>1, <1>2 DEF ToSet
<1>3. CASE \E i \in 1 .. Len(m) : m[i].source = s
  <2> DEFINE I == {i \in 1 .. Len(m) : m[i].source = s}
             i == Min(I)
  <2>1. i \in 1 .. Len(m) /\ m[i].source = s
    <3>1. I \in SUBSET Nat /\ I # {}
      BY <1>1, <1>3
    <3>2. i \in I
      BY <3>1, Least DEF Min
    <3> QED BY <3>2
  <2>2. Without(m, s) = SubSeq(m, 1, i - 1) \o SubSeq(m, i + 1, Len(m))
    BY <1>3 DEF Without, RemoveFirstMatch, SelectInSeq, RemoveAt
  <2> HIDE DEF i
  <2> DEFINE a == SubSeq(m, 1, i - 1)
             r == SubSeq(m, i, Len(m))
             b == SubSeq(m, i + 1, Len(m))
  <2>3. /\ a \in Memories /\ r \in Memories
        /\ ToSet(m) = ToSet(a) \cup ToSet(r)
        /\ \A e \in ToSet(a), f \in ToSet(r) : e.source # f.source
    <3>1. i - 1 \in 0 .. Len(m) /\ (i - 1) + 1 = i
      BY <1>1, <2>1
    <3> QED BY <3>1, CutMemory
  <2>4. /\ b \in Memories
        /\ ToSet(r) = {m[i]} \cup ToSet(b)
        /\ \A f \in ToSet(b) : m[i].source # f.source
    <3>1. i \in 0 .. Len(m)
      BY <1>1, <2>1
    <3>2. b \in Memories /\ \A e \in ToSet(SubSeq(m, 1, i)), f \in ToSet(b) : e.source # f.source
      BY <3>1, CutMemory
    <3>3. m[i] \in ToSet(SubSeq(m, 1, i))
      <4>1. \A j \in 1 .. i : m[j] \in Entries
        BY <1>1, <2>1, ElementOfSeq
      <4>2. SubSeq(m, 1, i) \in Seq(Entries) /\ Len(SubSeq(m, 1, i)) = i /\ SubSeq(m, 1, i)[i] = m[i]
        BY <1>1, <2>1, <4>1, SubSeqProperties
      <4>3. i \in DOMAIN SubSeq(m, 1, i)
        BY <1>1, <2>1, <4>2, LenProperties
      <4> QED BY <4>2, <4>3 DEF ToSet
    <3>4. r = <<m[i]>> \o b
      BY <1>1, <2>1, SubSeqRecursiveFirst
    <3>5. m[i] \in Entries
      BY <1>1, <2>1, ElementOfSeq
    <3>6. ToSet(r) = {m[i]} \cup ToSet(b)
      BY <3>2, <3>3, <3>4, <3>5, OneMemory, JoinMemory
    <3> QED BY <3>2, <3>3, <3>6
  <2> HIDE DEF a, b, r
  <2>5. \A e \in ToSet(a), f \in ToSet(b) : e.source # f.source
    BY <2>3, <2>4
  <2>6. a \o b \in Memories /\ ToSet(a \o b) = ToSet(a) \cup ToSet(b)
    BY <2>3, <2>4, <2>5, JoinMemory
  <2>7. ToSet(a) \cup ToSet(b) = {e \in ToSet(m) : e.source # s}
    BY <2>1, <2>3, <2>4
  <2> QED BY <2>2, <2>6, <2>7 DEF a, b
<1> QED BY <1>2, <1>3
-----------------------------------------------------------------------------
(* What the operations on the memory do. *)
LEMMA PayloadIs ==
  ASSUME Accounted, NEW s, Held(s)
  PROVE  Payload(s) \in Entries /\ HeldBy(s) = {Payload(s)}
<1>1. memory \in Seq(Entries) /\ Distinct(memory) /\ ToSet(memory) \subseteq Entries
  BY MemoryElements DEF Accounted, Memories
<1>2. Payload(s) \in HeldBy(s)
  BY DEF Payload, Held
<1>3. \A e, f \in HeldBy(s) : e = f
  BY <1>1 DEF HeldBy, ToSet, Distinct
<1>4. Payload(s) \in Entries
  BY <1>1, <1>2 DEF HeldBy
<1> QED BY <1>2, <1>3, <1>4

(* Taking away a source's own payload takes away its bytes. *)
LEMMA OwnBytesIs ==
  ASSUME Accounted, NEW s
  PROVE  /\ Without(memory, s) \in Memories
         /\ ToSet(Without(memory, s)) = ToSet(memory) \ HeldBy(s)
         /\ memoryBytes - OwnBytes(s) = BytesOf(Without(memory, s))
         /\ memoryBytes - OwnBytes(s) \in 0 .. Budget
<1> DEFINE w == Without(memory, s)
<1>1. memory \in Memories /\ memory \in Seq(Entries)
  BY DEF Accounted, Memories
<1>2. w \in Memories /\ w \in Seq(Entries) /\ ToSet(w) = {e \in ToSet(memory) : e.source # s}
  BY <1>1, WithoutIs DEF Memories
<1> HIDE DEF w
<1>3. ToSet(w) = ToSet(memory) \ HeldBy(s)
  BY <1>2 DEF HeldBy
<1>4. memoryBytes = BytesOf(memory) /\ memoryBytes \in 0 .. Budget /\ Budget \in Nat
  BY OverlayAssumption DEF Accounted, BytesExact
<1>5. BytesOf(w) \in Nat
  BY <1>2, BytesNat
<1>6. OwnBytes(s) \in Nat /\ BytesOf(memory) = BytesOf(w) + OwnBytes(s)
  <2>1. CASE Held(s)
    <3> DEFINE e == Payload(s)
    <3>1. e \in Entries /\ HeldBy(s) = {e}
      BY <2>1, PayloadIs
    <3>2. e.source = s /\ e \in ToSet(memory)
      BY <3>1 DEF HeldBy
    <3>3. OwnBytes(s) = e.size /\ e.size \in Nat
      BY <2>1, <3>1 DEF OwnBytes, Entries
    <3> HIDE DEF e
    <3>4. <<e>> \in Seq(Entries) /\ ToSet(<<e>>) = {e} /\ BytesOf(<<e>>) = e.size
      BY <3>1, OneMemory, BytesSingle DEF Memories
    <3>5. ToSet(memory) = ToSet(w) \cup ToSet(<<e>>)
      BY <1>3, <3>1, <3>2, <3>4
    <3>6. \A f \in ToSet(w), g \in ToSet(<<e>>) : f.source # g.source
      BY <1>2, <3>2, <3>4
    <3>7. BytesOf(memory) = BytesOf(w) + BytesOf(<<e>>)
      <4> DEFINE b == <<e>>
      <4>1. b \in Seq(Entries) /\ ToSet(memory) = ToSet(w) \cup ToSet(b)
            /\ \A f \in ToSet(w), g \in ToSet(b) : f.source # g.source
        BY <3>4, <3>5, <3>6
      <4> HIDE DEF b
      <4>2. memory \in Seq(Entries) /\ w \in Seq(Entries)
        BY <1>1, <1>2
      <4>3. BytesOf(memory) = BytesOf(w) + BytesOf(b)
        BY <4>1, <4>2, BytesParted
      <4> QED BY <4>3 DEF b
    <3> QED BY <3>3, <3>4, <3>7
  <2>2. CASE ~Held(s)
    <3>1. ToSet(w) = ToSet(memory)
      BY <1>3, <2>2 DEF Held
    <3>2. BytesOf(w) = BytesOf(memory)
      BY <3>1 DEF BytesOf
    <3>3. OwnBytes(s) = 0
      BY <2>2 DEF OwnBytes
    <3> QED BY <1>5, <3>2, <3>3
  <2> QED BY <2>1, <2>2
<1>7. memoryBytes - OwnBytes(s) = BytesOf(w) /\ memoryBytes - OwnBytes(s) \in 0 .. Budget
  BY <1>4, <1>5, <1>6
<1> QED BY <1>2, <1>3, <1>7 DEF w

(* Evicting the oldest payloads makes the room a new one needs. *)
LEMMA EvictionsIs ==
  ASSUME NEW m \in Memories, NEW size \in 0 .. Budget
  PROVE  LET k == Evictions(m, BytesOf(m), size)
             rest == SubSeq(m, k + 1, Len(m))
         IN /\ rest \in Memories
            /\ ToSet(rest) \subseteq ToSet(m)
            /\ BytesOf(m) - Evicted(m, k) = BytesOf(rest)
            /\ BytesOf(m) - Evicted(m, k) + size \in 0 .. Budget
<1> DEFINE left(k) == BytesOf(m) - Evicted(m, k)
           fits(k) == left(k) + size <= Budget \/ k = Len(m)
<1>1. m \in Seq(Entries) /\ Len(m) \in Nat /\ Budget \in Nat /\ size \in Nat /\ size <= Budget
  <2>1. m \in Seq(Entries)
    BY DEF Memories
  <2> QED BY <2>1, LenProperties, OverlayAssumption
<1>2. \A k \in 0 .. Len(m) :
        /\ SubSeq(m, k + 1, Len(m)) \in Memories
        /\ ToSet(SubSeq(m, k + 1, Len(m))) \subseteq ToSet(m)
        /\ left(k) = BytesOf(SubSeq(m, k + 1, Len(m)))
        /\ left(k) \in Nat
  <2> SUFFICES ASSUME NEW k \in 0 .. Len(m)
               PROVE  /\ SubSeq(m, k + 1, Len(m)) \in Memories
                      /\ ToSet(SubSeq(m, k + 1, Len(m))) \subseteq ToSet(m)
                      /\ left(k) = BytesOf(SubSeq(m, k + 1, Len(m)))
                      /\ left(k) \in Nat
    OBVIOUS
  <2> DEFINE a == SubSeq(m, 1, k)
             b == SubSeq(m, k + 1, Len(m))
  <2>1. /\ a \in Memories /\ b \in Memories
        /\ ToSet(m) = ToSet(a) \cup ToSet(b)
        /\ \A e \in ToSet(a), f \in ToSet(b) : e.source # f.source
    BY CutMemory
  <2>2. Evicted(m, k) = BytesOf(a)
    BY DEF Evicted
  <2> HIDE DEF a, b
  <2>3. a \in Seq(Entries) /\ b \in Seq(Entries)
    BY <2>1 DEF Memories
  <2>4. BytesOf(m) = BytesOf(a) + BytesOf(b) /\ BytesOf(a) \in Nat /\ BytesOf(b) \in Nat
    BY <1>1, <2>1, <2>3, BytesParted, BytesNat
  <2>5. left(k) = BytesOf(b) /\ left(k) \in Nat
    BY <2>2, <2>4
  <2> QED BY <2>1, <2>5 DEF b
<1>3. left(Len(m)) = 0
  <2>1. left(Len(m)) = BytesOf(SubSeq(m, Len(m) + 1, Len(m)))
    BY <1>1, <1>2
  <2>2. SubSeq(m, Len(m) + 1, Len(m)) = <<>>
    BY <1>1, SubSeqEmpty
  <2> QED BY <2>1, <2>2, BytesNone
<1> HIDE DEF left
<1>4. PICK k \in 0 .. Len(m) : fits(k) /\ \A j \in 0 .. k - 1 : left(j) + size > Budget
  <2> DEFINE T == {k \in 0 .. Len(m) : fits(k)}
  <2>1. T \in SUBSET Nat /\ T # {}
    BY <1>1
  <2>2. PICK k \in T : \A j \in T : k <= j
    <3> HIDE DEF T
    <3> QED BY <2>1, Least
  <2>3. k \in 0 .. Len(m) /\ fits(k)
    BY <2>2
  <2>4. ASSUME NEW j \in 0 .. k - 1
        PROVE  left(j) + size > Budget
    <3>1. j \in 0 .. Len(m) /\ j # Len(m) /\ ~(k <= j)
      BY <1>1, <2>3
    <3>2. ~fits(j)
      BY <2>2, <3>1
    <3>3. left(j) \in Nat
      BY <1>2, <3>1
    <3> QED BY <1>1, <3>2, <3>3
  <2> QED BY <2>3, <2>4
<1> DEFINE c == Evictions(m, BytesOf(m), size)
<1>5. c \in 0 .. Len(m) /\ fits(c)
  BY <1>4 DEF Evictions, left
<1> HIDE DEF c
<1>6. left(c) + size \in 0 .. Budget
  <2>1. left(c) \in Nat
    BY <1>2, <1>5
  <2>2. CASE left(c) + size <= Budget
    BY <1>1, <2>1, <2>2
  <2>3. CASE c = Len(m)
    BY <1>1, <1>3, <2>3
  <2> QED BY <1>5, <2>2, <2>3
<1> QED BY <1>2, <1>5, <1>6 DEF c, left

(* rememberMemory() keeps the others' payloads apart and accounted; it may *)
(* lose some of them, and adds none but the new one.                       *)
LEMMA RememberIs ==
  ASSUME Accounted, NEW e \in Entries, Remember(e)
  PROVE  Accounted' /\ ToSet(memory') \subseteq (ToSet(memory) \ HeldBy(e.source)) \cup {e}
<1> DEFINE w == Without(memory, e.source)
           bytes == memoryBytes - OwnBytes(e.source)
           k == Evictions(w, bytes, e.size)
           rest == SubSeq(w, k + 1, Len(w))
<1>1. /\ w \in Memories
      /\ ToSet(w) = ToSet(memory) \ HeldBy(e.source)
      /\ bytes = BytesOf(w) /\ bytes \in 0 .. Budget
  BY OwnBytesIs
<1>2. e.size \in Nat /\ Budget \in Nat
  BY OverlayAssumption DEF Entries
<1>3. CASE e.size > Budget
  <2>1. memory' = w /\ memoryBytes' = bytes
    BY <1>3 DEF Remember
  <2> HIDE DEF w, bytes
  <2> QED BY <1>1, <2>1 DEF Accounted, BytesExact
<1>4. CASE ~(e.size > Budget)
  <2>1. memory' = rest \o <<e>> /\ memoryBytes' = bytes - Evicted(w, k) + e.size
    BY <1>4 DEF Remember
  <2>2. /\ rest \in Memories
        /\ ToSet(rest) \subseteq ToSet(w)
        /\ bytes - Evicted(w, k) = BytesOf(rest)
        /\ bytes - Evicted(w, k) + e.size \in 0 .. Budget
    <3>1. e.size \in 0 .. Budget
      BY <1>2, <1>4
    <3> HIDE DEF w
    <3> QED BY <1>1, <3>1, EvictionsIs
  <2> HIDE DEF rest, k, bytes, w
  <2> DEFINE b == <<e>>
  <2>3. b \in Memories /\ ToSet(b) = {e} /\ BytesOf(b) = e.size
    BY OneMemory, BytesSingle
  <2>4. memory' = rest \o b
    BY <2>1
  <2> HIDE DEF b
  <2>5. \A f \in ToSet(rest), g \in ToSet(b) : f.source # g.source
    BY <1>1, <2>2, <2>3 DEF HeldBy
  <2>6. memory' \in Memories /\ ToSet(memory') = ToSet(rest) \cup ToSet(b)
    BY <2>2, <2>3, <2>4, <2>5, JoinMemory
  <2>7. BytesOf(memory') = BytesOf(rest) + BytesOf(b)
    <3>1. rest \in Seq(Entries) /\ b \in Seq(Entries) /\ memory' \in Seq(Entries)
      BY <2>2, <2>3, <2>6 DEF Memories
    <3> QED BY <3>1, <2>5, <2>6, BytesParted
  <2>8. memoryBytes' = BytesOf(memory') /\ memoryBytes' \in 0 .. Budget
    BY <2>1, <2>2, <2>3, <2>7
  <2> QED BY <1>1, <2>2, <2>3, <2>6, <2>8 DEF Accounted, BytesExact
<1> QED BY <1>3, <1>4

(* forgetMemory() takes away one source's payload, and its mark. *)
LEMMA ForgetIs ==
  ASSUME Accounted, NEW s, Forget(s)
  PROVE  Accounted' /\ ToSet(memory') = ToSet(memory) \ HeldBy(s)
<1>1. memory' = Without(memory, s) /\ memoryBytes' = memoryBytes - OwnBytes(s)
  BY DEF Forget
<1> QED BY <1>1, OwnBytesIs DEF Accounted, BytesExact

LEMMA MemoryStays ==
  ASSUME Accounted, UNCHANGED <<memory, memoryBytes>>
  PROVE  Accounted' /\ ToSet(memory') = ToSet(memory)
BY DEF Accounted, BytesExact
-----------------------------------------------------------------------------
(* The invariant. *)
LaneRecords == [phase : {"free", "writing", "committed"}, job : Jobs, ticket : BOOLEAN, next : Jobs]
TaskRecords == [phase : {"none", "pin", "absent", "activate", "committed"}, source : SUBSET Sources,
                owned : BOOLEAN, retain : BOOLEAN, view : Views]
FlushRecords == [phase : {"idle", "lanes", "task", "deletions", "deleting", "memory", "writing"},
                 deletions : SUBSET Sources, entries : Seq(Entries)]
Vault == [Sources -> [at : Contents, present : BOOLEAN]]
Heads == [Sources -> [state : States, body : Contents, rev : Nat]]

(* The types of everything but the memory. *)
Typed ==
  /\ host \in Vault
  /\ pass \in Nat
  /\ askedBy \in [Sources -> Nat]
  /\ due \subseteq Sources
  /\ disk \in Heads
  /\ unsaved \subseteq Sources
  /\ pending \in [Sources -> {"none", "drop", "retain"}]
  /\ lane \in [Sources -> LaneRecords]
  /\ task \in TaskRecords
  /\ flush \in FlushRecords
  /\ timer \in BOOLEAN
  /\ disturbances \in 0 .. MaxDisturbances
  /\ accepted \in [Sources -> Contents]
  /\ deletedAt \in [Sources -> Contents]

(* Neither a running write nor a waiting one can still select a head. *)
Quiet(s) == ~lane[s].ticket /\ lane[s].next = NoJob

(* A live head on disk that may be read again. *)
Fresh(s) ==
  disk[s].state = "complete" => disk[s].body >= accepted[s] /\ disk[s].body > deletedAt[s]

(* Nothing is known that the vault has not said, and a file that exists    *)
(* has changed since its last deletion.                                    *)
VaultAhead ==
  \A s \in Sources :
    /\ accepted[s] <= host[s].at /\ deletedAt[s] <= host[s].at
    /\ host[s].present => deletedAt[s] < host[s].at
    /\ host[s].at <= MaxEvents[s]

JobsKnown ==
  \A s \in Sources : lane[s].job.body <= host[s].at /\ lane[s].next.body <= host[s].at

(* A pending deletion has silenced the lane of its source. *)
QuietLanes == \A s \in Sources : pending[s] # "none" \/ lane[s].phase = "free" => Quiet(s)

(* The task works for one source, and owns its request while that pends. *)
TaskOwned ==
  /\ \A x, y \in task.source : x = y
  /\ \A s \in task.source : task.owned => pending[s] # "none"

(* What a write selected is not replaced by anything older while it may    *)
(* still take the mark away.                                               *)
WriteLands ==
  \A s \in Sources : /\ lane[s].phase = "committed"
                     /\ lane[s].ticket
                     /\ disk[s].state = "complete"
                     => disk[s].body >= lane[s].job.body

(* Without a mark the head on disk may be read. *)
MarksKeep == \A s \in Sources : s \notin unsaved => Fresh(s)

(* The head a deletion retired stays so until the file comes back. *)
RetiredHead ==
  \A s \in task.source : task.phase = "committed" /\ task.owned =>
    /\ Fresh(s)
    /\ host[s].present \/ disk[s].state # "complete"

Order ==
  /\ VaultAhead /\ JobsKnown /\ QuietLanes /\ TaskOwned /\ WriteLands /\ MarksKeep /\ RetiredHead

IInv == Accounted /\ Typed /\ Order

LEMMA TypeParts == TypeOK /\ BytesExact <=> Accounted /\ Typed
BY DEF TypeOK, Accounted, Typed, Memories, Distinct, LaneRecords, TaskRecords, FlushRecords,
       Vault, Heads

LEMMA FixedRecords ==
  /\ NoJob \in Jobs /\ NoJob.body = 0
  /\ NoView \in Views
  /\ FreeLane \in LaneRecords
  /\ FreeLane.phase = "free" /\ ~FreeLane.ticket /\ FreeLane.next = NoJob /\ FreeLane.job = NoJob
  /\ NoTask \in TaskRecords /\ NoTask.phase = "none" /\ NoTask.source = {}
  /\ IdleFlush \in FlushRecords
<1>1. NoJob \in Jobs /\ NoJob.body = 0 /\ NoView \in Views
  BY DEF NoJob, Jobs, NoView, Views, Contents, Nothing, Unavailable
<1>2. FreeLane \in LaneRecords
  BY <1>1 DEF FreeLane, LaneRecords
<1>3. NoTask \in TaskRecords
  BY <1>1 DEF NoTask, TaskRecords
<1>4. IdleFlush \in FlushRecords
  BY EmptySeq DEF IdleFlush, FlushRecords
<1> QED BY <1>1, <1>2, <1>3, <1>4 DEF FreeLane, NoTask

LEMMA InitTyped == Init => Typed
<1> SUFFICES ASSUME Init PROVE Typed
  OBVIOUS
<1>1. host \in Vault /\ disk \in Heads
  <2>1. host \in Vault
    BY DEF Init, Vault, Contents
  <2>2. disk \in Heads
    BY DEF Init, Heads, States, Contents, Nothing
  <2> QED BY <2>1, <2>2
<1>2. lane \in [Sources -> LaneRecords] /\ task \in TaskRecords /\ flush \in FlushRecords
  BY FixedRecords DEF Init
<1>3. /\ accepted \in [Sources -> Contents] /\ deletedAt \in [Sources -> Contents]
      /\ pending \in [Sources -> {"none", "drop", "retain"}]
      /\ pass \in Nat /\ askedBy \in [Sources -> Nat]
  BY DEF Init, Contents, Nothing
<1>4. due \subseteq Sources /\ unsaved \subseteq Sources /\ timer \in BOOLEAN
      /\ disturbances \in 0 .. MaxDisturbances
  <2>1. due \subseteq Sources /\ unsaved \subseteq Sources /\ timer \in BOOLEAN
    BY DEF Init
  <2>2. disturbances \in 0 .. MaxDisturbances
    BY OverlayAssumption DEF Init
  <2> QED BY <2>1, <2>2
<1> QED BY <1>1, <1>2, <1>3, <1>4 DEF Typed

LEMMA InitInv == Init => IInv
<1> SUFFICES ASSUME Init PROVE IInv
  OBVIOUS
<1>1. Typed
  BY InitTyped
<1>2. Accounted
  BY BytesNone, EmptySeq, OverlayAssumption DEF Init, Accounted, BytesExact, Memories, Distinct
<1>3. Order
  BY OverlayAssumption
  DEF Init, Order, VaultAhead, JobsKnown, QuietLanes, TaskOwned, WriteLands, MarksKeep, RetiredHead,
      Fresh, Quiet, FreeLane, NoTask, NoJob, Nothing
<1> QED BY <1>1, <1>2, <1>3 DEF IInv
-----------------------------------------------------------------------------
(* Lanes. *)
LEMMA LaneFacts ==
  ASSUME Typed, NEW s \in Sources
  PROVE  /\ lane[s] \in LaneRecords /\ lane[s].phase \in {"free", "writing", "committed"}
         /\ lane[s].job \in Jobs /\ lane[s].job.body \in Nat /\ lane[s].job.base \in Int
         /\ lane[s].job.pass \in Nat /\ lane[s].ticket \in BOOLEAN
         /\ lane[s].next \in Jobs /\ lane[s].next.body \in Nat
BY DEF Typed, LaneRecords, Jobs, Contents

(* Only the lane of s moves, to something the vault has said.              *)
LaneMoves(s) ==
  /\ lane' \in [Sources -> LaneRecords]
  /\ \A x \in Sources \ {s} : lane'[x] = lane[x]
  /\ lane'[s].job.body <= host[s].at /\ lane'[s].next.body <= host[s].at

LEMMA CancelledMoves ==
  ASSUME Typed, Order, NEW s \in Sources, lane' = Cancelled(s)
  PROVE  LaneMoves(s) /\ ~lane'[s].ticket /\ lane'[s].next = NoJob
<1>1. lane \in [Sources -> LaneRecords] /\ lane[s].job.body <= host[s].at /\ host[s].at \in Nat
      /\ lane[s].next.body <= host[s].at
  BY DEF Typed, Order, JobsKnown, Vault, Contents
<1>2. CASE lane[s].phase = "free"
  BY <1>1, <1>2 DEF Cancelled, LaneMoves, Order, QuietLanes, Quiet
<1>3. CASE lane[s].phase # "free"
  <2> DEFINE r == [lane[s] EXCEPT !.ticket = FALSE, !.next = NoJob]
  <2>1. lane' = [lane EXCEPT ![s] = r]
    BY <1>1, <1>3 DEF Cancelled
  <2>2. r \in LaneRecords /\ ~r.ticket /\ r.next = NoJob /\ r.job = lane[s].job
    BY <1>1, FixedRecords DEF LaneRecords
  <2> HIDE DEF r
  <2>3. lane'[s] = r /\ lane' \in [Sources -> LaneRecords] /\ \A x \in Sources \ {s} : lane'[x] = lane[x]
    BY <1>1, <2>1, <2>2
  <2> QED BY <1>1, <2>2, <2>3, FixedRecords DEF LaneMoves
<1> QED BY <1>2, <1>3

(* A lane that ends, or tries once more. *)
LEMMA LaneGoesOn ==
  ASSUME Typed, Order, NEW s \in Sources,
         EndLane(s) \/ (AttemptEnds(s) /\ lane[s].ticket)
  PROVE  /\ LaneMoves(s)
         /\ lane'[s].phase # "committed"
         /\ pending[s] # "none" \/ lane'[s].phase = "free" => ~lane'[s].ticket /\ lane'[s].next = NoJob
<1>1. /\ lane \in [Sources -> LaneRecords] /\ lane[s].job.body <= host[s].at /\ host[s].at \in Nat
      /\ lane[s].next.body <= host[s].at
      /\ pending[s] # "none" => Quiet(s)
  BY DEF Typed, Order, JobsKnown, QuietLanes, Vault, Contents
<1>2. CASE EndLane(s) /\ lane[s].next = NoJob
  <2>1. lane' = [lane EXCEPT ![s] = FreeLane]
    BY <1>2 DEF EndLane
  <2>2. lane'[s] = FreeLane /\ lane' \in [Sources -> LaneRecords] /\ \A x \in Sources \ {s} : lane'[x] = lane[x]
    BY <1>1, <2>1, FixedRecords
  <2> QED BY <1>1, <2>2, FixedRecords DEF LaneMoves
<1>3. CASE EndLane(s) /\ lane[s].next # NoJob
  <2> DEFINE r == [phase |-> "writing", job |-> lane[s].next, ticket |-> TRUE, next |-> NoJob]
  <2>1. lane' = [lane EXCEPT ![s] = r]
    BY <1>3 DEF EndLane
  <2>2. r \in LaneRecords /\ r.phase = "writing" /\ r.job = lane[s].next /\ r.next = NoJob
    BY <1>1, FixedRecords DEF LaneRecords
  <2> HIDE DEF r
  <2>3. lane'[s] = r /\ lane' \in [Sources -> LaneRecords] /\ \A x \in Sources \ {s} : lane'[x] = lane[x]
    BY <1>1, <2>1, <2>2
  <2>4. pending[s] = "none"
    BY <1>1, <1>3 DEF Quiet
  <2> QED BY <1>1, <2>2, <2>3, <2>4, FixedRecords DEF LaneMoves
<1>4. CASE ~EndLane(s) /\ AttemptEnds(s) /\ lane[s].ticket
  <2> DEFINE j == [lane[s].job EXCEPT !.by = "again"]
             r == [lane[s] EXCEPT !.phase = "writing", !.job = j]
  <2>1. lane' = [lane EXCEPT ![s] = r]
    <3>1. lane' = [lane EXCEPT ![s].phase = "writing", ![s].job.by = "again"]
      BY <1>4 DEF AttemptEnds
    <3>2. [lane[s] EXCEPT !.phase = "writing", !.job.by = "again"] = r
      BY <1>1 DEF LaneRecords, Jobs
    <3> QED BY <1>1, <3>1, <3>2
  <2>2. j \in Jobs /\ j.body = lane[s].job.body
    BY <1>1 DEF LaneRecords, Jobs
  <2> HIDE DEF j
  <2>3. r \in LaneRecords /\ r.phase = "writing" /\ r.job = j /\ r.next = lane[s].next
    BY <1>1, <2>2 DEF LaneRecords
  <2> HIDE DEF r
  <2>4. lane'[s] = r /\ lane' \in [Sources -> LaneRecords] /\ \A x \in Sources \ {s} : lane'[x] = lane[x]
    BY <1>1, <2>1, <2>3
  <2>5. pending[s] = "none"
    BY <1>1, <1>4 DEF Quiet
  <2> QED BY <1>1, <2>2, <2>3, <2>4, <2>5 DEF LaneMoves
<1> QED BY <1>2, <1>3, <1>4

LEMMA CurrentJob ==
  ASSUME Typed, Order, NEW s \in Sources, JobCurrent(s)
  PROVE  /\ lane[s].ticket /\ host[s].present /\ lane[s].job.body = host[s].at
         /\ host[s].at \in 1 .. MaxEvents[s] /\ MaxEvents[s] \in Nat
         /\ pending[s] = "none"
         /\ s \in task.source => ~task.owned
         /\ accepted[s] <= host[s].at /\ deletedAt[s] < host[s].at
<1>1. lane[s].ticket /\ host[s].present /\ host[s].at = lane[s].job.body
  BY DEF JobCurrent, FactsCurrent, Unchanged
<1>2. pending[s] = "none"
  BY <1>1 DEF Order, QuietLanes, Quiet
<1>3. s \in task.source => ~task.owned
  BY <1>2 DEF Order, TaskOwned
<1>4. /\ accepted[s] <= host[s].at /\ deletedAt[s] < host[s].at /\ host[s].at <= MaxEvents[s]
      /\ host[s].at \in Nat /\ deletedAt[s] \in Nat /\ MaxEvents[s] \in Nat
  BY <1>1, OverlayAssumption DEF Order, VaultAhead, Typed, Vault, Contents
<1> QED BY <1>1, <1>2, <1>3, <1>4

LEMMA SelectedFacts ==
  ASSUME Typed, Order, NEW s \in Sources, JobCurrent(s), SelectFacts(s)
  PROVE  /\ disk' \in Heads
         /\ \A x \in Sources \ {s} : disk'[x] = disk[x]
         /\ disk'[s].state = "complete" /\ disk'[s].body = host[s].at
<1> DEFINE r == [state |-> "complete", body |-> lane[s].job.body, rev |-> disk[s].rev + 1]
<1>1. disk' = [disk EXCEPT ![s] = r]
  BY DEF SelectFacts
<1>2. disk \in Heads /\ disk[s].rev \in Nat /\ lane[s].job.body \in Nat
  BY LaneFacts DEF Typed, Heads
<1>3. r \in [state : States, body : Contents, rev : Nat] /\ r.state = "complete" /\ r.body = lane[s].job.body
  BY <1>2 DEF States, Contents
<1> HIDE DEF r
<1> QED BY <1>1, <1>2, <1>3, CurrentJob DEF Heads

(* What a step of the lane of s leaves true, whatever it does to the head, *)
(* the marks and the history of s.                                         *)
LEMMA LaneKeepsOrder ==
  ASSUME Typed, Order, NEW s \in Sources, LaneMoves(s),
         UNCHANGED <<host, pending, task, deletedAt>>,
         pending[s] # "none" \/ lane'[s].phase = "free" => ~lane'[s].ticket /\ lane'[s].next = NoJob,
         disk' \in Heads, \A x \in Sources \ {s} : disk'[x] = disk[x],
         disk'[s] = disk[s] \/ (JobCurrent(s) /\ disk'[s].state = "complete" /\ disk'[s].body = host[s].at),
         accepted' \in [Sources -> Contents], \A x \in Sources \ {s} : accepted'[x] = accepted[x],
         accepted'[s] = accepted[s] \/ (JobCurrent(s) /\ accepted'[s] = host[s].at),
         \A x \in Sources \ {s} : x \in unsaved' <=> x \in unsaved,
         s \notin unsaved' => Fresh(s)',
         lane'[s].phase = "committed" /\ lane'[s].ticket /\ disk'[s].state = "complete"
           => disk'[s].body >= lane'[s].job.body
  PROVE  Order'
<1>1. VaultAhead'
  <2>1. \A x \in Sources : host'[x] = host[x] /\ deletedAt'[x] = deletedAt[x] /\ host[x].at \in Nat
    BY DEF Typed, Vault, Contents
  <2>2. \A x \in Sources : accepted'[x] = accepted[x] \/ accepted'[x] = host[x].at
    OBVIOUS
  <2> QED BY <2>1, <2>2 DEF Order, VaultAhead
<1>2. JobsKnown'
  BY DEF Order, JobsKnown, LaneMoves
<1>3. QuietLanes'
  BY DEF Order, QuietLanes, Quiet, LaneMoves
<1>4. TaskOwned'
  BY DEF Order, TaskOwned
<1>5. WriteLands'
  BY DEF Order, WriteLands, LaneMoves
<1>6. \A x \in Sources \ {s} : Fresh(x)' <=> Fresh(x)
  BY DEF Fresh
<1>7. MarksKeep'
  BY <1>6 DEF Order, MarksKeep
<1>8. RetiredHead'
  <2>1. SUFFICES ASSUME NEW x \in task.source, task.phase = "committed", task.owned
                 PROVE  Fresh(x)' /\ (host[x].present \/ disk'[x].state # "complete")
    BY DEF RetiredHead
  <2>2. x \in Sources /\ Fresh(x) /\ (host[x].present \/ disk[x].state # "complete")
    BY <2>1 DEF Order, RetiredHead, Typed, TaskRecords
  <2>3. CASE x # s
    BY <1>6, <2>2, <2>3
  <2>4. CASE x = s
    <3>1. ~JobCurrent(s)
      BY <2>1, <2>4, CurrentJob
    <3>2. disk'[s] = disk[s] /\ accepted'[s] = accepted[s] /\ deletedAt'[s] = deletedAt[s]
      BY <3>1
    <3> QED BY <2>2, <2>4, <3>2 DEF Fresh
  <2> QED BY <2>3, <2>4
<1> QED BY <1>1, <1>2, <1>3, <1>4, <1>5, <1>7, <1>8 DEF Order

LEMMA FreshFacts ==
  ASSUME Typed, Order, NEW s \in Sources, JobCurrent(s), disk'[s].state = "complete",
         disk'[s].body = host[s].at, accepted'[s] <= host[s].at, deletedAt' = deletedAt
  PROVE  Fresh(s)'
BY CurrentJob DEF Fresh

LEMMA Disturbing ==
  ASSUME Typed, Disturb \/ Undisturbed
  PROVE  disturbances' \in 0 .. MaxDisturbances
BY OverlayAssumption DEF Typed, Disturb, Undisturbed

LEMMA ArmIsBoolean ==
  ASSUME NEW m, NEW p
  PROVE  Arm(m, p) \in BOOLEAN
BY DEF Arm

(* Storage refused: the facts are remembered or at least marked, whatever  *)
(* became of the head.                                                     *)
LEMMA FactsRefusedKeeps ==
  ASSUME IInv, NEW s \in Sources, JobCurrent(s), FactsRefused(s), UNCHANGED disk \/ SelectFacts(s),
         UNCHANGED <<host, pass, due, pending, askedBy, task, flush, deletedAt>>
  PROVE  IInv'
<1> DEFINE job == lane[s].job
           e == [source |-> s, state |-> "complete", body |-> job.body,
                 base |-> job.base, size |-> Size[s][job.body], pass |-> job.pass]
<1>1. Accounted /\ Typed /\ Order
  BY DEF IInv
<1>2. /\ accepted \in [Sources -> Contents] /\ unsaved \subseteq Sources /\ disk \in Heads
  BY <1>1 DEF Typed
<1>3. /\ lane[s].ticket /\ job.body = host[s].at /\ job.body \in 1 .. MaxEvents[s]
      /\ MaxEvents[s] \in Nat /\ job.base \in Int /\ job.pass \in Nat
  BY <1>1, CurrentJob, LaneFacts
<1>4. Accounted'
  <2>1. e \in Entries
    <3>1. Size[s][job.body] \in Nat
      BY <1>3, OverlayAssumption
    <3>2. job.body \in Nat
      BY <1>3
    <3> HIDE DEF job
    <3> QED BY <1>3, <3>1, <3>2 DEF Entries, Contents
  <2>2. CASE UNCHANGED <<memory, memoryBytes>>
    BY <1>1, <2>2, MemoryStays
  <2>3. CASE Remember(e)
    <3> HIDE DEF e
    <3> QED BY <1>1, <2>1, <2>3, RememberIs
  <2> QED BY <2>2, <2>3 DEF FactsRefused
<1>5. /\ unsaved' = unsaved \cup {s}
      /\ accepted' = [accepted EXCEPT ![s] = job.body]
      /\ timer' \in BOOLEAN
      /\ disturbances' \in 0 .. MaxDisturbances
      /\ AttemptEnds(s)
  BY <1>1, Disturbing, ArmIsBoolean DEF FactsRefused
<1>6. accepted' \in [Sources -> Contents] /\ accepted'[s] = host[s].at /\ \A x \in Sources \ {s} : accepted'[x] = accepted[x]
  BY <1>2, <1>3, <1>5 DEF Contents
<1>7. LaneMoves(s) /\ lane'[s].phase # "committed"
  BY <1>1, <1>3, <1>5, LaneGoesOn
<1>8. /\ disk' \in Heads /\ \A x \in Sources \ {s} : disk'[x] = disk[x]
      /\ disk'[s] = disk[s] \/ (disk'[s].state = "complete" /\ disk'[s].body = host[s].at)
  BY <1>1, <1>2, SelectedFacts
<1>9. Order'
  BY <1>1, <1>3, <1>5, <1>6, <1>7, <1>8, LaneGoesOn, LaneKeepsOrder
<1>10. Typed'
  BY <1>1, <1>2, <1>5, <1>6, <1>7, <1>8 DEF Typed, LaneMoves
<1> QED BY <1>4, <1>9, <1>10 DEF IInv

(* write() up to its activation. *)
LEMMA LaneWritesKeeps ==
  ASSUME IInv, NEW s \in Sources, LaneWrites(s),
         UNCHANGED <<host, pass, due, pending, askedBy, task, flush, deletedAt>>
  PROVE  IInv'
<1>1. Accounted /\ Typed /\ Order
  BY DEF IInv
<1>2. /\ accepted \in [Sources -> Contents] /\ unsaved \subseteq Sources /\ disk \in Heads
      /\ accepted[s] <= host[s].at
      /\ s \notin unsaved => Fresh(s)
  BY <1>1 DEF Typed, Order, MarksKeep, VaultAhead
<1>3. CASE /\ EndLane(s)
           /\ UNCHANGED <<disk, memory, memoryBytes, unsaved, timer, disturbances, accepted>>
  <2>1. LaneMoves(s) /\ lane'[s].phase # "committed"
    BY <1>1, <1>3, LaneGoesOn
  <2>2. Order'
    BY <1>1, <1>2, <1>3, <2>1, LaneGoesOn, LaneKeepsOrder DEF Fresh
  <2>3. Typed'
    BY <1>1, <1>3, <2>1 DEF Typed, LaneMoves
  <2> QED BY <1>1, <1>3, <2>2, <2>3, MemoryStays DEF IInv
<1>4. CASE /\ JobCurrent(s)
           /\ SelectFacts(s)
           /\ lane' = [lane EXCEPT ![s].phase = "committed"]
           /\ UNCHANGED <<memory, memoryBytes, unsaved, timer, disturbances, accepted>>
  <2>1. /\ disk' \in Heads /\ \A x \in Sources \ {s} : disk'[x] = disk[x]
        /\ disk'[s].state = "complete" /\ disk'[s].body = host[s].at
    BY <1>1, <1>4, SelectedFacts
  <2>2. pending[s] = "none" /\ lane[s].job.body = host[s].at /\ host[s].at \in Nat
    BY <1>1, <1>4, CurrentJob
  <2>3. /\ lane' \in [Sources -> LaneRecords] /\ \A x \in Sources \ {s} : lane'[x] = lane[x]
        /\ lane'[s].phase = "committed" /\ lane'[s].job = lane[s].job /\ lane'[s].next = lane[s].next
    BY <1>1, <1>4 DEF Typed, LaneRecords
  <2>4. LaneMoves(s)
    BY <1>1, <2>3 DEF LaneMoves, Order, JobsKnown
  <2>5. Fresh(s)'
    BY <1>1, <1>2, <1>4, <2>1, FreshFacts
  <2>6. Order'
    BY <1>1, <1>2, <1>4, <2>1, <2>2, <2>3, <2>4, <2>5, LaneKeepsOrder
  <2>7. Typed'
    BY <1>1, <1>4, <2>1, <2>3 DEF Typed
  <2> QED BY <1>1, <1>4, <2>6, <2>7, MemoryStays DEF IInv
<1>5. CASE /\ JobCurrent(s) /\ Disturb
           /\ AttemptEnds(s)
           /\ UNCHANGED <<disk, memory, memoryBytes, unsaved, timer, accepted>>
  <2>1. LaneMoves(s) /\ lane'[s].phase # "committed" /\ lane[s].ticket
    BY <1>1, <1>5, CurrentJob, LaneGoesOn
  <2>2. Order'
    BY <1>1, <1>2, <1>5, <2>1, LaneGoesOn, LaneKeepsOrder DEF Fresh
  <2>3. Typed'
    BY <1>1, <1>5, <2>1, Disturbing DEF Typed, LaneMoves
  <2> QED BY <1>1, <1>5, <2>2, <2>3, MemoryStays DEF IInv
<1>6. CASE JobCurrent(s) /\ FactsRefused(s)
  BY <1>6, FactsRefusedKeeps DEF LaneWrites, JobCurrent
<1> QED BY <1>3, <1>4, <1>5, <1>6 DEF LaneWrites

(* The rest of write(). *)
LEMMA LaneFinishesKeeps ==
  ASSUME IInv, NEW s \in Sources, LaneFinishes(s),
         UNCHANGED <<host, pass, due, pending, askedBy, task, flush, deletedAt>>
  PROVE  IInv'
<1>1. Accounted /\ Typed /\ Order
  BY DEF IInv
<1>2. /\ accepted \in [Sources -> Contents] /\ unsaved \subseteq Sources /\ disk \in Heads
      /\ s \notin unsaved => Fresh(s)
  BY <1>1 DEF Typed, Order, MarksKeep
<1>3. LaneMoves(s) /\ lane'[s].phase # "committed"
  BY <1>1, LaneGoesOn DEF LaneFinishes
<1>4. disk' = disk /\ timer' = timer /\ disturbances' = disturbances /\ lane[s].phase = "committed" /\ EndLane(s)
  BY DEF LaneFinishes
<1>5. CASE JobCurrent(s)
  <2>1. Forget(s) /\ accepted' = [accepted EXCEPT ![s] = lane[s].job.body]
    BY <1>5 DEF LaneFinishes
  <2>2. /\ lane[s].ticket /\ lane[s].job.body = host[s].at /\ host[s].at \in Nat
        /\ deletedAt[s] < host[s].at /\ deletedAt[s] \in Nat
    BY <1>1, <1>5, CurrentJob DEF Typed, Contents
  <2>3. accepted' \in [Sources -> Contents] /\ accepted'[s] = host[s].at /\ \A x \in Sources \ {s} : accepted'[x] = accepted[x]
    BY <1>2, <2>1, <2>2 DEF Contents
  <2>4. Fresh(s)'
    <3>1. disk[s].state = "complete" => disk[s].body >= host[s].at
      BY <1>1, <1>4, <2>2 DEF Order, WriteLands
    <3>2. disk[s].body \in Nat
      BY <1>2 DEF Heads, Contents
    <3> QED BY <1>4, <2>2, <2>3, <3>1, <3>2 DEF Fresh
  <2>5. unsaved' = unsaved \ {s}
    BY <2>1 DEF Forget
  <2>6. Order'
    BY <1>1, <1>2, <1>3, <1>4, <1>5, <2>3, <2>4, <2>5, LaneGoesOn, LaneKeepsOrder
  <2>7. Typed'
    BY <1>1, <1>3, <1>4, <2>3, <2>5 DEF Typed, LaneMoves
  <2> QED BY <1>1, <2>1, <2>6, <2>7, ForgetIs DEF IInv
<1>6. CASE ~JobCurrent(s)
  <2>1. UNCHANGED <<memory, memoryBytes, unsaved, accepted>>
    BY <1>6 DEF LaneFinishes
  <2>2. Order'
    BY <1>1, <1>2, <1>3, <1>4, <2>1, LaneGoesOn, LaneKeepsOrder DEF Fresh
  <2>3. Typed'
    BY <1>1, <1>3, <1>4, <2>1 DEF Typed, LaneMoves
  <2> QED BY <1>1, <2>1, <2>2, <2>3, MemoryStays DEF IInv
<1> QED BY <1>5, <1>6

LEMMA LaneStepKeeps ==
  ASSUME IInv, NEW s \in Sources, LaneStep(s)
  PROVE  IInv'
BY LaneWritesKeeps, LaneFinishesKeeps DEF LaneStep
-----------------------------------------------------------------------------
(* Requests: a deletion, and a replacement that overtakes one. *)
LEMMA TaskDisowned ==
  ASSUME Typed, NEW s \in Sources
  PROVE  /\ TaskWithout(s) \in TaskRecords
         /\ TaskWithout(s).source = task.source /\ TaskWithout(s).phase = task.phase
         /\ TaskWithout(s).owned => task.owned /\ s \notin task.source
BY DEF TaskWithout, Typed, TaskRecords

LEMMA FlushShortened ==
  ASSUME Typed, NEW s \in Sources
  PROVE  FlushWithout(s) \in FlushRecords
BY DEF FlushWithout, Typed, FlushRecords

LEMMA RequestKeeps ==
  ASSUME IInv, NEW s \in Sources, NEW keep \in BOOLEAN, NEW asker \in Nat,
         Request(s, keep, asker), UNCHANGED disk, pass' \in Nat,
         host' \in Vault, \A x \in Sources \ {s} : host'[x] = host[x],
         host[s].at <= host'[s].at, host'[s].at <= MaxEvents[s], ~host'[s].present,
         due' \subseteq Sources, flush' \in FlushRecords, disturbances' \in 0 .. MaxDisturbances
  PROVE  IInv'
<1>1. Accounted /\ Typed /\ Order
  BY DEF IInv
<1>2. /\ lane' = Cancelled(s)
      /\ unsaved' = unsaved \cup {s}
      /\ deletedAt' = [deletedAt EXCEPT ![s] = host'[s].at]
      /\ UNCHANGED <<memory, memoryBytes, accepted>>
  BY DEF Request
<1>3. /\ host[s].at \in Nat /\ host'[s].at \in Nat /\ accepted[s] \in Nat /\ accepted[s] <= host[s].at
      /\ deletedAt \in [Sources -> Nat] /\ host \in Vault
  BY <1>1 DEF Typed, Vault, Contents, Order, VaultAhead
<1>4. /\ deletedAt' \in [Sources -> Nat]
      /\ deletedAt'[s] = host'[s].at /\ \A x \in Sources \ {s} : deletedAt'[x] = deletedAt[x]
  BY <1>2, <1>3
<1>5. LaneMoves(s) /\ ~lane'[s].ticket /\ lane'[s].next = NoJob
  BY <1>1, <1>2, CancelledMoves
<1>6. /\ pending' \in [Sources -> {"none", "drop", "retain"}] /\ askedBy' \in [Sources -> Nat]
      /\ pending'[s] # "none" /\ \A x \in Sources \ {s} : pending'[x] = pending[x]
  BY <1>1 DEF Typed, Request
<1>7. task' \in TaskRecords /\ timer' \in BOOLEAN
  <2>1. CASE task.phase = "none"
    <3>1. timer' = timer /\ timer \in BOOLEAN
      BY <1>1, <2>1 DEF Request, Typed
    <3>2. task' = [phase |-> "pin", source |-> {s}, owned |-> TRUE, retain |-> keep /\ CanRetain(s), view |-> NoView]
      BY <2>1 DEF Request
    <3>3. (keep /\ CanRetain(s)) \in BOOLEAN
      OBVIOUS
    <3>4. task' \in TaskRecords
      <4> DEFINE r == keep /\ CanRetain(s)
      <4>1. r \in BOOLEAN /\ task' = [phase |-> "pin", source |-> {s}, owned |-> TRUE, retain |-> r, view |-> NoView]
        BY <3>2, <3>3
      <4> HIDE DEF r
      <4> QED BY <4>1, FixedRecords DEF TaskRecords
    <3> QED BY <3>1, <3>4
  <2>2. CASE task.phase # "none"
    BY <1>1, <2>2, TaskDisowned, ArmIsBoolean DEF Request
  <2> QED BY <2>1, <2>2
<1>8. \A x \in task'.source : task'.owned =>
        \/ x = s /\ task'.phase = "pin"
        \/ x # s /\ x \in task.source /\ task.owned /\ task'.phase = task.phase
  <2>1. CASE task.phase = "none"
    BY <2>1 DEF Request
  <2>2. CASE task.phase # "none"
    BY <1>1, <2>2, TaskDisowned DEF Request
  <2> QED BY <2>1, <2>2
<1>9. task.source \subseteq Sources /\ task'.source \subseteq Sources
  BY <1>1, <1>7 DEF Typed, TaskRecords
<1>10. Typed'
  BY <1>1, <1>2, <1>3, <1>4, <1>5, <1>6, <1>7 DEF Typed, LaneMoves, Contents
<1>11. VaultAhead'
  BY <1>1, <1>2, <1>3, <1>4 DEF Order, VaultAhead
<1>12. JobsKnown'
  <2>1. lane[s].job.body \in Nat /\ lane'[s].job.body \in Nat /\ lane'[s].next.body \in Nat
    BY <1>1, <1>5 DEF Typed, LaneMoves, LaneRecords, Jobs, Contents
  <2> QED BY <1>1, <1>3, <1>5, <2>1 DEF Order, JobsKnown, LaneMoves
<1>13. QuietLanes'
  BY <1>1, <1>5, <1>6 DEF Order, QuietLanes, Quiet, LaneMoves
<1>14. TaskOwned'
  <2>1. task'.source = {s} \/ task'.source = task.source
    BY <1>1, TaskDisowned DEF Request
  <2> QED BY <1>1, <1>6, <1>8, <1>9, <2>1 DEF Order, TaskOwned
<1>15. WriteLands'
  BY <1>1, <1>5 DEF Order, WriteLands, LaneMoves
<1>16. \A x \in Sources \ {s} : Fresh(x)' <=> Fresh(x)
  BY <1>2, <1>4 DEF Fresh
<1>17. MarksKeep'
  BY <1>1, <1>2, <1>16 DEF Order, MarksKeep
<1>18. RetiredHead'
  BY <1>1, <1>8, <1>9, <1>16 DEF Order, RetiredHead
<1> QED BY <1>1, <1>2, <1>10, <1>11, <1>12, <1>13, <1>14, <1>15, <1>17, <1>18, MemoryStays DEF IInv, Order

LEMMA ReplaceKeeps ==
  ASSUME IInv, NEW s \in Sources, NEW job \in Jobs, job.body <= host[s].at, Replace(s, job),
         UNCHANGED <<host, pass, disk, memory, memoryBytes, unsaved, timer, accepted, deletedAt>>,
         due' \subseteq Sources, flush' \in FlushRecords, disturbances' \in 0 .. MaxDisturbances
  PROVE  IInv'
<1>1. Accounted /\ Typed /\ Order
  BY DEF IInv
<1>2. task' = TaskWithout(s)
  BY DEF Replace
<1>3. /\ pending' \in [Sources -> {"none", "drop", "retain"}] /\ askedBy' \in [Sources -> Nat]
      /\ pending'[s] = "none" /\ \A x \in Sources \ {s} : pending'[x] = pending[x]
  BY <1>1 DEF Typed, Replace, Dropped
<1>4. /\ LaneMoves(s)
      /\ lane'[s].phase = "committed" => ~lane'[s].ticket
      /\ lane'[s].phase = "free" => ~lane'[s].ticket /\ lane'[s].next = NoJob
  <2>1. /\ lane \in [Sources -> LaneRecords] /\ lane[s].job.body <= host[s].at /\ host[s].at \in Nat
        /\ lane[s].next.body <= host[s].at
        /\ lane[s].phase = "free" => Quiet(s)
    BY <1>1 DEF Typed, Order, JobsKnown, QuietLanes, Vault, Contents
  <2>2. CASE lane[s].phase # "free"
    <3> DEFINE r == [lane[s] EXCEPT !.ticket = FALSE, !.next = job]
    <3>1. lane' = [lane EXCEPT ![s] = r]
      BY <2>1, <2>2 DEF Replace
    <3>2. r \in LaneRecords /\ ~r.ticket /\ r.next = job /\ r.job = lane[s].job /\ r.phase = lane[s].phase
      BY <2>1 DEF LaneRecords
    <3> HIDE DEF r
    <3>3. lane'[s] = r /\ lane' \in [Sources -> LaneRecords] /\ \A x \in Sources \ {s} : lane'[x] = lane[x]
      BY <2>1, <3>1, <3>2
    <3> QED BY <2>1, <2>2, <3>2, <3>3 DEF LaneMoves
  <2>3. CASE lane[s].phase = "free" /\ lane' = lane
    BY <2>1, <2>3 DEF LaneMoves, Quiet
  <2>4. CASE lane[s].phase = "free" /\ lane' # lane
    <3> DEFINE r == [phase |-> "writing", job |-> job, ticket |-> TRUE, next |-> NoJob]
    <3>1. lane' = [lane EXCEPT ![s] = r]
      BY <2>4 DEF Replace
    <3>2. r \in LaneRecords /\ r.phase = "writing" /\ r.next = NoJob /\ r.job = job
      BY FixedRecords DEF LaneRecords
    <3> HIDE DEF r
    <3>3. lane'[s] = r /\ lane' \in [Sources -> LaneRecords] /\ \A x \in Sources \ {s} : lane'[x] = lane[x]
      BY <2>1, <3>1, <3>2
    <3> QED BY <2>1, <3>2, <3>3, FixedRecords DEF LaneMoves
  <2> QED BY <2>2, <2>3, <2>4
<1>5. /\ task' \in TaskRecords /\ task'.source = task.source /\ task'.phase = task.phase
      /\ task'.owned => task.owned /\ s \notin task.source
  BY <1>1, <1>2, TaskDisowned
<1>6. task.source \subseteq Sources
  BY <1>1 DEF Typed, TaskRecords
<1>7. Typed'
  BY <1>1, <1>3, <1>4, <1>5 DEF Typed, LaneMoves
<1>8. VaultAhead' /\ MarksKeep'
  BY <1>1 DEF Order, VaultAhead, MarksKeep, Fresh
<1>9. JobsKnown'
  BY <1>1, <1>4 DEF Order, JobsKnown, LaneMoves
<1>10. QuietLanes'
  BY <1>1, <1>3, <1>4 DEF Order, QuietLanes, Quiet, LaneMoves
<1>11. TaskOwned'
  BY <1>1, <1>3, <1>5, <1>6 DEF Order, TaskOwned
<1>12. WriteLands'
  BY <1>1, <1>4 DEF Order, WriteLands, LaneMoves
<1>13. RetiredHead'
  BY <1>1, <1>5, <1>6 DEF Order, RetiredHead, Fresh
<1> QED BY <1>1, <1>7, <1>8, <1>9, <1>10, <1>11, <1>12, <1>13, MemoryStays DEF IInv, Order
-----------------------------------------------------------------------------
(* The task that carries a deletion out. *)

(* What a step of the task leaves true, whatever it does to the head and   *)
(* the marks of its source.                                                *)
LEMMA TaskKeepsOrder ==
  ASSUME Typed, Order, NEW s \in Sources, s \in task.source,
         UNCHANGED <<host, lane, accepted, deletedAt>>,
         \A x \in Sources \ {s} : disk'[x] = disk[x],
         disk'[s] = disk[s] \/ disk'[s].state # "complete",
         \A x \in Sources \ {s} : pending'[x] = pending[x],
         \A x \in Sources \ {s} : x \in unsaved' <=> x \in unsaved,
         s \notin unsaved' => s \notin unsaved \/ Fresh(s),
         \/ pending'[s] \in {pending[s], "none"} /\ task' = NoTask
         \/ pending'[s] = pending[s] /\ task'.source = task.source /\ (task'.owned => task.owned)
            /\ (task'.phase = "committed" => disk'[s].state # "complete")
  PROVE  Order'
<1>1. VaultAhead' /\ JobsKnown'
  BY DEF Order, VaultAhead, JobsKnown
<1>2. QuietLanes'
  BY DEF Order, QuietLanes, Quiet
<1>3. TaskOwned'
  BY FixedRecords DEF Order, TaskOwned, Typed, TaskRecords
<1>4. WriteLands'
  BY DEF Order, WriteLands
<1>5. \A x \in Sources : Fresh(x) => Fresh(x)'
  BY DEF Fresh
<1>6. MarksKeep'
  BY <1>5 DEF Order, MarksKeep
<1>7. RetiredHead'
  BY FixedRecords DEF Order, TaskOwned, RetiredHead, Fresh
<1> QED BY <1>1, <1>2, <1>3, <1>4, <1>6, <1>7 DEF Order

LEMMA TombstoneIs ==
  ASSUME Typed, NEW s \in Sources
  PROVE  Tombstone(s) \in Entries /\ Tombstone(s).source = s /\ Tombstone(s).state = "tombstone"
BY DEF Tombstone, Typed, TaskRecords, Views, Entries, Contents, Nothing

(* The tombstone that is selected. *)
LEMMA TombstoneSelected ==
  ASSUME Typed, NEW s \in Sources, SelectTombstone(s)
  PROVE  /\ disk' \in Heads /\ \A x \in Sources \ {s} : disk'[x] = disk[x]
         /\ disk'[s].state = "tombstone"
<1> DEFINE r == [state |-> "tombstone", rev |-> disk[s].rev + 1,
                 body |-> IF task.retain /\ ~task.view.memory THEN task.view.body ELSE Nothing]
<1>1. disk' = [disk EXCEPT ![s] = r]
  BY DEF SelectTombstone
<1>2. disk \in Heads /\ disk[s].rev \in Nat /\ task.view.body \in Nat
  BY DEF Typed, Heads, TaskRecords, Views, Contents
<1>3. r \in [state : States, body : Contents, rev : Nat] /\ r.state = "tombstone"
  BY <1>2 DEF States, Contents, Nothing
<1> HIDE DEF r
<1> QED BY <1>1, <1>2, <1>3 DEF Heads

(* An end of the task that leaves memory, marks and requests as they are. *)
LEMMA TaskEndsQuietly ==
  ASSUME IInv, NEW s \in Sources, s \in task.source, EndTask, Disturb \/ Undisturbed,
         UNCHANGED <<host, pass, due, lane, accepted, deletedAt, masks, flush, disk>>
  PROVE  IInv'
<1>1. Accounted /\ Typed /\ Order
  BY DEF IInv
<1>2. task' = NoTask /\ timer' \in BOOLEAN /\ disturbances' \in 0 .. MaxDisturbances
  BY <1>1, ArmIsBoolean, Disturbing DEF EndTask
<1>3. Typed'
  BY <1>1, <1>2, FixedRecords DEF Typed, masks
<1>4. Order'
  BY <1>1, <1>2, TaskKeepsOrder DEF masks
<1> QED BY <1>1, <1>3, <1>4, MemoryStays DEF IInv, masks

LEMMA TaskGivesUpKeeps ==
  ASSUME IInv, NEW s \in Sources, s \in task.source, TaskGivesUp(s),
         UNCHANGED <<host, pass, due, lane, accepted, deletedAt>>
  PROVE  IInv'
BY TaskEndsQuietly DEF TaskGivesUp, Undisturbed

LEMMA DeletePinsKeeps ==
  ASSUME IInv, NEW s \in Sources, s \in task.source, DeletePins(s),
         UNCHANGED <<host, pass, due, lane, accepted, deletedAt>>
  PROVE  IInv'
<1>1. Accounted /\ Typed /\ Order
  BY DEF IInv
<1>2. UNCHANGED <<disk, masks, flush>>
  BY DEF DeletePins
<1>3. CASE TaskGivesUp(s)
  BY <1>3, TaskGivesUpKeeps
<1>4. CASE TaskCurrent(s) /\ Disturb /\ EndTask
  BY <1>2, <1>4, TaskEndsQuietly
<1>5. ASSUME NEW view \in Views, NEW phase \in {"absent", "activate"}, Undisturbed, timer' = timer,
             task' = [task EXCEPT !.phase = phase, !.view = view]
      PROVE  IInv'
  <2>1. task' \in TaskRecords /\ task'.source = task.source /\ task'.owned = task.owned /\ task'.phase = phase
    BY <1>1, <1>5 DEF Typed, TaskRecords
  <2>2. Typed'
    BY <1>1, <1>2, <1>5, <2>1 DEF Typed, masks, Undisturbed
  <2>3. Order'
    BY <1>1, <1>2, <2>1, TaskKeepsOrder DEF masks
  <2> QED BY <1>1, <1>2, <2>2, <2>3, MemoryStays DEF IInv, masks
<1>6. CASE TaskCurrent(s) /\ Held(s) /\ Undisturbed /\ timer' = timer
           /\ \E e \in HeldBy(s) :
                task' = [task EXCEPT !.phase = "activate",
                           !.view = [memory |-> TRUE, body |-> e.body, base |-> e.base, size |-> e.size]]
  <2>1. PICK e \in HeldBy(s) :
          task' = [task EXCEPT !.phase = "activate",
                     !.view = [memory |-> TRUE, body |-> e.body, base |-> e.base, size |-> e.size]]
    BY <1>6
  <2>2. e \in Entries
    BY <1>1, MemoryElements DEF HeldBy, Accounted, Memories
  <2>3. [memory |-> TRUE, body |-> e.body, base |-> e.base, size |-> e.size] \in Views
    BY <2>2 DEF Entries, Views
  <2> QED BY <1>5, <1>6, <2>1, <2>3
<1>7. CASE /\ TaskCurrent(s) /\ ~Held(s) /\ Undisturbed
           /\ timer' = timer
           /\ task' = IF disk[s].state = "missing" THEN [task EXCEPT !.phase = "absent"]
                       ELSE [task EXCEPT !.phase = "activate", !.view.body = disk[s].body,
                                         !.view.base = disk[s].rev]
  <2>1. task \in TaskRecords /\ task.view \in Views
    BY <1>1 DEF Typed, TaskRecords
  <2>2. CASE disk[s].state = "missing"
    <3>1. task' = [task EXCEPT !.phase = "absent", !.view = task.view]
      BY <1>7, <2>1, <2>2 DEF TaskRecords
    <3> QED BY <1>5, <1>7, <2>1, <3>1
  <2>3. CASE disk[s].state # "missing"
    <3> DEFINE v == [task.view EXCEPT !.body = disk[s].body, !.base = disk[s].rev]
    <3>1. v \in Views
      <4>1. disk[s].body \in Contents /\ disk[s].rev \in Int
        BY <1>1 DEF Typed, Heads
      <4> QED BY <2>1, <4>1 DEF Views
    <3>2. task' = [task EXCEPT !.phase = "activate", !.view = v]
      BY <1>7, <2>1, <2>3 DEF TaskRecords
    <3> HIDE DEF v
    <3> QED BY <1>5, <1>7, <3>1, <3>2
  <2> QED BY <2>2, <2>3
<1> QED BY <1>3, <1>4, <1>6, <1>7 DEF DeletePins

LEMMA DeleteAbsentKeeps ==
  ASSUME IInv, NEW s \in Sources, s \in task.source, DeleteAbsent(s),
         UNCHANGED <<host, pass, due, lane, accepted, deletedAt>>
  PROVE  IInv'
<1>1. Accounted /\ Typed /\ Order
  BY DEF IInv
<1>2. disk' = disk
  BY DEF DeleteAbsent
<1>3. CASE TaskGivesUp(s)
  BY <1>3, TaskGivesUpKeeps
<1>4. CASE (Disturb \/ Undisturbed) /\ UNCHANGED <<masks, flush>> /\ EndTask
  BY <1>2, <1>4, TaskEndsQuietly
<1>5. CASE /\ disk[s].state = "missing" /\ Undisturbed
           /\ Dropped(s)
           /\ flush' = FlushWithout(s)
           /\ Forget(s)
           /\ EndTask
  <2>1. unsaved' = unsaved \ {s}
    BY <1>5 DEF Forget
  <2>2. task' = NoTask /\ timer' \in BOOLEAN /\ flush' \in FlushRecords
    BY <1>1, <1>5, ArmIsBoolean, FlushShortened DEF EndTask
  <2>3. /\ pending' \in [Sources -> {"none", "drop", "retain"}] /\ askedBy' \in [Sources -> Nat]
        /\ pending'[s] = "none" /\ \A x \in Sources \ {s} : pending'[x] = pending[x]
    BY <1>1, <1>5 DEF Typed, Dropped
  <2>4. Typed'
    BY <1>1, <1>2, <1>5, <2>1, <2>2, <2>3, FixedRecords DEF Typed, Undisturbed
  <2>5. Order'
    BY <1>1, <1>2, <1>5, <2>1, <2>2, <2>3, TaskKeepsOrder DEF Fresh
  <2> QED BY <1>1, <1>5, <2>4, <2>5, ForgetIs DEF IInv
<1> QED BY <1>3, <1>4, <1>5 DEF DeleteAbsent

LEMMA DeleteActivatesKeeps ==
  ASSUME IInv, NEW s \in Sources, s \in task.source, DeleteActivates(s),
         UNCHANGED <<host, pass, due, lane, accepted, deletedAt>>
  PROVE  IInv'
<1>1. Accounted /\ Typed /\ Order
  BY DEF IInv
<1>2. CASE UNCHANGED disk /\ TaskGivesUp(s)
  BY <1>2, TaskGivesUpKeeps
<1>3. CASE (Disturb \/ Undisturbed) /\ UNCHANGED <<disk, masks, flush>> /\ EndTask
  BY <1>3, TaskEndsQuietly
<1>4. CASE /\ Undisturbed
           /\ SelectTombstone(s)
           /\ task' = [task EXCEPT !.phase = "committed"]
           /\ UNCHANGED <<masks, flush, timer>>
  <2>1. /\ disk' \in Heads /\ \A x \in Sources \ {s} : disk'[x] = disk[x]
        /\ disk'[s].state = "tombstone"
    BY <1>1, <1>4, TombstoneSelected
  <2>2. task' \in TaskRecords /\ task'.source = task.source /\ task'.owned = task.owned
    BY <1>1, <1>4 DEF Typed, TaskRecords
  <2>3. Typed'
    BY <1>1, <1>4, <2>1, <2>2 DEF Typed, masks, Undisturbed
  <2>4. Order'
    BY <1>1, <1>4, <2>1, <2>2, TaskKeepsOrder DEF masks
  <2> QED BY <1>1, <1>4, <2>3, <2>4, MemoryStays DEF IInv, masks
<1>5. CASE DeleteRefused(s) /\ (UNCHANGED disk \/ SelectTombstone(s))
  <2>1. /\ disk' \in Heads /\ \A x \in Sources \ {s} : disk'[x] = disk[x]
        /\ disk'[s] = disk[s] \/ disk'[s].state # "complete"
    BY <1>1, <1>5, TombstoneSelected DEF Typed
  <2>2. /\ UNCHANGED <<pending, askedBy, flush>> /\ task' = NoTask /\ timer' \in BOOLEAN
        /\ disturbances' \in 0 .. MaxDisturbances
    BY <1>1, <1>5, ArmIsBoolean, Disturbing DEF DeleteRefused, EndTask
  <2>3. unsaved' \in {unsaved, unsaved \cup {s}} /\ unsaved \subseteq Sources
    BY <1>1, <1>5 DEF DeleteRefused, Typed
  <2>4. Accounted'
    <3>1. CASE UNCHANGED <<memory, memoryBytes>>
      BY <1>1, <3>1, MemoryStays
    <3>2. CASE Remember(Tombstone(s))
      BY <1>1, <3>2, TombstoneIs, RememberIs
    <3> QED BY <1>5, <3>1, <3>2 DEF DeleteRefused
  <2>5. Typed'
    BY <1>1, <2>1, <2>2, <2>3, FixedRecords DEF Typed
  <2>6. Order'
    BY <1>1, <2>1, <2>2, <2>3, TaskKeepsOrder
  <2> QED BY <2>4, <2>5, <2>6 DEF IInv
<1> QED BY <1>2, <1>3, <1>4, <1>5 DEF DeleteActivates

LEMMA DeleteFinishesKeeps ==
  ASSUME IInv, NEW s \in Sources, s \in task.source, DeleteFinishes(s),
         UNCHANGED <<host, pass, due, lane, accepted, deletedAt>>
  PROVE  IInv'
<1>1. Accounted /\ Typed /\ Order
  BY DEF IInv
<1>2. disk' = disk /\ task.phase = "committed"
  BY DEF DeleteFinishes
<1>3. CASE TaskGivesUp(s)
  BY <1>3, TaskGivesUpKeeps
<1>4. CASE /\ TaskCurrent(s) /\ Undisturbed
           /\ Dropped(s)
           /\ flush' = FlushWithout(s)
           /\ IF task.retain /\ task.view.memory
              THEN Remember(Tombstone(s)) /\ unsaved' = unsaved \ {s}
              ELSE Forget(s)
           /\ EndTask
  <2>1. unsaved' = unsaved \ {s}
    BY <1>4 DEF Forget
  <2>2. task' = NoTask /\ timer' \in BOOLEAN /\ flush' \in FlushRecords
    BY <1>1, <1>4, ArmIsBoolean, FlushShortened DEF EndTask
  <2>3. /\ pending' \in [Sources -> {"none", "drop", "retain"}] /\ askedBy' \in [Sources -> Nat]
        /\ pending'[s] = "none" /\ \A x \in Sources \ {s} : pending'[x] = pending[x]
    BY <1>1, <1>4 DEF Typed, Dropped
  <2>4. Fresh(s)
    BY <1>1, <1>2, <1>4 DEF TaskCurrent, Order, RetiredHead
  <2>5. Typed'
    BY <1>1, <1>2, <1>4, <2>1, <2>2, <2>3, FixedRecords DEF Typed, Undisturbed
  <2>6. Order'
    BY <1>1, <1>2, <2>1, <2>2, <2>3, <2>4, TaskKeepsOrder
  <2>7. Accounted'
    <3>1. CASE Remember(Tombstone(s))
      BY <1>1, <3>1, TombstoneIs, RememberIs
    <3>2. CASE Forget(s)
      BY <1>1, <3>2, ForgetIs
    <3> QED BY <1>4, <3>1, <3>2
  <2> QED BY <2>5, <2>6, <2>7 DEF IInv
<1> QED BY <1>3, <1>4 DEF DeleteFinishes

LEMMA TaskStepKeeps ==
  ASSUME IInv, NEW s \in Sources, TaskStep(s)
  PROVE  IInv'
BY DeletePinsKeeps, DeleteAbsentKeeps, DeleteActivatesKeeps, DeleteFinishesKeeps DEF TaskStep
-----------------------------------------------------------------------------
(* The retry. *)

(* A step of the retry that touches nothing but itself and the timer. *)
LEMMA FlushOnlyKeeps ==
  ASSUME IInv, flush' \in FlushRecords, timer' \in BOOLEAN, Disturb \/ Undisturbed,
         UNCHANGED <<host, pass, due, disk, masks, lane, task, history>>
  PROVE  IInv'
<1>1. Accounted /\ Typed /\ Order
  BY DEF IInv
<1>2. disturbances' \in 0 .. MaxDisturbances
  BY <1>1, Disturbing
<1>3. Typed'
  BY <1>1, <1>2 DEF Typed, masks, history
<1>4. Order'
  BY <1>1 DEF masks, history, Order, VaultAhead, JobsKnown, QuietLanes, Quiet, TaskOwned, WriteLands,
              MarksKeep, RetiredHead, Fresh
<1> QED BY <1>1, <1>3, <1>4, MemoryStays DEF IInv, masks

LEMMA FlushFacts ==
  ASSUME IInv
  PROVE  /\ flush \in FlushRecords /\ flush.entries \in Seq(Entries) /\ memory \in Seq(Entries)
         /\ flush.entries # <<>> => Head(flush.entries) \in Entries /\ Tail(flush.entries) \in Seq(Entries)
<1>1. flush \in FlushRecords /\ flush.entries \in Seq(Entries) /\ memory \in Seq(Entries)
  BY DEF IInv, Typed, FlushRecords, Accounted, Memories
<1> QED BY <1>1, HeadTailProperties

LEMMA EndFlushKeeps ==
  ASSUME IInv, EndFlush, Disturb \/ Undisturbed, UNCHANGED <<host, pass, due, history>>
  PROVE  IInv'
<1>1. flush' \in FlushRecords
  BY FixedRecords DEF EndFlush
<1>2. timer' \in BOOLEAN
  BY DEF EndFlush
<1> QED BY <1>1, <1>2, FlushOnlyKeeps DEF EndFlush

(* A change of phase, or of what the retry has still before it. *)
LEMMA FlushPhases ==
  ASSUME IInv,
         \/ FlushStarts \/ FlushAwaitsLanes \/ FlushAwaitsTask \/ FlushAwaitsDeletion
         \/ FlushTurnsToMemory \/ FlushAwaitsWrite \/ FlushEnds,
         UNCHANGED <<host, pass, due, history>>
  PROVE  IInv'
<1>1. flush \in FlushRecords /\ memory \in Seq(Entries) /\ timer \in BOOLEAN
  BY FlushFacts DEF IInv, Typed
<1>2. CASE FlushStarts
  <2>1. flush' \in FlushRecords /\ timer' \in BOOLEAN
    BY <1>1, <1>2 DEF FlushStarts, FlushRecords
  <2> QED BY <1>2, <2>1, FlushOnlyKeeps DEF FlushStarts, Undisturbed
<1>3. CASE FlushAwaitsLanes
  <2>1. flush' \in FlushRecords /\ timer' \in BOOLEAN
    BY <1>1, <1>3 DEF FlushAwaitsLanes, FlushRecords
  <2> QED BY <1>3, <2>1, FlushOnlyKeeps DEF FlushAwaitsLanes, Undisturbed
<1>4. CASE FlushAwaitsTask
  <2>1. flush' \in FlushRecords /\ timer' \in BOOLEAN
    BY <1>1, <1>4 DEF FlushAwaitsTask, FlushRecords
  <2> QED BY <1>4, <2>1, FlushOnlyKeeps DEF FlushAwaitsTask, Undisturbed
<1>5. CASE FlushAwaitsDeletion
  <2>1. flush' \in FlushRecords /\ timer' \in BOOLEAN
    BY <1>1, <1>5 DEF FlushAwaitsDeletion, FlushRecords
  <2> QED BY <1>5, <2>1, FlushOnlyKeeps DEF FlushAwaitsDeletion, Undisturbed
<1>6. CASE FlushTurnsToMemory
  <2>1. flush' \in FlushRecords /\ timer' \in BOOLEAN
    BY <1>1, <1>6 DEF FlushTurnsToMemory, FlushRecords
  <2> QED BY <1>6, <2>1, FlushOnlyKeeps DEF FlushTurnsToMemory, Undisturbed
<1>7. CASE FlushAwaitsWrite
  <2>1. flush' \in FlushRecords /\ timer' \in BOOLEAN
    BY <1>1, <1>7 DEF FlushAwaitsWrite, FlushRecords
  <2> QED BY <1>7, <2>1, FlushOnlyKeeps DEF FlushAwaitsWrite, Undisturbed
<1>8. CASE FlushEnds
  BY <1>8, EndFlushKeeps DEF FlushEnds
<1> QED BY <1>2, <1>3, <1>4, <1>5, <1>6, <1>7, <1>8

LEMMA FlushDropsKeeps ==
  ASSUME IInv, NEW s \in Sources, FlushDropsDeletion(s), UNCHANGED <<host, pass, due, history>>
  PROVE  IInv'
<1>1. Accounted /\ Typed /\ Order
  BY DEF IInv
<1>2. /\ Dropped(s)
      /\ flush' \in FlushRecords
      /\ task' = TaskWithout(s)
      /\ UNCHANGED <<disk, memory, memoryBytes, unsaved, lane, timer, disturbances>>
  BY <1>1, FlushShortened DEF FlushDropsDeletion
<1>3. /\ pending' \in [Sources -> {"none", "drop", "retain"}] /\ askedBy' \in [Sources -> Nat]
      /\ pending'[s] = "none" /\ \A x \in Sources \ {s} : pending'[x] = pending[x]
  BY <1>1, <1>2 DEF Typed, Dropped
<1>4. /\ task' \in TaskRecords /\ task'.source = task.source /\ task'.phase = task.phase
      /\ task'.owned => task.owned /\ s \notin task.source
  BY <1>1, <1>2, TaskDisowned
<1>5. Typed'
  BY <1>1, <1>2, <1>3, <1>4 DEF Typed, history
<1>6. VaultAhead' /\ JobsKnown' /\ WriteLands' /\ MarksKeep'
  BY <1>1, <1>2 DEF Order, VaultAhead, JobsKnown, WriteLands, MarksKeep, Fresh, history
<1>7. QuietLanes'
  BY <1>1, <1>2, <1>3 DEF Order, QuietLanes, Quiet
<1>8. TaskOwned'
  BY <1>1, <1>3, <1>4 DEF Order, TaskOwned, Typed, TaskRecords
<1>9. RetiredHead'
  BY <1>1, <1>2, <1>4 DEF Order, RetiredHead, Fresh, history
<1> QED BY <1>1, <1>2, <1>5, <1>6, <1>7, <1>8, <1>9, MemoryStays DEF IInv, Order

LEMMA FlushRetriesKeeps ==
  ASSUME IInv, NEW s \in Sources, FlushRetriesDeletion(s), UNCHANGED <<host, pass, due>>
  PROVE  IInv'
<1>1. Typed /\ Order
  BY DEF IInv
<1>2. ~host[s].present /\ Request(s, pending[s] = "retain", askedBy[s]) /\ UNCHANGED <<disk, disturbances>>
  BY DEF FlushRetriesDeletion, DeletionWanted
<1>3. flush' \in FlushRecords
  <2>1. FlushWithout(s) \in FlushRecords
    BY <1>1, FlushShortened
  <2> QED BY <2>1 DEF FlushRetriesDeletion, FlushRecords
<1>4. host' \in Vault /\ host[s].at <= host'[s].at /\ host'[s].at <= MaxEvents[s]
  BY <1>1 DEF Typed, Vault, Contents, Order, VaultAhead
<1>5. /\ due' \subseteq Sources /\ disturbances' \in 0 .. MaxDisturbances
      /\ pass' \in Nat /\ askedBy[s] \in Nat
  BY <1>1, <1>2 DEF Typed
<1>6. (pending[s] = "retain") \in BOOLEAN
  OBVIOUS
<1> QED BY <1>2, <1>3, <1>4, <1>5, <1>6, RequestKeeps

LEMMA FlushEntryKeeps ==
  ASSUME IInv, FlushEntry, UNCHANGED <<host, pass, due, history>>
  PROVE  IInv'
<1> DEFINE e == Head(flush.entries)
           s == e.source
           later == [flush EXCEPT !.entries = Tail(@)]
<1>1. Typed /\ e \in Entries /\ s \in Sources /\ later \in FlushRecords
  BY FlushFacts DEF IInv, FlushEntry, FlushRecords, Entries
<1>2. CASE /\ flush' = later
           /\ UNCHANGED <<disk, masks, lane, task, timer, disturbances>>
  <2> HIDE DEF later
  <2>1. flush' \in FlushRecords /\ timer' \in BOOLEAN
    BY <1>1, <1>2 DEF Typed
  <2> QED BY <1>2, <2>1, FlushOnlyKeeps DEF Undisturbed
<1>3. CASE Disturb /\ EndFlush
  BY <1>3, EndFlushKeeps
<1>4. CASE /\ Retriable(e)
           /\ Replace(s, [by |-> "retry", body |-> e.body, base |-> RetryBase(e), pass |-> e.pass])
           /\ flush' = [later EXCEPT !.phase = IF lane' = lane THEN @ ELSE "writing"]
           /\ UNCHANGED <<disk, memory, memoryBytes, unsaved, timer, disturbances>>
  <2> DEFINE job == [by |-> "retry", body |-> e.body, base |-> RetryBase(e), pass |-> e.pass]
  <2>1. e.body = host[s].at
    BY <1>4 DEF Retriable, FactsCurrent, Unchanged
  <2>2. host[s].at \in Nat
    BY <1>1 DEF Typed, Vault, Contents
  <2>3. job \in Jobs /\ job.body <= host[s].at
    BY <1>1, <2>1, <2>2 DEF Jobs, RetryBase, Entries, Contents
  <2>4. flush' \in FlushRecords
    <3> HIDE DEF later
    <3> QED BY <1>1, <1>4 DEF FlushRecords
  <2>5. due' \subseteq Sources /\ disturbances' \in 0 .. MaxDisturbances
    BY <1>1, <1>4 DEF Typed
  <2> QED BY <1>1, <1>4, <2>3, <2>4, <2>5, ReplaceKeeps DEF history
<1> QED BY <1>2, <1>3, <1>4 DEF FlushEntry

LEMMA FlushStepKeeps ==
  ASSUME IInv, FlushStep
  PROVE  IInv'
BY FlushPhases, FlushDropsKeeps, FlushRetriesKeeps, FlushEntryKeeps DEF FlushStep
-----------------------------------------------------------------------------
(* The vault, the inventory and the other connection. *)
LEMMA HostWritesKeeps ==
  ASSUME IInv, NEW s \in Sources, HostWrites(s)
  PROVE  IInv'
<1>1. Accounted /\ Typed /\ Order
  BY DEF IInv
<1>2. /\ host[s].at < MaxEvents[s]
      /\ lane' = Cancelled(s)
      /\ UNCHANGED <<disk, memory, memoryBytes, unsaved, pending, askedBy, task, flush, timer,
                     disturbances, accepted, deletedAt>>
      /\ due' \subseteq Sources /\ pass' \in Nat
  BY <1>1 DEF HostWrites, WholeInventory, masks, history, Typed
<1>3. host[s].at \in Nat /\ MaxEvents[s] \in Nat /\ accepted[s] \in Nat /\ deletedAt[s] \in Nat
  BY <1>1, OverlayAssumption DEF Typed, Vault, Contents
<1>4. /\ host' \in Vault /\ \A x \in Sources \ {s} : host'[x] = host[x]
      /\ host'[s].at = host[s].at + 1 /\ host'[s].present
  <2> DEFINE r == [at |-> host[s].at + 1, present |-> TRUE]
  <2>1. host' = [host EXCEPT ![s] = r]
    BY DEF HostWrites
  <2>2. r \in [at : Contents, present : BOOLEAN] /\ r.at = host[s].at + 1 /\ r.present
    BY <1>3 DEF Contents
  <2> HIDE DEF r
  <2> QED BY <1>1, <2>1, <2>2 DEF Typed, Vault
<1>5. LaneMoves(s) /\ ~lane'[s].ticket /\ lane'[s].next = NoJob
  BY <1>1, <1>2, CancelledMoves
<1>6. Typed'
  BY <1>1, <1>2, <1>4, <1>5 DEF Typed, LaneMoves
<1>7. VaultAhead'
  BY <1>1, <1>2, <1>3, <1>4 DEF Order, VaultAhead
<1>8. JobsKnown'
  <2>1. lane'[s].job.body \in Nat /\ lane'[s].next.body \in Nat
    BY <1>5 DEF LaneMoves, LaneRecords, Jobs, Contents
  <2> QED BY <1>1, <1>3, <1>4, <1>5, <2>1 DEF Order, JobsKnown, LaneMoves
<1>9. QuietLanes'
  BY <1>1, <1>2, <1>5 DEF Order, QuietLanes, Quiet, LaneMoves
<1>10. TaskOwned' /\ MarksKeep'
  BY <1>1, <1>2 DEF Order, TaskOwned, MarksKeep, Fresh
<1>11. WriteLands'
  BY <1>1, <1>2, <1>5 DEF Order, WriteLands, LaneMoves
<1>12. RetiredHead'
  BY <1>1, <1>2, <1>4 DEF Order, RetiredHead, Fresh, Typed, TaskRecords
<1> QED BY <1>1, <1>2, <1>6, <1>7, <1>8, <1>9, <1>10, <1>11, <1>12, MemoryStays DEF IInv, Order

LEMMA HostDeletesKeeps ==
  ASSUME IInv, NEW s \in Sources, NEW keep \in BOOLEAN, HostDeletes(s, keep)
  PROVE  IInv'
<1>1. Typed
  BY DEF IInv
<1>2. /\ host[s].at < MaxEvents[s] /\ Request(s, keep, 0) /\ UNCHANGED <<disk, disturbances>>
      /\ due' \subseteq Sources /\ pass' \in Nat
  BY <1>1 DEF HostDeletes, WholeInventory, Typed
<1>3. host[s].at \in Nat /\ MaxEvents[s] \in Nat
  BY <1>1, OverlayAssumption DEF Typed, Vault, Contents
<1>4. /\ host' \in Vault /\ \A x \in Sources \ {s} : host'[x] = host[x]
      /\ host'[s].at = host[s].at + 1 /\ ~host'[s].present
  <2> DEFINE r == [at |-> host[s].at + 1, present |-> FALSE]
  <2>1. host' = [host EXCEPT ![s] = r]
    BY DEF HostDeletes
  <2>2. r \in [at : Contents, present : BOOLEAN] /\ r.at = host[s].at + 1 /\ ~r.present
    BY <1>3 DEF Contents
  <2> HIDE DEF r
  <2> QED BY <1>1, <2>1, <2>2 DEF Typed, Vault
<1>5. flush' \in FlushRecords /\ disturbances' \in 0 .. MaxDisturbances
  BY <1>1, <1>2, FlushShortened DEF HostDeletes, Typed
<1> QED BY <1>2, <1>3, <1>4, <1>5, RequestKeeps

LEMMA InventoryKeeps ==
  ASSUME IInv, NEW s \in Sources, Inventory(s)
  PROVE  IInv'
<1>1. Accounted /\ Typed /\ Order
  BY DEF IInv
<1>2. due' \subseteq Sources /\ host' = host /\ pass' = pass /\ pass \in Nat /\ host \in Vault /\ host[s].at \in Nat
      /\ host[s].at <= MaxEvents[s]
  BY <1>1 DEF Inventory, Typed, Vault, Contents, Order, VaultAhead
<1>3. CASE InventoryAcquires(s)
  <2>1. PICK base \in {disk[s].rev, Unavailable} \cup {e.base : e \in HeldBy(s)} :
          /\ Inspected(s, base)
          /\ Replace(s, [by |-> "inventory", body |-> host[s].at, base |-> base, pass |-> pass])
    BY <1>3 DEF InventoryAcquires
  <2>2. base \in Int
    <3>1. \A e \in HeldBy(s) : e.base \in Int
      BY <1>1, MemoryElements DEF HeldBy, Accounted, Memories, Entries
    <3>2. disk[s].rev \in Int
      BY <1>1 DEF Typed, Heads
    <3> QED BY <2>1, <3>1, <3>2 DEF Unavailable
  <2> DEFINE job == [by |-> "inventory", body |-> host[s].at, base |-> base, pass |-> pass]
  <2>3. job \in Jobs /\ job.body <= host[s].at
    BY <1>2, <2>2 DEF Jobs, Contents
  <2>4. disturbances' \in 0 .. MaxDisturbances
    BY <1>1, <2>1, Disturbing DEF Inspected
  <2>5. /\ flush' \in FlushRecords
        /\ UNCHANGED <<disk, memory, memoryBytes, unsaved, timer, accepted, deletedAt>>
    BY <1>1, <1>3, FlushShortened DEF InventoryAcquires, history
  <2>6. Replace(s, job)
    BY <2>1
  <2> HIDE DEF job
  <2> QED BY <1>2, <2>3, <2>4, <2>5, <2>6, ReplaceKeeps
<1>4. ASSUME NEW keep \in BOOLEAN, InventoryRetires(s, keep)
      PROVE  IInv'
  <2>1. /\ ~host'[s].present /\ Request(s, keep, pass) /\ UNCHANGED <<disk, disturbances>>
        /\ flush' \in FlushRecords
    BY <1>1, <1>2, <1>4, FlushShortened DEF InventoryRetires
  <2>2. disturbances' \in 0 .. MaxDisturbances /\ host' \in Vault /\ host[s].at <= host'[s].at
        /\ host'[s].at <= MaxEvents[s] /\ \A x \in Sources \ {s} : host'[x] = host[x]
    BY <1>1, <1>2, <2>1 DEF Typed
  <2> QED BY <1>2, <2>1, <2>2, RequestKeeps
<1>5. CASE InventorySkips(s)
  <2>1. UNCHANGED <<disk, masks, lane, task, flush, timer, disturbances, history>>
    BY <1>5 DEF InventorySkips
  <2>2. Typed'
    BY <1>1, <1>2, <2>1 DEF Typed, masks, history
  <2>3. Order'
    BY <1>1, <1>2, <2>1 DEF masks, history, Order, VaultAhead, JobsKnown, QuietLanes, Quiet, TaskOwned,
       WriteLands, MarksKeep, RetiredHead, Fresh
  <2> QED BY <1>1, <2>1, <2>2, <2>3, MemoryStays DEF IInv, masks
<1> QED BY <1>3, <1>4, <1>5 DEF Inventory

(* A pass that begins anew, in its lifetime or in another. *)
LEMMA PassesKeep ==
  ASSUME IInv, PassSuperseded \/ InventoryRepeats
  PROVE  IInv'
<1>1. Accounted /\ Typed /\ Order
  BY DEF IInv
<1>2. /\ UNCHANGED <<host, disk, masks, lane, task, flush, timer, history>>
      /\ due' \subseteq Sources /\ pass' \in Nat /\ disturbances' \in 0 .. MaxDisturbances
  BY <1>1, Disturbing DEF PassSuperseded, InventoryRepeats, WholeInventory, Typed
<1>3. Typed'
  BY <1>1, <1>2 DEF Typed, masks, history
<1>4. Order'
  BY <1>1, <1>2 DEF masks, history, Order, VaultAhead, JobsKnown, QuietLanes, Quiet, TaskOwned,
     WriteLands, MarksKeep, RetiredHead, Fresh
<1> QED BY <1>1, <1>2, <1>3, <1>4, MemoryStays DEF IInv, masks

LEMMA OtherActivatesKeeps ==
  ASSUME IInv, NEW s \in Sources, OtherActivates(s)
  PROVE  IInv'
<1>1. Accounted /\ Typed /\ Order
  BY DEF IInv
<1>2. /\ host[s].present /\ disturbances' \in 0 .. MaxDisturbances
      /\ UNCHANGED <<host, pass, due, memory, memoryBytes, unsaved, pending, askedBy, lane, task, flush, timer,
                     accepted, deletedAt>>
  BY <1>1, Disturbing DEF OtherActivates, masks, history
<1>3. /\ disk' \in Heads /\ \A x \in Sources \ {s} : disk'[x] = disk[x]
      /\ disk'[s].body = host[s].at
  <2> DEFINE r == [state |-> "complete", body |-> host[s].at, rev |-> disk[s].rev + 1]
  <2>1. disk' = [disk EXCEPT ![s] = r]
    BY DEF OtherActivates
  <2>2. disk \in Heads /\ disk[s].rev \in Nat /\ host[s].at \in Nat
    BY <1>1 DEF Typed, Heads, Vault, Contents
  <2>3. r \in [state : States, body : Contents, rev : Nat] /\ r.body = host[s].at
    BY <2>2 DEF States, Contents
  <2> HIDE DEF r
  <2> QED BY <2>1, <2>2, <2>3 DEF Heads
<1>4. Typed'
  BY <1>1, <1>2, <1>3 DEF Typed
<1>5. VaultAhead' /\ JobsKnown' /\ QuietLanes' /\ TaskOwned'
  BY <1>1, <1>2 DEF Order, VaultAhead, JobsKnown, QuietLanes, Quiet, TaskOwned
<1>6. Fresh(s)' /\ \A x \in Sources \ {s} : Fresh(x)' <=> Fresh(x)
  BY <1>1, <1>2, <1>3 DEF Fresh, Order, VaultAhead, Typed, Vault, Contents
<1>7. WriteLands'
  BY <1>1, <1>2, <1>3 DEF Order, WriteLands, JobsKnown, Typed, Vault, Contents, LaneRecords, Jobs
<1>8. MarksKeep'
  BY <1>1, <1>2, <1>6 DEF Order, MarksKeep
<1>9. RetiredHead'
  BY <1>1, <1>2, <1>3, <1>6 DEF Order, RetiredHead, Typed, TaskRecords
<1> QED BY <1>1, <1>2, <1>4, <1>5, <1>7, <1>8, <1>9, MemoryStays DEF IInv, Order

LEMMA NextKeeps == IInv /\ [Next]_vars => IInv'
<1> SUFFICES ASSUME IInv, [Next]_vars
             PROVE  IInv'
  OBVIOUS
<1>1. CASE \E s \in Sources : HostWrites(s)
  BY <1>1, HostWritesKeeps
<1>2. CASE \E s \in Sources, keep \in BOOLEAN : HostDeletes(s, keep)
  BY <1>2, HostDeletesKeeps
<1>3. CASE \E s \in Sources : Inventory(s)
  BY <1>3, InventoryKeeps
<1>4. CASE \E s \in Sources : OtherActivates(s)
  BY <1>4, OtherActivatesKeeps
<1>5. CASE \E s \in Sources : LaneStep(s)
  BY <1>5, LaneStepKeeps
<1>6. CASE \E s \in Sources : TaskStep(s)
  BY <1>6, TaskStepKeeps
<1>7. CASE FlushStep
  BY <1>7, FlushStepKeeps
<1>8. CASE PassSuperseded \/ InventoryRepeats
  BY <1>8, PassesKeep
<1>9. CASE UNCHANGED vars
  <2>1. /\ flush' = flush /\ timer' = timer /\ Undisturbed
        /\ UNCHANGED <<host, pass, due, disk, masks, lane, task, history>>
    BY <1>9 DEF vars, masks, history, Undisturbed
  <2>2. flush' \in FlushRecords /\ timer' \in BOOLEAN
    BY <2>1 DEF IInv, Typed
  <2> QED BY <2>1, <2>2, FlushOnlyKeeps
<1> QED BY <1>1, <1>2, <1>3, <1>4, <1>5, <1>6, <1>7, <1>8, <1>9 DEF Next

LEMMA Invariance == Spec => []IInv
BY InitInv, NextKeeps, PTL DEF Spec
-----------------------------------------------------------------------------
(* The invariants and the action property that the runs check. *)

(* The types hold, with at most one payload of a source in memory, however *)
(* rememberMemory() and forgetMemory() follow each other.                  *)
THEOREM OverlayTypeOK == Spec => []TypeOK
<1>1. IInv => TypeOK
  BY TypeParts DEF IInv
<1> QED BY <1>1, Invariance, PTL

(* memoryBytes is what the payloads in memory take, for any sizes and any  *)
(* budget: an eviction, a replacement and a release each give back what    *)
(* they took.                                                              *)
THEOREM OverlayBytesExact == Spec => []BytesExact
<1>1. IInv => BytesExact
  BY DEF IInv, Accounted
<1> QED BY <1>1, Invariance, PTL

(* Where a reader's facts come from. *)
LEMMA ViewFrom ==
  ASSUME IInv, NEW s \in Sources
  PROVE  /\ ReaderView(s).from \in {"nowhere", "memory", "disk"}
         /\ ReaderView(s).from = "memory" =>
              \E e \in HeldBy(s) : e.state # "tombstone" /\ ReaderView(s).body = e.body
         /\ ReaderView(s).from = "disk" =>
              /\ disk[s].state = "complete" /\ Fresh(s) /\ ReaderView(s).body = disk[s].body
<1>1. s \notin unsaved => Fresh(s)
  BY DEF IInv, Order, MarksKeep
<1>2. CASE Hidden(s)
  BY <1>2 DEF ReaderView, Masked
<1>3. CASE ~Hidden(s) /\ Held(s)
  <2>1. Payload(s) \in HeldBy(s)
    BY <1>3 DEF Payload, Held
  <2>2. ReaderView(s).from = "memory" /\ ReaderView(s).body = Payload(s).body
    BY <1>3 DEF ReaderView, BodyView, FromMemory
  <2>3. Payload(s).state # "tombstone"
    BY <1>3, <2>1 DEF Hidden
  <2> QED BY <2>1, <2>2, <2>3
<1>4. CASE ~Hidden(s) /\ ~Held(s)
  <2>1. disk[s].state = "complete"
    BY <1>4 DEF Hidden
  <2>2. CASE s \in unsaved
    BY <1>4, <2>2 DEF ReaderView, BodyView, Masked
  <2>3. CASE s \notin unsaved
    <3>1. ReaderView(s).from = "disk" /\ ReaderView(s).body = disk[s].body
      BY <1>4, <2>3 DEF ReaderView, BodyView, FromDisk
    <3> QED BY <1>1, <2>1, <2>3, <3>1
  <2> QED BY <2>2, <2>3
<1> QED BY <1>2, <1>3, <1>4

(* pin() never reads a head on disk that a deletion was asked for, however *)
(* that deletion ended.                                                    *)
THEOREM OverlayDeletedStaysMasked == Spec => []DeletedStaysMasked
<1>1. IInv => DeletedStaysMasked
  BY ViewFrom DEF DeletedStaysMasked, Fresh
<1> QED BY <1>1, Invariance, PTL

(* readSelected() never returns facts older than the newest ones taken     *)
(* over, whatever the sizes: neither an eviction nor facts that exceed the *)
(* whole budget uncover an older head or payload.                          *)
THEOREM OverlayNoOlderSelection == Spec => []NoOlderSelection
<1>1. ASSUME IInv, NEW s \in Sources, SelectedView(s).from # "nowhere"
      PROVE  SelectedView(s).body >= accepted[s]
  <2>1. ~Stale(s) /\ SelectedView(s) = ReaderView(s)
    BY <1>1 DEF SelectedView, Masked
  <2>2. CASE ReaderView(s).from = "disk"
    BY <2>1, <2>2, <1>1, ViewFrom DEF Fresh
  <2>3. CASE ReaderView(s).from = "memory"
    <3>1. PICK e \in HeldBy(s) : ReaderView(s).body = e.body
      BY <1>1, <2>3, ViewFrom
    <3>2. e.body = host[s].at
      BY <2>1, <3>1 DEF Stale, FactsCurrent, Unchanged
    <3>3. accepted[s] <= host[s].at /\ accepted[s] \in Nat /\ host[s].at \in Nat
      BY <1>1 DEF IInv, Order, VaultAhead, Typed, Vault, Contents
    <3> QED BY <2>1, <3>1, <3>2, <3>3
  <2> QED BY <1>1, <2>1, <2>2, <2>3, ViewFrom
<1>2. IInv => NoOlderSelection
  BY <1>1 DEF NoOlderSelection
<1> QED BY <1>2, Invariance, PTL
-----------------------------------------------------------------------------
(* A pending deletion has its mark; if its pass was superseded while the   *)
(* head is live, the next pass has the file still before it.               *)
Awaited(s) ==
  pending[s] # "none" =>
    /\ s \in unsaved
    /\ \/ host[s].present \/ askedBy[s] \in {0, pass}
       \/ s \in due \/ disk[s].state # "complete"

Awaits == \A s \in Sources : Awaited(s)

(* A new request is marked, and asked for by a handler or by this pass.    *)
LEMMA RequestAwaited ==
  ASSUME IInv, Awaits, NEW s \in Sources, NEW keep, NEW asker, Request(s, keep, asker),
         asker \in {0, pass'}, disk' = disk,
         \A x \in Sources \ {s} : disk[x].state = "complete" =>
           \/ host'[x].present \/ x \in due'
           \/ pass' = pass /\ host'[x] = host[x] /\ (x \in due => x \in due')
  PROVE  Awaits'
<1>1. /\ unsaved' = unsaved \cup {s}
      /\ askedBy' = [askedBy EXCEPT ![s] = asker] /\ askedBy \in [Sources -> Nat]
      /\ \A x \in Sources \ {s} : pending'[x] = pending[x]
  BY DEF Request, IInv, Typed
<1>2. Awaited(s)'
  BY <1>1 DEF Awaited
<1>3. ASSUME NEW x \in Sources \ {s}
      PROVE  Awaited(x)'
  BY <1>1, <1>3 DEF Awaited, Awaits
<1> QED BY <1>2, <1>3 DEF Awaits

(* Nothing is asked for: the marks may grow, requests may leave.           *)
LEMMA NothingAsked ==
  ASSUME IInv, Awaits,
         \A x \in Sources : pending'[x] # "none" =>
           /\ pending'[x] = pending[x] /\ askedBy'[x] = askedBy[x]
           /\ x \in unsaved => x \in unsaved'
           /\ \/ host'[x].present \/ disk'[x].state # "complete" \/ x \in due'
              \/ /\ pass' = pass /\ host'[x] = host[x] /\ disk'[x] = disk[x]
                 /\ x \in due => x \in due'
  PROVE  Awaits'
BY DEF Awaits, Awaited

LEMMA LaneAwaits ==
  ASSUME IInv, Awaits, NEW s \in Sources, LaneStep(s)
  PROVE  Awaits'
<1>1. Typed /\ Order /\ disk \in Heads
  BY DEF IInv, Typed
<1>2. UNCHANGED <<host, pass, due, pending, askedBy>>
  BY DEF LaneStep
<1>3. unsaved' \in {unsaved, unsaved \cup {s}} \/ (JobCurrent(s) /\ unsaved' = unsaved \ {s})
  BY DEF LaneStep, LaneWrites, LaneFinishes, FactsRefused, Forget
<1>4. disk' = disk \/ (JobCurrent(s) /\ SelectFacts(s))
  BY DEF LaneStep, LaneWrites, LaneFinishes
<1>5. JobCurrent(s) => pending[s] = "none"
  BY <1>1, CurrentJob
<1>6. \A x \in Sources \ {s} : disk'[x] = disk[x] /\ (x \in unsaved => x \in unsaved')
  BY <1>1, <1>3, <1>4, SelectedFacts
<1> QED BY <1>2, <1>3, <1>4, <1>5, <1>6, NothingAsked

LEMMA TaskAwaits ==
  ASSUME IInv, Awaits, NEW s \in Sources, TaskStep(s)
  PROVE  Awaits'
<1>1. Typed /\ pending \in [Sources -> {"none", "drop", "retain"}] /\ askedBy \in [Sources -> Nat]
  BY DEF IInv, Typed
<1>2. UNCHANGED <<host, pass, due>>
  BY DEF TaskStep
<1>3. \/ UNCHANGED <<pending, askedBy>> /\ unsaved' \in {unsaved, unsaved \cup {s}}
      \/ Dropped(s) /\ unsaved' = unsaved \ {s}
  BY DEF TaskStep, DeletePins, DeleteAbsent, DeleteActivates, DeleteRefused, DeleteFinishes, TaskGivesUp,
         Forget, masks
<1>4. disk' = disk \/ SelectTombstone(s)
  BY DEF TaskStep, DeletePins, DeleteAbsent, DeleteActivates, DeleteFinishes, TaskGivesUp
<1>5. \A x \in Sources : disk'[x] = disk[x] \/ disk'[x].state # "complete"
  BY <1>1, <1>4, TombstoneSelected
<1>6. \A x \in Sources : pending'[x] # "none" =>
        pending'[x] = pending[x] /\ askedBy'[x] = askedBy[x] /\ (x \in unsaved => x \in unsaved')
  BY <1>1, <1>3 DEF Dropped
<1> QED BY <1>2, <1>5, <1>6, NothingAsked

LEMMA FlushAwaits ==
  ASSUME IInv, Awaits, FlushStep
  PROVE  Awaits'
<1>1. pending \in [Sources -> {"none", "drop", "retain"}] /\ askedBy \in [Sources -> Nat]
  BY DEF IInv, Typed
<1>2. UNCHANGED <<host, pass, due>>
  BY DEF FlushStep
<1>3. CASE \E s \in Sources : FlushRetriesDeletion(s)
  <2>1. PICK s \in Sources : FlushRetriesDeletion(s)
    BY <1>3
  <2>2. Request(s, pending[s] = "retain", askedBy[s]) /\ disk' = disk /\ askedBy[s] \in {0, pass}
    BY <2>1 DEF FlushRetriesDeletion, DeletionWanted
  <2> QED BY <1>2, <2>2, RequestAwaited
<1>4. ASSUME NEW s \in Sources, Dropped(s), UNCHANGED <<disk, unsaved>>
      PROVE  Awaits'
  <2>1. \A x \in Sources : pending'[x] # "none" => pending'[x] = pending[x] /\ askedBy'[x] = askedBy[x]
    BY <1>1, <1>4 DEF Dropped
  <2> QED BY <1>2, <1>4, <2>1, NothingAsked
<1>5. CASE \E s \in Sources : FlushDropsDeletion(s)
  BY <1>4, <1>5 DEF FlushDropsDeletion
<1>6. CASE UNCHANGED <<pending, askedBy, disk, unsaved>>
  BY <1>2, <1>6, NothingAsked
<1>7. CASE FlushEntry
  <2>1. Head(flush.entries).source \in Sources
    BY <1>7, FlushFacts DEF FlushEntry, Entries
  <2> QED BY <1>4, <1>6, <1>7, <2>1 DEF FlushEntry, Replace, EndFlush, masks
<1> QED BY <1>3, <1>5, <1>6, <1>7
    DEF FlushStep, FlushStarts, FlushAwaitsLanes, FlushAwaitsTask, FlushAwaitsDeletion,
        FlushTurnsToMemory, FlushAwaitsWrite, FlushEnds, EndFlush, masks

LEMMA InventoryAwaits ==
  ASSUME IInv, Awaits, NEW s \in Sources, Inventory(s)
  PROVE  Awaits'
<1>1. pending \in [Sources -> {"none", "drop", "retain"}] /\ askedBy \in [Sources -> Nat]
  BY DEF IInv, Typed
<1>2. UNCHANGED <<host, pass>> /\ due' = due \ {s}
  BY DEF Inventory
<1>3. CASE InventoryAcquires(s)
  <2>1. Dropped(s) /\ UNCHANGED <<disk, unsaved>>
    BY <1>3 DEF InventoryAcquires, Replace
  <2>2. pending'[s] = "none" /\ \A x \in Sources \ {s} : pending'[x] = pending[x] /\ askedBy'[x] = askedBy[x]
    BY <1>1, <2>1 DEF Dropped
  <2> QED BY <1>2, <2>1, <2>2, NothingAsked
<1>4. ASSUME NEW keep \in BOOLEAN, InventoryRetires(s, keep)
      PROVE  Awaits'
  BY <1>2, <1>4, RequestAwaited DEF InventoryRetires
<1>5. CASE InventorySkips(s)
  <2>1. host[s].present \/ disk[s].state # "complete"
    BY <1>5 DEF InventorySkips
  <2> QED BY <1>2, <1>5, <2>1, NothingAsked DEF InventorySkips, masks
<1> QED BY <1>3, <1>4, <1>5 DEF Inventory

LEMMA AwaitsKept ==
  ASSUME IInv, Awaits, [Next]_vars
  PROVE  Awaits'
<1>1. Typed
  BY DEF IInv
<1>2. CASE \E s \in Sources : HostWrites(s)
  BY <1>2, NothingAsked DEF HostWrites, WholeInventory, masks
<1>3. CASE \E s \in Sources, keep \in BOOLEAN : HostDeletes(s, keep)
  BY <1>3, RequestAwaited DEF HostDeletes, WholeInventory
<1>4. CASE PassSuperseded
  BY <1>4, NothingAsked DEF PassSuperseded, WholeInventory, masks
<1>5. CASE \E s \in Sources : Inventory(s)
  BY <1>5, InventoryAwaits
<1>6. CASE InventoryRepeats
  BY <1>6, NothingAsked DEF InventoryRepeats, masks
<1>7. CASE \E s \in Sources : OtherActivates(s)
  <2>1. PICK s \in Sources : OtherActivates(s)
    BY <1>7
  <2>2. UNCHANGED <<host, pass, due, pending, askedBy, unsaved>> /\ host[s].present
    BY <2>1 DEF OtherActivates, masks
  <2>3. \A x \in Sources \ {s} : disk'[x] = disk[x]
    BY <1>1, <2>1 DEF OtherActivates, Typed, Heads
  <2> QED BY <2>2, <2>3, NothingAsked
<1>8. CASE \E s \in Sources : LaneStep(s)
  BY <1>8, LaneAwaits
<1>9. CASE \E s \in Sources : TaskStep(s)
  BY <1>9, TaskAwaits
<1>10. CASE FlushStep
  BY <1>10, FlushAwaits
<1>11. CASE UNCHANGED vars
  BY <1>11, NothingAsked DEF vars
<1> QED BY <1>2, <1>3, <1>4, <1>5, <1>6, <1>7, <1>8, <1>9, <1>10, <1>11 DEF Next

(* An action takes a request away only when its file is back, when the     *)
(* head it asked to retire is no longer live, or when the pass that asked  *)
(* for it was superseded and the next one will look at the file.           *)
LEMMA RequestsStay ==
  ASSUME IInv, Awaits, Next, NEW s \in Sources,
         pending[s] # "none", pending'[s] = "none", ~host'[s].present
  PROVE  disk'[s].state # "complete" \/ s \in unsaved' \cap due'
<1>1. Typed /\ Order /\ pending \in [Sources -> {"none", "drop", "retain"}]
  BY DEF IInv, Typed
<1>2. ASSUME NEW x \in Sources, NEW keep \in BOOLEAN, NEW asker, Request(x, keep, asker)
      PROVE  FALSE
  BY <1>1, <1>2 DEF Request
<1>3. ASSUME NEW x \in Sources, NEW job, Replace(x, job), host[x].present, host' = host
      PROVE  FALSE
  BY <1>1, <1>3 DEF Replace, Dropped
<1>4. CASE \E x \in Sources : HostWrites(x)
  BY <1>4 DEF HostWrites, masks
<1>5. CASE \E x \in Sources, keep \in BOOLEAN : HostDeletes(x, keep)
  BY <1>2, <1>5 DEF HostDeletes
<1>6. CASE \E x \in Sources : Inventory(x)
  <2>1. PICK x \in Sources : Inventory(x)
    BY <1>6
  <2>2. CASE InventoryAcquires(x)
    BY <1>3, <2>1, <2>2 DEF InventoryAcquires, Inventory
  <2>3. CASE \E keep \in BOOLEAN : InventoryRetires(x, keep)
    BY <1>2, <2>3 DEF InventoryRetires
  <2>4. CASE InventorySkips(x)
    BY <2>4 DEF InventorySkips, masks
  <2> QED BY <2>1, <2>2, <2>3, <2>4 DEF Inventory
<1>7. CASE \E x \in Sources : OtherActivates(x)
  BY <1>7 DEF OtherActivates, masks
<1>8. CASE \E x \in Sources : LaneStep(x)
  BY <1>8 DEF LaneStep
<1>9. CASE \E x \in Sources : TaskStep(x)
  <2>1. PICK x \in Sources : TaskStep(x)
    BY <1>9
  <2>2. host' = host /\ x \in task.source
    BY <2>1 DEF TaskStep
  <2>3. ~DeletePins(x) /\ ~DeleteActivates(x) /\ ~TaskGivesUp(x)
    BY DEF DeletePins, DeleteActivates, DeleteRefused, TaskGivesUp, masks
  <2>4. CASE DeleteAbsent(x)
    BY <1>1, <2>2, <2>3, <2>4 DEF DeleteAbsent, Dropped, masks
  <2>5. CASE DeleteFinishes(x)
    <3>1. /\ task.phase = "committed" /\ task.owned /\ disk' = disk
          /\ pending' = [pending EXCEPT ![x] = "none"]
      BY <2>3, <2>5 DEF DeleteFinishes, TaskCurrent, Dropped
    <3>2. s = x
      BY <1>1, <3>1
    <3> QED BY <1>1, <2>2, <3>1, <3>2 DEF Order, RetiredHead
  <2> QED BY <2>1, <2>3, <2>4, <2>5 DEF TaskStep
<1>10. CASE FlushStep
  <2>1. CASE (\E x \in Sources : FlushDropsDeletion(x)) /\ UNCHANGED <<host, due>>
    <3>1. PICK x \in Sources : FlushDropsDeletion(x)
      BY <2>1
    <3>2. pending' = [pending EXCEPT ![x] = "none"] /\ ~DeletionWanted(x) /\ UNCHANGED <<disk, unsaved>>
      BY <3>1 DEF FlushDropsDeletion, Dropped
    <3>3. s = x
      BY <1>1, <3>2
    <3> QED BY <2>1, <3>2, <3>3 DEF Awaits, Awaited, DeletionWanted
  <2>2. CASE \E x \in Sources : FlushRetriesDeletion(x)
    BY <1>2, <2>2 DEF FlushRetriesDeletion
  <2>3. CASE FlushEntry /\ host' = host
    <3> DEFINE e == Head(flush.entries)
    <3>1. e.source \in Sources
      BY <2>3, FlushFacts DEF FlushEntry, Entries
    <3>2. Replace(e.source, [by |-> "retry", body |-> e.body, base |-> RetryBase(e), pass |-> e.pass]) /\ Retriable(e)
      BY <2>3 DEF FlushEntry, EndFlush, masks
    <3> QED BY <1>3, <2>3, <3>1, <3>2 DEF Retriable, FactsCurrent, Unchanged
  <2>4. CASE FlushStarts \/ FlushAwaitsLanes \/ FlushAwaitsTask \/ FlushAwaitsDeletion
             \/ FlushTurnsToMemory \/ FlushAwaitsWrite \/ FlushEnds
    BY <2>4 DEF FlushStarts, FlushAwaitsLanes, FlushAwaitsTask, FlushAwaitsDeletion,
       FlushTurnsToMemory, FlushAwaitsWrite, FlushEnds, EndFlush, masks
  <2> QED BY <1>10, <2>1, <2>2, <2>3, <2>4 DEF FlushStep
<1>11. CASE PassSuperseded \/ InventoryRepeats
  BY <1>11 DEF PassSuperseded, InventoryRepeats, masks
<1> QED BY <1>4, <1>5, <1>6, <1>7, <1>8, <1>9, <1>10, <1>11 DEF Next

(* No interleaving of retries, replacements, evictions, superseded passes  *)
(* and vault events drops the deletion of a file that is gone while its    *)
(* head is live, unless the source stays masked and before the next pass.  *)
THEOREM OverlayDeletionsKept == Spec => DeletionsKept
<1> DEFINE Kept(s) == pending[s] # "none" /\ pending'[s] = "none" /\ ~host'[s].present
                       => disk'[s].state # "complete" \/ s \in unsaved' \cap due'
<1>1. ASSUME IInv, Awaits, [Next]_vars, NEW s \in Sources
      PROVE  Kept(s)
  <2>1. CASE Next
    BY <1>1, <2>1, RequestsStay
  <2>2. CASE UNCHANGED vars
    BY <2>2 DEF vars
  <2> QED BY <1>1, <2>1, <2>2
<1>2. Init => Awaits
  BY DEF Init, Awaits, Awaited
<1>3. IInv /\ Awaits /\ [Next]_vars => Awaits'
  BY AwaitsKept
<1>4. IInv /\ Awaits /\ [Next]_vars => [\A s \in Sources : Kept(s)]_vars
  BY <1>1
<1> QED BY <1>2, <1>3, <1>4, Invariance, PTL DEF Spec, DeletionsKept
-----------------------------------------------------------------------------
(* Payloads that fit.  Facts larger than the whole memory are only marked, *)
(* and an older payload of the source stays; where every payload fits, a   *)
(* payload in memory is the newest.                                        *)
Fits == \A s \in Sources : \A body \in 1 .. MaxEvents[s] : Size[s][body] <= Budget

HeldNewest == \A e \in ToSet(memory) : e.state = "complete" => e.body >= accepted[e.source]

LEMMA NewestStays ==
  ASSUME IInv, HeldNewest, UNCHANGED <<memory, accepted>>
  PROVE  HeldNewest'
BY DEF HeldNewest

LEMMA ForgetNewest ==
  ASSUME IInv, HeldNewest, NEW s \in Sources, Forget(s),
         \A x \in Sources \ {s} : accepted'[x] = accepted[x]
  PROVE  HeldNewest'
<1>1. ToSet(memory') = ToSet(memory) \ HeldBy(s)
  BY ForgetIs DEF IInv
<1>2. \A e \in ToSet(memory) : e.source \in Sources
  BY MemoryElements DEF IInv, Accounted, Memories, Entries
<1> QED BY <1>1, <1>2 DEF HeldNewest, HeldBy

LEMMA RememberNewest ==
  ASSUME IInv, HeldNewest, NEW e \in Entries, Remember(e),
         e.state = "complete" => e.body >= accepted'[e.source],
         \A x \in Sources \ {e.source} : accepted'[x] = accepted[x]
  PROVE  HeldNewest'
<1>1. ToSet(memory') \subseteq (ToSet(memory) \ HeldBy(e.source)) \cup {e}
  BY RememberIs DEF IInv
<1>2. \A x \in ToSet(memory) : x.source \in Sources
  BY MemoryElements DEF IInv, Accounted, Memories, Entries
<1> QED BY <1>1, <1>2 DEF HeldNewest, HeldBy

LEMMA LaneNewest ==
  ASSUME Fits, IInv, HeldNewest, NEW s \in Sources, LaneStep(s)
  PROVE  HeldNewest'
<1>1. Typed /\ Order /\ accepted \in [Sources -> Nat]
  BY DEF IInv, Typed, Contents
<1>2. CASE UNCHANGED <<memory, accepted>>
  BY <1>2, NewestStays
<1>3. CASE JobCurrent(s) /\ FactsRefused(s)
  <2> DEFINE job == lane[s].job
             e == [source |-> s, state |-> "complete", body |-> job.body,
                   base |-> job.base, size |-> Size[s][job.body], pass |-> job.pass]
  <2>1. job.body \in 1 .. MaxEvents[s] /\ MaxEvents[s] \in Nat /\ job.base \in Int /\ job.pass \in Nat
    BY <1>1, <1>3, CurrentJob, LaneFacts
  <2>2. Size[s][job.body] \in Nat /\ Size[s][job.body] <= Budget /\ Budget \in Nat
    BY <2>1, OverlayAssumption DEF Fits
  <2>3. Remember(e) /\ accepted' = [accepted EXCEPT ![s] = job.body]
    BY <1>3, <2>2 DEF FactsRefused
  <2>4. job.body \in Nat
    BY <2>1
  <2> HIDE DEF job
  <2>5. e \in Entries /\ e.source = s /\ e.body = job.body
    BY <2>1, <2>2, <2>4 DEF Entries, Contents
  <2> HIDE DEF e
  <2>6. accepted'[s] = job.body /\ \A x \in Sources \ {s} : accepted'[x] = accepted[x]
    BY <1>1, <2>3
  <2> QED BY <2>3, <2>4, <2>5, <2>6, RememberNewest
<1>4. CASE Forget(s) /\ accepted' = [accepted EXCEPT ![s] = lane[s].job.body]
  BY <1>1, <1>4, ForgetNewest
<1> QED BY <1>2, <1>3, <1>4 DEF LaneStep, LaneWrites, LaneFinishes

LEMMA TaskNewest ==
  ASSUME IInv, HeldNewest, NEW s \in Sources, TaskStep(s)
  PROVE  HeldNewest'
<1>1. accepted' = accepted
  BY DEF TaskStep
<1>2. CASE memory' = memory
  BY <1>1, <1>2, NewestStays
<1>3. CASE Forget(s)
  BY <1>1, <1>3, ForgetNewest
<1>4. CASE Remember(Tombstone(s))
  <2>1. Typed
    BY DEF IInv
  <2>2. Tombstone(s) \in Entries /\ Tombstone(s).state = "tombstone"
    BY <2>1, TombstoneIs
  <2> QED BY <1>1, <1>4, <2>2, RememberNewest
<1>5. memory' = memory \/ Forget(s) \/ Remember(Tombstone(s))
  BY DEF TaskStep, DeletePins, DeleteAbsent, DeleteActivates, DeleteRefused, DeleteFinishes,
         TaskGivesUp, masks
<1> QED BY <1>2, <1>3, <1>4, <1>5

LEMMA NewestKept ==
  ASSUME Fits, IInv, HeldNewest, [Next]_vars
  PROVE  HeldNewest'
<1>1. CASE \E s \in Sources : LaneStep(s)
  BY <1>1, LaneNewest
<1>2. CASE \E s \in Sources : TaskStep(s)
  BY <1>2, TaskNewest
<1>3. ASSUME NEW s \in Sources, NEW keep, NEW asker, Request(s, keep, asker)
      PROVE  HeldNewest'
  BY <1>3, NewestStays DEF Request
<1>4. CASE \E s \in Sources : HostWrites(s)
  BY <1>4, NewestStays DEF HostWrites, masks, history
<1>5. CASE \E s \in Sources, keep \in BOOLEAN : HostDeletes(s, keep)
  BY <1>3, <1>5 DEF HostDeletes
<1>6. CASE \E s \in Sources : Inventory(s)
  BY <1>3, <1>6, NewestStays
  DEF Inventory, InventoryAcquires, InventoryRetires, InventorySkips, masks, history
<1>7. CASE \E s \in Sources : OtherActivates(s)
  BY <1>7, NewestStays DEF OtherActivates, masks, history
<1>8. CASE FlushStep
  <2>1. CASE \E s \in Sources : FlushRetriesDeletion(s)
    BY <1>3, <2>1 DEF FlushRetriesDeletion
  <2>2. CASE memory' = memory /\ UNCHANGED history
    BY <2>2, NewestStays DEF history
  <2>3. memory' = memory \/ \E s \in Sources : FlushRetriesDeletion(s)
    BY <1>8
    DEF FlushStep, FlushStarts, FlushAwaitsLanes, FlushAwaitsTask, FlushAwaitsDeletion, FlushTurnsToMemory,
        FlushAwaitsWrite, FlushEnds, EndFlush, FlushEntry, FlushDropsDeletion, masks
  <2> QED BY <1>8, <2>1, <2>2, <2>3 DEF FlushStep
<1>9. CASE UNCHANGED vars
  BY <1>9, NewestStays DEF vars
<1>10. CASE PassSuperseded \/ InventoryRepeats
  BY <1>10, NewestStays DEF PassSuperseded, InventoryRepeats, masks, history
<1> QED BY <1>1, <1>2, <1>4, <1>5, <1>6, <1>7, <1>8, <1>9, <1>10 DEF Next

(* Where no content exceeds the memory budget, a reader that does not ask  *)
(* for currency still never gets facts older than the newest ones taken    *)
(* over.  Without that, the older payload of a source that outgrew the     *)
(* budget is such facts.                                                   *)
THEOREM OverlayNoOlderFacts ==
  ASSUME Fits
  PROVE  Spec => []NoOlderFacts
<1>1. Init => HeldNewest
  BY DEF Init, HeldNewest, ToSet
<1>2. IInv /\ HeldNewest /\ [Next]_vars => HeldNewest'
  BY NewestKept
<1>3. ASSUME IInv, HeldNewest, NEW s \in Sources, ReaderView(s).from # "nowhere"
      PROVE  ReaderView(s).body >= accepted[s]
  <2>1. CASE ReaderView(s).from = "disk"
    BY <1>3, <2>1, ViewFrom DEF Fresh
  <2>2. CASE ReaderView(s).from = "memory"
    <3>1. PICK e \in HeldBy(s) : e.state # "tombstone" /\ ReaderView(s).body = e.body
      BY <1>3, <2>2, ViewFrom
    <3>2. e \in Entries /\ e \in ToSet(memory) /\ e.source = s
      BY <1>3, MemoryElements DEF HeldBy, IInv, Accounted, Memories
    <3>3. e.state = "complete"
      BY <3>1, <3>2 DEF Entries
    <3> QED BY <1>3, <3>1, <3>2, <3>3 DEF HeldNewest
  <2> QED BY <1>3, <2>1, <2>2, ViewFrom
<1>4. IInv /\ HeldNewest => NoOlderFacts
  BY <1>3 DEF NoOlderFacts
<1> QED BY <1>1, <1>2, <1>4, Invariance, PTL DEF Spec
=============================================================================
