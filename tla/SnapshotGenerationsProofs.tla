----------------------- MODULE SnapshotGenerationsProofs -----------------------
(***************************************************************************)
(* What is proved of SnapshotGenerations for every number of pages, chunks  *)
(* and generations and every batch, chunk and page size.                   *)
(*                                                                         *)
(* A root stays whole for two reasons: it is put only when all records and *)
(* chunks of its generation are written, and nothing writes or deletes a   *)
(* generation that is a root.  The inductive invariant says both: how far  *)
(* a writer has come, and that what is being written is no root.           *)
(***************************************************************************)
EXTENDS SnapshotGenerations, TLAPS

(* How much of its generation a writer has on disk in each phase. *)
Progress ==
  \A g \in Generations :
    /\ writer[g].phase = "evidence" =>
         stored[g].records = Pages /\ stored[g].pageChunks = PageChunks
    /\ writer[g].phase = "root" => stored[g] = Whole

(* A generation being written was drawn for it and is no root yet. *)
Unrooted ==
  /\ \A k \in Keys : roots[k] # None => roots[k] \in drawn
  /\ Writers \subseteq drawn
  /\ \A g \in Writers : \A k \in Keys : roots[k] # g

IInv == TypeOK /\ RootsWhole /\ Progress /\ Unrooted
-----------------------------------------------------------------------------
(* Finished chunks never outnumber those of the whole graph. *)
LEMMA ChunksBounded ==
  ASSUME NEW n \in Nat, n <= Pages
  PROVE  n \div Chunk \in 0 .. PageChunks
  BY SizesAssumption DEF PageChunks

LEMMA WholeTyped ==
  /\ PageChunks \in Nat
  /\ Whole \in [records : 0 .. Pages, evidence : 0 .. EvidenceChunks, pageChunks : 0 .. PageChunks]
  /\ Nothing \in [records : 0 .. Pages, evidence : 0 .. EvidenceChunks, pageChunks : 0 .. PageChunks]
  BY SizesAssumption DEF PageChunks, Whole, Nothing, Stores

(* What only cancels writers, or leaves them alone, endangers no root. *)
LEMMA Spectating ==
  ASSUME IInv, UNCHANGED <<roots, stored, drawn>>,
         \A g \in Generations : writer'[g].phase \in {writer[g].phase, "none"}
  PROVE  RootsWhole' /\ Progress' /\ Unrooted'
<1>1. RootsWhole'
  BY DEF IInv, RootsWhole, Whole, PageChunks
<1>2. Progress'
  BY DEF IInv, Progress, Whole, PageChunks
<1>3. Unrooted'
  BY DEF IInv, Unrooted, Writers
<1> QED BY <1>1, <1>2, <1>3
-----------------------------------------------------------------------------
Cleaners ==
  [phase : {"none", "list", "catalog", "delete"}, live : BOOLEAN,
   for : Generations \cup {None}, found : SUBSET Generations,
   at : Generations \cup {None}, turn : 1 .. 3]

(* Events of the vault and of the user, start-up, and death.               *)
LEMMA BumpTyped ==
  ASSUME TypeOK, BumpRun
  PROVE  /\ writer' \in [Generations -> [phase : WriterPhases, live : BOOLEAN]]
         /\ cleaner' \in Cleaners
         /\ \A g \in Generations : writer'[g].phase = writer[g].phase
<1>1. cleaner' \in Cleaners
  <2>1. cleaner \in Cleaners
    BY DEF TypeOK, Cleaners
  <2>2. cleaner' = [cleaner EXCEPT !.live = FALSE]
    BY DEF BumpRun
  <2> QED BY <2>1, <2>2, ZenonT(30) DEF Cleaners
<1>2. \A g \in Generations : writer[g] \in [phase : WriterPhases, live : BOOLEAN]
  BY DEF TypeOK
<1> QED BY <1>1, <1>2 DEF BumpRun

Indexes ==
  [awake : BOOLEAN, persist : BOOLEAN, cleanup : {"off", "armed", "stale"},
   known : Generations \cup {None}, building : {"no", "patch", "rebuild", "whole"},
   hydrated : BOOLEAN, borrowed : BOOLEAN]

LEMMA ScheduleTyped ==
  ASSUME TypeOK, NEW defer \in BOOLEAN, NEW changes \in Indexes, SchedulePersist(defer, changes)
  PROVE  /\ index' \in Indexes
         /\ BumpRun \/ UNCHANGED <<writer, cleaner>>
<1> DEFINE Cleanups == {"off", "armed", "stale"}
<1>1. \A c \in Cleanups : Stale(c) \in Cleanups /\ Deferred(changes.known, c) \in Cleanups
  BY DEF Stale, Deferred
<1>2. changes.cleanup \in Cleanups
  BY DEF Indexes
<1>3. PICK persist \in {changes.persist, TRUE}, c \in Cleanups :
        index' = [changes EXCEPT !.persist = persist, !.cleanup = c]
  <2> HIDE DEF Cleanups
  <2>1. Stale(changes.cleanup) \in Cleanups
    BY <1>1, <1>2
  <2>2. /\ Deferred(changes.known, changes.cleanup) \in Cleanups
        /\ Deferred(changes.known, Stale(changes.cleanup)) \in Cleanups
    BY <1>1, <1>2, <2>1
  <2>3. CASE changes.borrowed
    <3>1. PICK c \in Cleanups : index' = [changes EXCEPT !.cleanup = c]
      BY <1>2, <2>2, <2>3 DEF SchedulePersist
    <3>2. index' = [changes EXCEPT !.persist = changes.persist, !.cleanup = c]
      BY <3>1 DEF Indexes
    <3> QED BY <3>2
  <2>4. CASE ~changes.borrowed
    BY <2>1, <2>2, <2>4 DEF SchedulePersist
  <2> QED BY <2>3, <2>4
<1>4. index' \in Indexes
  BY <1>3 DEF Indexes
<1>5. BumpRun \/ UNCHANGED <<writer, cleaner>>
  BY DEF SchedulePersist
<1> QED BY <1>4, <1>5

LEMMA CancelTyped ==
  ASSUME TypeOK
  PROVE  index \in Indexes /\ Cancelled \in Indexes
  BY DEF TypeOK, Indexes, Cancelled

LEMMA ChangesStep ==
  ASSUME IInv, Changes \/ Ends
  PROVE  IInv'
<1>1. index' \in Indexes /\ (BumpRun \/ UNCHANGED <<writer, cleaner>>)
  <2>1. CASE PatchStarts
    BY <2>1, CancelTyped DEF IInv, PatchStarts, CancelPersist, Indexes, Deferred
  <2>2. CASE PatchEnds
    <3>1. [index EXCEPT !.building = "no"] \in Indexes
      BY CancelTyped DEF IInv, Indexes
    <3> QED BY <2>2, <3>1, ScheduleTyped DEF IInv, PatchEnds
  <2>3. CASE RebuildStarts
    BY <2>3, CancelTyped DEF IInv, RebuildStarts, CancelPersist, Indexes
  <2>4. CASE RebuildPublishes
    BY <2>4, CancelTyped DEF IInv, RebuildPublishes, Indexes
  <2>5. CASE RebuildEnds
    <3> DEFINE ended == [index EXCEPT !.building = "no"]
    <3>1. ended \in Indexes /\ [ended EXCEPT !.hydrated = TRUE, !.borrowed = FALSE] \in Indexes
      BY CancelTyped DEF IInv, Indexes
    <3> QED BY <2>5, <3>1, ScheduleTyped DEF IInv, RebuildEnds
  <2>6. CASE EditedInPlace
    BY <2>6, CancelTyped, ScheduleTyped DEF IInv, EditedInPlace
  <2>7. CASE Hidden
    BY <2>7, CancelTyped DEF IInv, Hidden, CancelPersist
  <2>8. CASE StartsQuietly
    BY <2>8, CancelTyped DEF IInv, StartsQuietly, Indexes
  <2> QED BY <2>1, <2>2, <2>3, <2>4, <2>5, <2>6, <2>7, <2>8 DEF Changes, Ends
<1>2. UNCHANGED <<roots, stored, drawn>> /\ disturbances' \in 0 .. MaxDisturbances
  BY SizesAssumption DEF Changes, Ends, Disturb, IInv, TypeOK
<1>3. TypeOK' /\ \A g \in Generations : writer'[g].phase = writer[g].phase
  BY <1>1, <1>2, BumpTyped DEF IInv, TypeOK, Indexes, Cleaners, PageChunks
<1> QED BY <1>2, <1>3, Spectating DEF IInv

LEMMA StartsUpStep ==
  ASSUME IInv, StartsUp
  PROVE  IInv'
<1>1. index' \in Indexes
  <2>1. CASE BuildsAnew
    BY <2>1 DEF BuildsAnew, Asleep, Indexes
  <2>2. ASSUME NEW k \in Keys, NEW borrowed \in BOOLEAN, NEW again \in BOOLEAN,
               Restores(k, borrowed, again)
        PROVE  index' \in Indexes
    <3>1. roots[k] \in Generations
      BY <2>2 DEF Restores, IInv, TypeOK
    <3>2. (again /\ k = "active" /\ ~borrowed) \in BOOLEAN /\ (k = "active") \in BOOLEAN
      OBVIOUS
    <3> QED BY <2>2, <3>1, <3>2 DEF Restores, Asleep, Indexes
  <2> QED BY <2>1, <2>2 DEF StartsUp
<1>2. TypeOK'
  BY <1>1 DEF StartsUp, IInv, TypeOK, Indexes, PageChunks
<1> QED BY <1>2, Spectating DEF StartsUp, IInv

LEMMA DiesStep ==
  ASSUME IInv, Dies
  PROVE  IInv'
<1>1. index' \in Indexes
  BY DEF Dies, Asleep, Indexes
<1>2. cleaner' = NoCleaner /\ writer' = [g \in Generations |-> NoWriter]
  BY DEF Dies
<1>3. TypeOK'
  BY <1>1, <1>2, SizesAssumption
  DEF Dies, Disturb, NoWriter, NoCleaner, WriterPhases, IInv, TypeOK, Indexes, PageChunks
<1> QED BY <1>2, <1>3, Spectating DEF Dies, NoWriter, IInv

LEMMA CleanupFiresStep ==
  ASSUME IInv, CleanupFires
  PROVE  IInv'
<1>1. index' \in Indexes
  BY DEF CleanupFires, Indexes, IInv, TypeOK
<1>2. cleaner' \in Cleaners
  <2>1. cleaner \in Cleaners /\ index.known \in Generations \cup {None}
    BY DEF IInv, TypeOK, Cleaners
  <2>2. NoCleaner \in Cleaners
    BY DEF NoCleaner, Cleaners
  <2>3. [NoCleaner EXCEPT !.phase = "list", !.live = TRUE, !.for = index.known] \in Cleaners
    BY <2>1, <2>2 DEF Cleaners
  <2> QED BY <2>1, <2>3 DEF CleanupFires
<1>3. UNCHANGED <<roots, stored, drawn, writer, disturbances>>
  BY DEF CleanupFires
<1>4. TypeOK'
  BY <1>1, <1>2, <1>3 DEF IInv, TypeOK, Indexes, Cleaners, PageChunks
<1> QED BY <1>3, <1>4, Spectating DEF IInv
-----------------------------------------------------------------------------
(* The writer. *)
LEMMA PersistFiresStep ==
  ASSUME IInv, PersistFires
  PROVE  IInv'
<1>1. index' \in Indexes /\ UNCHANGED <<roots, stored, cleaner>>
  BY DEF PersistFires, Indexes, IInv, TypeOK
<1>2. disturbances' \in 0 .. MaxDisturbances
  BY SizesAssumption DEF PersistFires, Disturb, IInv, TypeOK
<1>3. CASE UNCHANGED <<drawn, writer>>
  <2>1. TypeOK'
    BY <1>1, <1>2, <1>3 DEF IInv, TypeOK, Indexes, PageChunks
  <2> QED BY <1>1, <1>3, <2>1, Spectating DEF IInv
<1>4. ASSUME NEW g \in Generations \ drawn,
             drawn' = drawn \cup {g},
             writer' = [writer EXCEPT ![g] = [phase |-> "pages", live |-> TRUE]]
      PROVE  IInv'
  <2>1. TypeOK'
    BY <1>1, <1>2, <1>4 DEF IInv, TypeOK, Indexes, PageChunks, WriterPhases
  <2>2. RootsWhole'
    BY <1>1 DEF IInv, RootsWhole, Whole, PageChunks
  <2>3. \A h \in Generations : writer'[h].phase = IF h = g THEN "pages" ELSE writer[h].phase
    BY <1>4 DEF IInv, TypeOK
  <2>4. Progress'
    BY <1>1, <2>3 DEF IInv, Progress, Whole, PageChunks
  <2>5. \A k \in Keys : roots[k] # g
    BY <1>4, GenerationsAssumption DEF IInv, Unrooted
  <2>6. Unrooted'
    BY <1>1, <1>4, <2>3, <2>5 DEF IInv, Unrooted, Writers
  <2> QED BY <2>1, <2>2, <2>4, <2>6 DEF IInv
<1> QED BY <1>3, <1>4 DEF PersistFires

Contents == [records : 0 .. Pages, evidence : 0 .. EvidenceChunks, pageChunks : 0 .. PageChunks]

LEMMA ContentsExtensional ==
  \A c \in Contents : c = [records |-> c.records, evidence |-> c.evidence, pageChunks |-> c.pageChunks]
  BY DEF Contents

(* What a flush has written is well-typed, and it is all of the pages when *)
(* the evidence follows.                                                   *)
LEMMA FlushPagesStores ==
  ASSUME IInv, NEW g \in Generations, FlushPages(g)
  PROVE  /\ stored' \in [Generations -> Contents]
         /\ \A h \in Generations : h # g => stored'[h] = stored[h]
         /\ writer' \in [Generations -> [phase : WriterPhases, live : BOOLEAN]]
         /\ \A h \in Generations : h # g => writer'[h] = writer[h]
         /\ \/ writer'[g].phase = "pages"
            \/ /\ writer'[g].phase = "evidence"
               /\ stored'[g].records = Pages /\ stored'[g].pageChunks = PageChunks
<1> DEFINE n == stored[g].records + Batch
<1>1. stored \in [Generations -> Contents] /\ writer \in [Generations -> [phase : WriterPhases, live : BOOLEAN]]
  BY DEF IInv, TypeOK, Contents
<1>2. n \in Nat
  BY <1>1, SizesAssumption DEF Contents
<1> HIDE DEF n
<1>3. CASE n <= Pages
  <2> DEFINE chunks == n \div Chunk
  <2>1. n \in 0 .. Pages
    BY <1>2, <1>3, SizesAssumption
  <2>2. chunks \in 0 .. PageChunks
    BY <1>2, <1>3, ChunksBounded, Zenon
  <2>3. /\ stored' = [stored EXCEPT ![g].records = n, ![g].pageChunks = chunks]
        /\ writer' = [writer EXCEPT ![g].phase = "pages"]
    BY <1>3 DEF FlushPages, Advance, n
  <2> HIDE DEF chunks
  <2>4. stored' = [stored EXCEPT ![g] = [stored[g] EXCEPT !.records = n, !.pageChunks = chunks]]
    BY <1>1, <2>3
  <2>5. [stored[g] EXCEPT !.records = n, !.pageChunks = chunks] \in Contents
    BY <1>1, <2>1, <2>2 DEF Contents
  <2>6. /\ stored' \in [Generations -> Contents]
        /\ \A h \in Generations : h # g => stored'[h] = stored[h]
    BY <1>1, <2>4, <2>5
  <2> QED BY <1>1, <2>3, <2>6 DEF WriterPhases
<1>4. CASE ~(n <= Pages)
  <2>1. /\ stored' = [stored EXCEPT ![g].records = Pages, ![g].pageChunks = PageChunks]
        /\ writer' = [writer EXCEPT ![g].phase = "evidence"]
    BY <1>4 DEF FlushPages, Advance, n
  <2>2. Pages \in 0 .. Pages /\ PageChunks \in 0 .. PageChunks
    BY WholeTyped, SizesAssumption
  <2> QED BY <1>1, <2>1, <2>2 DEF Contents, WriterPhases
<1> QED BY <1>3, <1>4

LEMMA FlushEvidenceStores ==
  ASSUME IInv, NEW g \in Generations, FlushEvidence(g), writer[g].phase = "evidence"
  PROVE  /\ stored' \in [Generations -> Contents]
         /\ \A h \in Generations : h # g => stored'[h] = stored[h]
         /\ writer' \in [Generations -> [phase : WriterPhases, live : BOOLEAN]]
         /\ \A h \in Generations : h # g => writer'[h] = writer[h]
         /\ stored'[g].records = Pages /\ stored'[g].pageChunks = PageChunks
         /\ \/ writer'[g].phase = "evidence"
            \/ writer'[g].phase = "root" /\ stored'[g] = Whole
<1>1. stored \in [Generations -> Contents] /\ writer \in [Generations -> [phase : WriterPhases, live : BOOLEAN]]
  BY DEF IInv, TypeOK, Contents
<1>2. stored[g].records = Pages /\ stored[g].pageChunks = PageChunks
  BY DEF IInv, Progress
<1>3. CASE stored[g].evidence < EvidenceChunks
  <2>1. stored[g].evidence + 1 \in 0 .. EvidenceChunks
    BY <1>1, <1>3, SizesAssumption DEF Contents
  <2>2. /\ stored' = [stored EXCEPT ![g].evidence = @ + 1]
        /\ writer' = [writer EXCEPT ![g].phase = "evidence"]
    BY <1>3 DEF FlushEvidence, Advance
  <2> QED BY <1>1, <1>2, <2>1, <2>2 DEF Contents, WriterPhases
<1>4. CASE ~(stored[g].evidence < EvidenceChunks)
  <2>1. stored' = stored /\ writer' = [writer EXCEPT ![g].phase = "root"]
    BY <1>4 DEF FlushEvidence, Advance
  <2>2. stored[g].evidence \in 0 .. EvidenceChunks
    BY <1>1 DEF Contents
  <2>3. stored[g].evidence = EvidenceChunks
    BY <1>4, <2>2, SizesAssumption
  <2>4. stored[g] = Whole
    BY <1>1, <1>2, <2>3, ContentsExtensional DEF Whole
  <2> QED BY <1>1, <1>2, <2>1, <2>4 DEF Contents, WriterPhases
<1> QED BY <1>3, <1>4

(* A write touches a generation that is no root. *)
LEMMA WriteStep ==
  ASSUME IInv, NEW g \in Generations, Write(g)
  PROVE  IInv'
<1>1. UNCHANGED <<drawn, index, cleaner>> /\ disturbances' \in 0 .. MaxDisturbances
  BY SizesAssumption DEF Write, Disturb, IInv, TypeOK
<1>2. g \in Writers /\ \A k \in Keys : roots[k] # g
  BY DEF Write, Writers, IInv, Unrooted
<1>3. stored \in [Generations -> Contents] /\ writer \in [Generations -> [phase : WriterPhases, live : BOOLEAN]]
  BY DEF IInv, TypeOK, Contents
<1>4. CASE writer' = [writer EXCEPT ![g] = NoWriter] /\ UNCHANGED <<roots, stored>>
  <2>1. writer' \in [Generations -> [phase : WriterPhases, live : BOOLEAN]]
    BY <1>3, <1>4 DEF NoWriter, WriterPhases
  <2>2. \A h \in Generations : writer'[h].phase \in {writer[h].phase, "none"}
    BY <1>3, <1>4 DEF NoWriter
  <2>3. TypeOK'
    BY <1>1, <1>4, <2>1 DEF IInv, TypeOK, PageChunks
  <2> QED BY <1>1, <1>4, <2>2, <2>3, Spectating DEF IInv
<1>5. ASSUME stored' \in [Generations -> Contents], UNCHANGED roots,
             \A h \in Generations : h # g => stored'[h] = stored[h],
             writer' \in [Generations -> [phase : WriterPhases, live : BOOLEAN]],
             \A h \in Generations : h # g => writer'[h] = writer[h],
             \/ writer'[g].phase = "pages"
             \/ /\ writer'[g].phase = "evidence"
                /\ stored'[g].records = Pages /\ stored'[g].pageChunks = PageChunks
             \/ writer'[g].phase = "root" /\ stored'[g].records = Pages
                /\ stored'[g].pageChunks = PageChunks /\ stored'[g] = Whole
      PROVE  IInv'
  <2>1. TypeOK'
    BY <1>1, <1>5 DEF IInv, TypeOK, Contents, PageChunks
  <2>2. RootsWhole'
    BY <1>2, <1>5 DEF IInv, TypeOK, RootsWhole, Whole, PageChunks
  <2>3. Progress'
    BY <1>5 DEF IInv, Progress, Whole, PageChunks
  <2>4. Writers' \subseteq Writers
    BY <1>2, <1>5 DEF Writers
  <2>5. Unrooted'
    BY <1>1, <1>5, <2>4 DEF IInv, Unrooted
  <2> QED BY <2>1, <2>2, <2>3, <2>5 DEF IInv
<1>6. ASSUME writer[g].phase = "root", PutRoot(g), UNCHANGED stored
      PROVE  IInv'
  <2>1. roots' \in [Keys -> Generations \cup {None}]
    BY <1>6 DEF PutRoot, IInv, TypeOK
  <2>2. writer' = [writer EXCEPT ![g].phase = "saved"]
    BY <1>6 DEF PutRoot, Advance
  <2>3. TypeOK'
    BY <1>1, <1>3, <1>6, <2>1, <2>2 DEF IInv, TypeOK, PageChunks, WriterPhases
  <2>4. \A k \in Keys : roots'[k] = roots[k] \/ roots'[k] = g
    BY <1>6 DEF PutRoot, IInv, TypeOK
  <2>5. stored[g] = Whole /\ g \in drawn
    BY <1>2, <1>6 DEF IInv, Progress, Unrooted
  <2>6. RootsWhole'
    BY <1>6, <2>4, <2>5 DEF IInv, RootsWhole, Whole, PageChunks
  <2>7. Progress'
    BY <1>3, <1>6, <2>2 DEF IInv, Progress, Whole, PageChunks
  <2>8. Writers' = Writers \ {g}
    BY <1>3, <2>2 DEF Writers
  <2>9. Unrooted'
    BY <1>1, <2>4, <2>5, <2>8 DEF IInv, Unrooted
  <2> QED BY <2>3, <2>6, <2>7, <2>9 DEF IInv
<1>7. ASSUME writer[g].phase = "pages", FlushPages(g), UNCHANGED roots
      PROVE  IInv'
  BY <1>5, <1>7, FlushPagesStores
<1>8. ASSUME writer[g].phase = "evidence", FlushEvidence(g), UNCHANGED roots
      PROVE  IInv'
  BY <1>5, <1>8, FlushEvidenceStores
<1> QED BY <1>4, <1>6, <1>7, <1>8 DEF Write

(* Ending a save takes a root away or leaves them all. *)
LEMMA SavedStep ==
  ASSUME IInv, NEW g \in Generations, ClearsCheckpoint(g) \/ ArmsCleanup(g)
  PROVE  IInv'
<1>1. UNCHANGED <<stored, drawn, cleaner>> /\ disturbances' \in 0 .. MaxDisturbances
  BY SizesAssumption DEF ClearsCheckpoint, ArmsCleanup, Disturb, IInv, TypeOK
<1>2. writer \in [Generations -> [phase : WriterPhases, live : BOOLEAN]]
  BY DEF IInv, TypeOK
<1>3. writer' = [writer EXCEPT ![g] = NoWriter] \/ writer' = [writer EXCEPT ![g].phase = "latest"]
  BY DEF ClearsCheckpoint, ArmsCleanup, Advance
<1>4. /\ writer' \in [Generations -> [phase : WriterPhases, live : BOOLEAN]]
      /\ writer'[g].phase \in {"none", "latest"}
      /\ \A h \in Generations : h # g => writer'[h] = writer[h]
  <2>1. CASE writer' = [writer EXCEPT ![g] = NoWriter]
    BY <1>2, <2>1 DEF NoWriter, WriterPhases
  <2>2. CASE writer' = [writer EXCEPT ![g].phase = "latest"]
    BY <1>2, <2>2 DEF WriterPhases
  <2> QED BY <1>3, <2>1, <2>2
<1>5. roots' = roots \/ roots' = [roots EXCEPT !["checkpoint"] = None]
  BY DEF ClearsCheckpoint, ArmsCleanup
<1>6. /\ roots' \in [Keys -> Generations \cup {None}]
      /\ \A k \in Keys : roots'[k] \in {roots[k], None}
  BY <1>5 DEF IInv, TypeOK, Keys
<1>7. index' \in Indexes
  <2>1. index \in Indexes /\ roots["active"] \in Generations \cup {None}
    BY DEF IInv, TypeOK, Indexes, Keys
  <2>2. [index EXCEPT !.known = roots["active"], !.cleanup = "armed"] \in Indexes
    BY <2>1 DEF Indexes
  <2> QED BY <2>1, <2>2 DEF ClearsCheckpoint, ArmsCleanup
<1>8. TypeOK'
  BY <1>1, <1>4, <1>6, <1>7 DEF IInv, TypeOK, Indexes, PageChunks
<1>9. RootsWhole'
  BY <1>1, <1>6 DEF IInv, RootsWhole, Whole, PageChunks
<1>10. Progress'
  BY <1>1, <1>4 DEF IInv, Progress, Whole, PageChunks
<1>11. Writers' \subseteq Writers
  BY <1>4 DEF Writers
<1>12. Unrooted'
  <2>1. \A h \in Writers : \A k \in Keys : roots'[k] # h
    BY <1>6, GenerationsAssumption DEF IInv, Unrooted, Writers
  <2> QED BY <1>1, <1>6, <1>11, <2>1 DEF IInv, Unrooted
<1> QED BY <1>8, <1>9, <1>10, <1>12 DEF IInv
-----------------------------------------------------------------------------
(* The sweep. *)
LEMMA DeletesContents ==
  ASSUME IInv, Deletes
  PROVE  /\ stored' \in [Generations -> Contents]
         /\ \A g \in RootsNow \cup Writers : stored'[g] = stored[g]
         /\ cleaner' \in Cleaners
<1>1. stored \in [Generations -> Contents] /\ cleaner \in Cleaners /\ cleaner.at \in Generations
  BY DEF IInv, TypeOK, Contents, Cleaners, Deletes
<1> DEFINE g == cleaner.at
           store == DeletionOrder[cleaner.turn]
           left == stored[g][store] - DeletePage
           rest == IF left < 0 THEN 0 ELSE left
<1>2. cleaner' \in Cleaners
  <2>1. [cleaner EXCEPT !.at = None] \in Cleaners
    BY <1>1 DEF Cleaners
  <2>2. ASSUME cleaner.turn # 3 PROVE [cleaner EXCEPT !.turn = @ + 1] \in Cleaners
    BY <1>1, <2>2 DEF Cleaners
  <2> QED BY <1>1, <2>1, <2>2 DEF Deletes, LeavesIt
<1>3. CASE g \in Spared
  BY <1>1, <1>2, <1>3 DEF Deletes
<1>4. CASE g \notin Spared
  <2>1. stored' = [stored EXCEPT ![g] = [stored[g] EXCEPT ![store] = rest]]
    BY <1>1, <1>4 DEF Deletes
  <2>2. [stored[g] EXCEPT ![store] = rest] \in Contents
    <3>1. cleaner.turn \in 1 .. 3
      BY <1>1 DEF Cleaners
    <3>2. store \in {"records", "evidence", "pageChunks"}
      BY <3>1 DEF DeletionOrder
    <3> HIDE DEF store
    <3>3. stored[g] \in Contents
      BY <1>1
    <3>4. CASE store = "records"
      <4>1. rest \in 0 .. Pages
        BY <3>3, <3>4, SizesAssumption DEF Contents
      <4> HIDE DEF rest
      <4> QED BY <3>3, <3>4, <4>1 DEF Contents
    <3>5. CASE store = "evidence"
      <4>1. rest \in 0 .. EvidenceChunks
        BY <3>3, <3>5, SizesAssumption DEF Contents
      <4> HIDE DEF rest
      <4> QED BY <3>3, <3>5, <4>1 DEF Contents
    <3>6. CASE store = "pageChunks"
      <4>1. rest \in 0 .. PageChunks
        BY <3>3, <3>6, SizesAssumption, WholeTyped DEF Contents
      <4> HIDE DEF rest
      <4> QED BY <3>3, <3>6, <4>1 DEF Contents
    <3> QED BY <3>2, <3>4, <3>5, <3>6
  <2> HIDE DEF rest, store
  <2> QED BY <1>1, <1>2, <1>4, <2>1, <2>2 DEF Spared
<1> QED BY <1>3, <1>4

LEMMA SweepsStep ==
  ASSUME IInv, Sweeps
  PROVE  IInv'
<1>1. UNCHANGED <<roots, drawn, writer, index>> /\ disturbances' \in 0 .. MaxDisturbances
  BY SizesAssumption DEF Sweeps, SweepFails, Disturb, IInv, TypeOK
<1>2. stored \in [Generations -> Contents] /\ cleaner \in Cleaners /\ NoCleaner \in Cleaners
  BY DEF IInv, TypeOK, Contents, Cleaners, NoCleaner
<1>3. /\ stored' \in [Generations -> Contents]
      /\ \A g \in RootsNow \cup Writers : stored'[g] = stored[g]
      /\ cleaner' \in Cleaners
  <2>1. CASE EndSweep /\ UNCHANGED stored
    BY <1>2, <2>1 DEF EndSweep
  <2>2. CASE Lists
    BY <1>2, <2>2 DEF Lists, Cleaners
  <2>3. CASE ReadsCatalog
    BY <1>2, <2>3 DEF ReadsCatalog, Cleaners
  <2>4. CASE TurnsTo
    <3>1. ASSUME NEW g \in cleaner.found
          PROVE  [cleaner EXCEPT !.found = @ \ {g}, !.at = g, !.turn = 1] \in Cleaners
      <4> DEFINE rest == cleaner.found \ {g}
      <4>1. g \in Generations /\ rest \in SUBSET Generations
        BY <1>2, <3>1 DEF Cleaners
      <4> HIDE DEF rest
      <4>2. [cleaner EXCEPT !.found = rest] \in Cleaners
        BY <1>2, <4>1 DEF Cleaners
      <4> DEFINE fewer == [cleaner EXCEPT !.found = rest]
                 turned == [fewer EXCEPT !.at = g]
      <4>3. turned \in Cleaners
        BY <4>1, <4>2 DEF Cleaners
      <4> HIDE DEF turned
      <4>4. [turned EXCEPT !.turn = 1] \in Cleaners
        BY <4>3 DEF Cleaners
      <4> QED BY <4>4 DEF turned, rest
    <3> QED BY <1>2, <2>4, <3>1 DEF TurnsTo, EndSweep
  <2>5. CASE Deletes
    BY <2>5, DeletesContents
  <2>6. CASE SweepFails
    BY <1>2, <2>6 DEF SweepFails, EndSweep, LeavesIt, Cleaners
  <2> QED BY <2>1, <2>2, <2>3, <2>4, <2>5, <2>6 DEF Sweeps
<1>4. TypeOK'
  BY <1>1, <1>3 DEF IInv, TypeOK, Contents, Cleaners, PageChunks
<1>5. RootsWhole'
  BY <1>1, <1>3 DEF IInv, RootsWhole, RootsNow, Whole, PageChunks
<1>6. Progress'
  BY <1>1, <1>3 DEF IInv, Progress, Writers, Whole, PageChunks
<1>7. Unrooted'
  BY <1>1 DEF IInv, Unrooted, Writers
<1> QED BY <1>4, <1>5, <1>6, <1>7 DEF IInv
-----------------------------------------------------------------------------
(* Nothing is being written at first; what may be on disk is whole. *)
LEMMA InitIInv == Init => IInv
<1>1. SUFFICES ASSUME Init PROVE IInv
  OBVIOUS
<1>2. \A g \in Generations : writer[g].phase = "none"
  BY <1>1 DEF Init, NoWriter
<1>3. Writers = {}
  BY <1>2 DEF Writers
<1>4. TypeOK /\ RootsWhole /\ \A k \in Keys : roots[k] # None => roots[k] \in drawn
  <2>1. /\ writer \in [Generations -> [phase : WriterPhases, live : BOOLEAN]]
        /\ index \in Indexes /\ cleaner \in Cleaners /\ disturbances \in 0 .. MaxDisturbances
    BY <1>1, SizesAssumption DEF Init, NoWriter, WriterPhases, Asleep, Indexes, NoCleaner, Cleaners
  <2>2. /\ roots \in [Keys -> Generations \cup {None}]
        /\ stored \in [Generations -> Contents]
        /\ drawn \subseteq Generations
        /\ \A k \in Keys : roots[k] # None => roots[k] \in drawn /\ stored[roots[k]] = Whole
    BY <1>1, WholeTyped DEF Init, Contents, Keys
  <2> QED BY <2>1, <2>2 DEF TypeOK, RootsWhole, Indexes, Cleaners, Contents
<1>5. Progress
  BY <1>2 DEF Progress
<1> QED BY <1>3, <1>4, <1>5 DEF IInv, Unrooted

LEMMA NextIInv == IInv /\ [Next]_vars => IInv'
<1>1. SUFFICES ASSUME IInv, [Next]_vars PROVE IInv'
  OBVIOUS
<1>2. CASE UNCHANGED vars
  <2>1. TypeOK'
    BY <1>1, <1>2 DEF vars, IInv, TypeOK, PageChunks
  <2> QED BY <1>1, <1>2, <2>1, Spectating DEF vars, IInv
<1>3. CASE Next
  <2>1. ASSUME NEW g \in Generations, WriterStep(g) PROVE IInv'
    BY <1>1, <2>1, WriteStep, SavedStep DEF WriterStep
  <2> QED BY <1>1, <1>3, <2>1, StartsUpStep, DiesStep, ChangesStep, PersistFiresStep,
             CleanupFiresStep, SweepsStep DEF Next
<1> QED BY <1>1, <1>2, <1>3

(* The invariant holds in every state of every behaviour. *)
THEOREM Invariance == Spec => []IInv
BY InitIInv, NextIInv, PTL DEF Spec

(* The state of the saved graphs, their writers and their sweep stays      *)
(* well-typed: no count of records or chunks passes what the graph has.    *)
THEOREM TypeCorrect == Spec => []TypeOK
<1>1. IInv => TypeOK
  BY DEF IInv
<1> QED BY <1>1, Invariance, PTL

(* A root names a whole generation, whatever was cancelled, refused, swept *)
(* or interrupted, for every size of graph, batch, chunk and page of keys. *)
THEOREM RootsStayWhole == Spec => []RootsWhole
<1>1. IInv => RootsWhole
  BY DEF IInv
<1> QED BY <1>1, Invariance, PTL
=============================================================================
