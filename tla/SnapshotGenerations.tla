-------------------------- MODULE SnapshotGenerations --------------------------
(***************************************************************************)
(* Saved graphs: KplexIndexedDbCache (src/src/index/IndexedDbCache.ts) and  *)
(* the timers of KplexIndex (src/src/index/GraphIndex.ts) that drive it.    *)
(*                                                                         *)
(* A graph is written as a generation of page records, page chunks and     *)
(* evidence chunks in many transactions; a root record put last makes it   *)
(* the graph to restore.  A write that is cancelled, fails or dies leaves  *)
(* its records behind for a sweep that runs after a quiet period and finds *)
(* generations by their chunks.  Each transaction is an action, and so is  *)
(* each event of the vault or of the user interface.                       *)
(*                                                                         *)
(* `run`, the counter that cancels, is kept as a flag in what it cancels.  *)
(***************************************************************************)
EXTENDS Integers, Sequences, FiniteSets

CONSTANTS
  Generations,    \* generation ids, each drawn at most once
  Pages,          \* pages of a graph
  EvidenceChunks, \* evidence chunks of a graph
  Batch,          \* page records per transaction (batchSize)
  Chunk,          \* pages per chunk (pageChunkSize)
  DeletePage,     \* keys per deleting transaction (256)
  MaxDisturbances \* edits, failures and restarts of a behaviour (a bound)

ASSUME SizesAssumption ==
  /\ Pages \in Nat \ {0} /\ EvidenceChunks \in Nat
  /\ Batch \in Nat \ {0} /\ Chunk \in Nat \ {0} /\ DeletePage \in Nat \ {0}
  /\ MaxDisturbances \in Nat

VARIABLES
  roots,       \* the generation each root record names
  stored,      \* what is on disk of each generation
  drawn,       \* generation ids in use or used
  writer,      \* persistIndexedDbSnapshot() and writeSnapshot() of a generation
  index,       \* the timers and flags of the graph index
  cleaner,     \* cleanupOrphanGenerations()
  disturbances

vars == <<roots, stored, drawn, writer, index, cleaner, disturbances>>

None == "none"

ASSUME GenerationsAssumption == None \notin Generations

Keys == {"active", "checkpoint"}

PageChunks == (Pages + Chunk - 1) \div Chunk
Stores == {"records", "evidence", "pageChunks"}
Nothing == [store \in Stores |-> 0]
Whole == [records |-> Pages, evidence |-> EvidenceChunks, pageChunks |-> PageChunks]

WriterPhases == {"none", "pages", "evidence", "root", "saved", "latest"}
NoWriter == [phase |-> "none", live |-> FALSE]

NoCleaner == [phase |-> "none", live |-> FALSE, for |-> None, found |-> {}, at |-> None, turn |-> 1]

Asleep == [awake |-> FALSE, persist |-> FALSE, cleanup |-> "off", known |-> None,
           building |-> "no", hydrated |-> FALSE, borrowed |-> FALSE]

TypeOK ==
  /\ roots \in [Keys -> Generations \cup {None}]
  /\ stored \in [Generations -> [records : 0 .. Pages, evidence : 0 .. EvidenceChunks,
                                 pageChunks : 0 .. PageChunks]]
  /\ drawn \subseteq Generations
  /\ writer \in [Generations -> [phase : WriterPhases, live : BOOLEAN]]
  /\ index \in [awake : BOOLEAN, persist : BOOLEAN, cleanup : {"off", "armed", "stale"},
                known : Generations \cup {None}, building : {"no", "patch", "rebuild", "whole"},
                hydrated : BOOLEAN, borrowed : BOOLEAN]
  /\ cleaner \in [phase : {"none", "list", "catalog", "delete"}, live : BOOLEAN,
                  for : Generations \cup {None}, found : SUBSET Generations,
                  at : Generations \cup {None}, turn : 1 .. 3]
  /\ disturbances \in 0 .. MaxDisturbances

(* A checkpoint of an earlier release may be on disk. *)
Init ==
  /\ \/ roots = [k \in Keys |-> None] /\ stored = [g \in Generations |-> Nothing] /\ drawn = {}
     \/ \E old \in Generations :
          /\ roots = [k \in Keys |-> IF k = "checkpoint" THEN old ELSE None]
          /\ stored = [g \in Generations |-> IF g = old THEN Whole ELSE Nothing]
          /\ drawn = {old}
  /\ writer = [g \in Generations |-> NoWriter]
  /\ index = Asleep
  /\ cleaner = NoCleaner
  /\ disturbances = 0
-----------------------------------------------------------------------------
Disturb == disturbances < MaxDisturbances /\ disturbances' = disturbances + 1

(* snapshotWriters: the generations being written. *)
Writers == {g \in Generations : writer[g].phase \in {"pages", "evidence", "root"}}

RootsNow == {roots[k] : k \in Keys}

(* ++snapshotPersistGeneration: every writer and sweep, and an armed sweep,*)
(* have lost their run.                                                    *)
Stale(cleanup) == IF cleanup = "armed" THEN "stale" ELSE cleanup
BumpRun ==
  /\ writer' = [g \in Generations |-> [writer[g] EXCEPT !.live = FALSE]]
  /\ cleaner' = [cleaner EXCEPT !.live = FALSE]

(* deferOrphanCleanup() *)
Deferred(known, cleanup) == IF known = None THEN cleanup ELSE "armed"

(* scheduleSnapshotPersist(): nothing for a graph borrowed from the sources. *)
SchedulePersist(defer, changes) ==
  LET after == Stale(changes.cleanup)
  IN IF changes.borrowed
     THEN /\ index' = [changes EXCEPT !.cleanup = IF defer THEN Deferred(changes.known, @) ELSE @]
          /\ UNCHANGED <<writer, cleaner>>
     ELSE /\ index' = [changes EXCEPT !.persist = TRUE,
                                       !.cleanup = IF defer THEN Deferred(changes.known, after) ELSE after]
          /\ BumpRun

(* cancelPendingPersistence() *)
CancelPersist(changes) ==
  /\ index' = changes
  /\ BumpRun

Cancelled == [index EXCEPT !.persist = FALSE, !.cleanup = "off"]
-----------------------------------------------------------------------------
(* What starts, changes and ends a graph. *)

(* Start-up restores a root whose chunks are all there.  Under another     *)
(* policy the graph is borrowed and not saved again until it is rebuilt;   *)
(* a checkpoint is resumed by a rebuild, and saved only then.              *)
Restores(k, borrowed, again) ==
  /\ roots[k] # None /\ stored[roots[k]] = Whole
  /\ index' = [Asleep EXCEPT !.awake = TRUE, !.known = roots[k], !.cleanup = "armed",
                              !.hydrated = k = "active", !.borrowed = borrowed,
                              !.persist = again /\ k = "active" /\ ~borrowed]

(* Without one it builds a graph, or lays out what the sources tell. *)
BuildsAnew ==
  \/ index' = [Asleep EXCEPT !.awake = TRUE, !.building = "rebuild"]
  \/ index' = [Asleep EXCEPT !.awake = TRUE, !.borrowed = TRUE]

StartsUp ==
  /\ ~index.awake
  /\ BuildsAnew \/ \E k \in Keys, borrowed, again \in BOOLEAN : Restores(k, borrowed, again)
  /\ UNCHANGED <<roots, stored, drawn, writer, cleaner, disturbances>>

(* Reload or crash: what is in memory is gone, what is on disk stays. *)
Dies ==
  /\ index.awake
  /\ Disturb
  /\ index' = Asleep
  /\ writer' = [g \in Generations |-> NoWriter]
  /\ cleaner' = NoCleaner
  /\ UNCHANGED <<roots, stored, drawn>>

(* patchMarkdownPaths() *)
PatchStarts ==
  /\ index.awake /\ index.building = "no"
  /\ CancelPersist([Cancelled EXCEPT !.building = "patch", !.cleanup = Deferred(index.known, @)])

(* reconcileRestoredSnapshot() and rebuild(): what is to be saved stays    *)
(* scheduled, and writers and sweep go on.  rebuild() shows its graph only *)
(* once it is whole.                                                       *)
StartsQuietly ==
  /\ index.awake /\ index.building = "no"
  /\ \/ index.known # None /\ index' = [index EXCEPT !.building = "patch"]
     \/ index' = [index EXCEPT !.building = "whole"]
  /\ UNCHANGED <<writer, cleaner>>

PatchEnds ==
  /\ index.building = "patch"
  /\ LET ended == [index EXCEPT !.building = "no"]
     IN \/ SchedulePersist(TRUE, ended)
        \/ index' = ended /\ UNCHANGED <<writer, cleaner>>

(* rebuildProgressively() *)
RebuildStarts ==
  /\ index.awake /\ index.building = "no"
  /\ CancelPersist([Cancelled EXCEPT !.building = "rebuild"])

(* A graph shown while it is built is no saved generation any more. *)
RebuildPublishes ==
  /\ index.building = "rebuild"
  /\ index' = [index EXCEPT !.hydrated = FALSE, !.known = None]
  /\ UNCHANGED <<writer, cleaner>>

RebuildEnds ==
  /\ index.building \in {"rebuild", "whole"}
  /\ LET ended == [index EXCEPT !.building = "no"]
     IN \/ SchedulePersist(FALSE, [ended EXCEPT !.hydrated = TRUE, !.borrowed = FALSE])
        \/ index' = ended /\ UNCHANGED <<writer, cleaner>>

(* A file is deleted or renamed, also while a patch is running. *)
EditedInPlace == index.awake /\ SchedulePersist(FALSE, index)

(* No surface of the plug-in is visible. *)
Hidden == index.awake /\ CancelPersist(Cancelled)

Changes ==
  /\ PatchStarts \/ RebuildStarts \/ StartsQuietly \/ RebuildPublishes \/ EditedInPlace \/ Hidden
  /\ Disturb
  /\ UNCHANGED <<roots, stored, drawn>>

(* What was started comes to an end, whatever the bound. *)
Ends ==
  /\ PatchEnds \/ RebuildEnds
  /\ UNCHANGED <<roots, stored, drawn, disturbances>>
-----------------------------------------------------------------------------
(* persistIndexedDbSnapshot() and writeSnapshot(). *)
PersistFires ==
  /\ index.persist
  /\ index' = [index EXCEPT !.persist = FALSE]
  /\ \/ /\ index.hydrated
        /\ \E g \in Generations \ drawn :
             /\ drawn' = drawn \cup {g}
             /\ writer' = [writer EXCEPT ![g] = [phase |-> "pages", live |-> TRUE]]
        /\ UNCHANGED disturbances
     \/ /\ ~index.hydrated
        /\ UNCHANGED <<drawn, writer, disturbances>>
     \/ /\ IF drawn = Generations THEN UNCHANGED disturbances ELSE Disturb
        /\ UNCHANGED <<drawn, writer>>
  /\ UNCHANGED <<roots, stored, cleaner>>

Advance(g, phase) == writer' = [writer EXCEPT ![g].phase = phase]

(* A slip: the last batch is taken to be a full one. *)
FlushPagesBeyond(g) ==
  LET n == stored[g].records + Batch
  IN /\ stored' = [stored EXCEPT ![g].records = n, ![g].pageChunks = n \div Chunk]
     /\ Advance(g, IF n >= Pages THEN "evidence" ELSE "pages")

(* flushPages(): a full batch of records with the chunks finished by then, *)
(* and at the end the rest of both.                                        *)
FlushPages(g) ==
  LET n == stored[g].records + Batch
  IN IF n <= Pages
     THEN /\ stored' = [stored EXCEPT ![g].records = n, ![g].pageChunks = n \div Chunk]
          /\ Advance(g, "pages")
     ELSE /\ stored' = [stored EXCEPT ![g].records = Pages, ![g].pageChunks = PageChunks]
          /\ Advance(g, "evidence")

FlushEvidence(g) ==
  IF stored[g].evidence < EvidenceChunks
  THEN stored' = [stored EXCEPT ![g].evidence = @ + 1] /\ Advance(g, "evidence")
  ELSE UNCHANGED stored /\ Advance(g, "root")

PutRoot(g) ==
  /\ roots' = [roots EXCEPT !["active"] = g]
  /\ Advance(g, "saved")

(* Cancelled, refused by storage, or carried out; a root once put stands.  *)
Write(g) ==
  /\ writer[g].phase \in {"pages", "evidence", "root"}
  /\ \/ /\ ~writer[g].live
        /\ writer' = [writer EXCEPT ![g] = NoWriter]
        /\ UNCHANGED <<roots, stored, disturbances>>
     \/ /\ writer[g].live /\ Disturb
        /\ writer' = [writer EXCEPT ![g] = NoWriter]
        /\ UNCHANGED <<roots, stored>>
     \/ /\ writer[g].live /\ UNCHANGED disturbances
        /\ \/ writer[g].phase = "pages" /\ FlushPages(g) /\ UNCHANGED roots
           \/ writer[g].phase = "evidence" /\ FlushEvidence(g) /\ UNCHANGED roots
           \/ writer[g].phase = "root" /\ PutRoot(g) /\ UNCHANGED stored
  /\ UNCHANGED <<drawn, index, cleaner>>

(* clearCheckpoint(), whose failure nobody hears of. *)
ClearsCheckpoint(g) ==
  /\ writer[g].phase = "saved"
  /\ \/ /\ ~writer[g].live
        /\ writer' = [writer EXCEPT ![g] = NoWriter]
        /\ UNCHANGED <<roots, disturbances>>
     \/ /\ writer[g].live /\ UNCHANGED disturbances
        /\ roots' = [roots EXCEPT !["checkpoint"] = None]
        /\ Advance(g, "latest")
     \/ /\ writer[g].live /\ Disturb
        /\ Advance(g, "latest")
        /\ UNCHANGED roots
  /\ UNCHANGED <<stored, drawn, index, cleaner>>

(* readSnapshotMeta() and scheduleOrphanCleanup(), in whatever run it is. *)
ArmsCleanup(g) ==
  /\ writer[g].phase = "latest"
  /\ writer' = [writer EXCEPT ![g] = NoWriter]
  /\ \/ /\ index' = [index EXCEPT !.known = roots["active"], !.cleanup = "armed"]
        /\ UNCHANGED disturbances
     \/ Disturb /\ UNCHANGED index
  /\ UNCHANGED <<roots, stored, drawn, cleaner>>
-----------------------------------------------------------------------------
(* The sweep. *)
CleanupFires ==
  \/ /\ index.cleanup = "stale" \/ (index.cleanup = "armed" /\ index.known = None)
     /\ index' = [index EXCEPT !.cleanup = "off"]
     /\ UNCHANGED <<roots, stored, drawn, writer, cleaner, disturbances>>
  \/ /\ index.cleanup = "armed" /\ index.known # None
     /\ index.building = "no" /\ ~index.persist
     /\ cleaner.phase = "none"
     /\ index' = [index EXCEPT !.cleanup = "off"]
     /\ cleaner' = [NoCleaner EXCEPT !.phase = "list", !.live = TRUE, !.for = index.known]
     /\ UNCHANGED <<roots, stored, drawn, writer, disturbances>>

Sweeping == cleaner.live /\ index.known = cleaner.for

Chunked(g) == stored[g].evidence + stored[g].pageChunks > 0

EndSweep == cleaner' = NoCleaner

(* A slip: whatever is no root is a leftover. *)
SparedRootsOnly == RootsNow

(* What neither sweep nor deletion may touch. *)
Spared == RootsNow \cup Writers

(* The generations found by their chunks, less what the catalog names. *)
Lists ==
  /\ cleaner.phase = "list"
  /\ cleaner' = [cleaner EXCEPT !.phase = "catalog", !.found = {g \in Generations : Chunked(g)}]
  /\ UNCHANGED stored

ReadsCatalog ==
  /\ cleaner.phase = "catalog"
  /\ cleaner' = [cleaner EXCEPT !.phase = "delete",
                   !.found = @ \ (Spared \cup {cleaner.for})]
  /\ UNCHANGED stored

TurnsTo ==
  /\ cleaner.phase = "delete" /\ cleaner.at = None
  /\ IF cleaner.found = {} THEN EndSweep
     ELSE \E g \in cleaner.found :
            cleaner' = [cleaner EXCEPT !.found = @ \ {g}, !.at = g, !.turn = 1]
  /\ UNCHANGED stored

(* A slip: chunks, by which a generation is found, go first. *)
ChunksFirst == <<"pageChunks", "evidence", "records">>

DeletionOrder == <<"records", "evidence", "pageChunks">>

LeavesIt == cleaner' = [cleaner EXCEPT !.at = None]

(* deleteGeneration(): roots and writers are looked at again with each page *)
(* of keys; page records go first and page chunks last.                    *)
Deletes ==
  LET g == cleaner.at
      store == DeletionOrder[cleaner.turn]
      left == stored[g][store] - DeletePage
  IN /\ cleaner.phase = "delete" /\ g # None
     /\ IF g \in Spared THEN LeavesIt /\ UNCHANGED stored
        ELSE /\ stored' = [stored EXCEPT ![g] = [@ EXCEPT ![store] = IF left < 0 THEN 0 ELSE left]]
             /\ IF left >= 0 THEN UNCHANGED cleaner
                ELSE IF cleaner.turn = 3 THEN LeavesIt
                ELSE cleaner' = [cleaner EXCEPT !.turn = @ + 1]

(* A transaction that fails ends the sweep, or gives up one generation. *)
SweepFails ==
  /\ Disturb
  /\ IF cleaner.at = None THEN EndSweep ELSE LeavesIt
  /\ UNCHANGED stored

Sweeps ==
  /\ cleaner.phase # "none"
  /\ \/ ~Sweeping /\ EndSweep /\ UNCHANGED <<stored, disturbances>>
     \/ /\ Sweeping /\ UNCHANGED disturbances
        /\ Lists \/ ReadsCatalog \/ TurnsTo \/ Deletes
     \/ Sweeping /\ SweepFails
  /\ UNCHANGED <<roots, drawn, writer, index>>
-----------------------------------------------------------------------------
WriterStep(g) == Write(g) \/ ClearsCheckpoint(g) \/ ArmsCleanup(g)

Next ==
  \/ StartsUp \/ Dies \/ Changes \/ Ends \/ PersistFires \/ CleanupFires \/ Sweeps
  \/ \E g \in Generations : WriterStep(g)

Spec == Init /\ [][Next]_vars

(* Timers fire, storage answers, patches and rebuilds come to an end. *)
FairSpec ==
  /\ Spec
  /\ WF_vars(PersistFires) /\ WF_vars(CleanupFires) /\ WF_vars(Sweeps) /\ WF_vars(Ends)
  /\ \A g \in Generations : WF_vars(WriterStep(g))
-----------------------------------------------------------------------------
(* A root always names a generation with all of its records and chunks,    *)
(* whatever was cancelled, swept, refused or interrupted before and after. *)
RootsWhole == \A k \in Keys : roots[k] # None => stored[roots[k]] = Whole

Leftover(g) ==
  /\ stored[g] # Nothing
  /\ g \notin RootsNow \cup Writers
  /\ g # index.known

SweepArmed == index.cleanup = "armed" /\ index.known # None

(* The vault, the user and the storage leave it alone. *)
Quiet == disturbances >= MaxDisturbances /\ index.building = "no"

(* What an abandoned write left behind is removed in a quiet period: once  *)
(* the sweep is armed for a saved graph and nothing happens any more, it   *)
(* is gone in the end ("the low-priority orphan sweep will remove it after *)
(* a long quiet period").                                                  *)
LeftoversSwept ==
  \A g \in Generations :
    (Leftover(g) /\ SweepArmed /\ Quiet) ~> ~Leftover(g)
=============================================================================
