# K-Plex: a verification project in TLA+

K-Plex is an Obsidian plugin that indexes a vault into a graph and keeps the
index in IndexedDB.  This directory models the parts of it whose correctness
depends on the order in which things happen: the store of neutral source facts,
its ledger of dependency counts, the memory that holds facts it could not save,
the saved graphs and their clean-up, the settings file that several devices
write, and the scheduler that lets a user's request overtake indexing.  TLC checks
the models on small instances; TLAPS proves the properties listed under *What is
proved* for every value of the constants.

## 1. Inventory

Paths are relative to `src/src/`.

| Component | State it keeps | Operations | What is hard |
|---|---|---|---|
| Foreground scheduler (`index/ForegroundWorkScheduler.ts`) | requests per lane, waiters, one idle window and its timer, the work slice | `begin` and its release closure, `run`, `checkpoint`, `close` | lost wake-ups, a release called twice, stale timers, work resumed on an old decision |
| Source revisions (`index/SourceRepository.ts`) | head per source, immutable chunks per revision, persistent leases, staging fences, durable sequence | `replace`, `tombstone`, `pin`/`unpin`, `readSelected`, `visit`, `cleanupRevision`, `close` | several windows on one database, crashes between transactions, readers against reclamation |
| Local dependency ledger (`index/SourceRepository.ts`, `SourceLocalDependencies.ts`) | membership rows, count per key, journal record per source, pending counter, ledger revision | staging, activation, repair pages, reclaim pages, sweep, lookup | counts moved over many transactions, two windows repairing at once, a marker with three meanings |
| Unsaved overlay (`index/SourceRepository.ts`) | memory-only heads, `unsaved`, `pendingDeletes`, writer lanes, retry timer | fallback of `replace`/`tombstone`, `flush`, `retryMemory` | retry of old payloads against newer requests, eviction, masks |
| Contributor discovery (`index/SourceContributor*.ts`) | two catalog slots, owner journal, root leases | build, select, repair, historical reads | slot reclamation against readers |
| IndexedDB cache (`index/IndexedDbCache.ts`) | connection, snapshot generations, write-behind queue of parsed bodies | `writeSnapshot`, `cleanupOrphanGenerations`, `queueBodyWrite`, `getBodies` | generation staged in many transactions, clean-up of orphans |
| Graph index (`index/GraphIndex.ts`) and builder | graph, build tickets, publication fences, hydration | build, publish, apply patches | stale results published late |
| Source acquisition (`adapters/obsidian/sourceAcquisition.ts`) | observed files, revisions, inventory | observe, inspect, replace, rename | events during awaits |
| Graph core (`core/graph`) | evidence store | compile, resolve, patch | copy-on-write sharing |
| Application (`application`) | view sessions, actions, API reviews | open/close sessions, run actions | lifetimes, one-shot permissions |
| Settings reconciliation (`adapters/obsidian/settingsReconciliation.ts`, the save queue of `main.ts`) | live settings, accepted snapshot, expected file, remote epochs, candidate, queue of saves | `capture`, `notice`, `prepare`, `commit`, `finish`, adoption | another device replaces the file before, during and after a save; undo before the first save; a rejected save that was stored |
| User interface, parsers, `main.ts`, `settings.ts` | view state | rendering, host calls | mostly no shared state |

How they interact: acquisition observes files and calls `replace()` or
`tombstone()` with the head it inspected; the repository stages, selects and
repairs in IndexedDB transactions; cached readers call `readSelected()` and
`lookupLocalDependencies()` and give their result to the graph index, which
publishes it.  All of them await `ForegroundWorkScheduler.checkpoint()` between
batches, outside transactions.  Each window has its own repository object; the
database is the only state they share.

## 2. Modules

| Module | Models | Kind |
|---|---|---|
| `ForegroundScheduler` | `ForegroundWorkScheduler.ts` whole, but for its diagnostic counters | specification |
| `ForegroundSchedulerProofs` | its safety properties for every value of the constants | theorems |
| `SourceRevisions` | staging, selection, leasing and reclaiming of revisions | specification |
| `SourceRevisionsProofs` | its safety properties for every value of the constants | theorems |
| `LocalDependencies` | the count ledger, its journal and its lookups | specification |
| `LocalDependenciesProofs` | which rows are on disk, for every value of the constants | theorems |
| `LocalDependenciesCounts` | that the counts and the lookups are exact, for every value of the constants | theorems |
| `VersionedStore` | what users of the repository may rely on: a value per source that changes at once | abstract specification |
| `VersionedStoreProofs` | that `SourceRevisions` implements it, for every value of the constants | theorems |
| `UnsavedOverlay` | unsaved payloads, masks, writer lanes, the deletion task, retries | specification |
| `UnsavedOverlayProofs` | its safety properties for every value of the constants | theorems |
| `SnapshotGenerations` | saving a graph in many transactions, and the sweep of what was left behind | specification |
| `SnapshotGenerationsProofs` | its safety properties for every value of the constants | theorems |
| `SettingsReconciliation` | the queue of saves against replacements of the settings file | specification |
| `SettingsReconciliationProofs` | its safety properties for every value of the constants | theorems |
| `MC*` | constants for TLC | instances |

### ForegroundScheduler

`active` is `active[]`, `request[r]` the closure an owner holds (`none`, `held`,
`released`), `work[c]` where a pausable task stands in `checkpoint()`: `running`
outside it, `waiting` in the waiters set, `idling` on the shared idle promise,
`woken` when its promise is resolved and its continuation has not run, and
`cleared` when that continuation has looked at the lanes again and let it go on.
The callbacks `() => this.checkpoint(priority)` (lines 97 and 130) return a
promise, which the caller's `await` adopts over further microtasks; a `begin()`
of another microtask fits in between.  So `Resume`, the recheck, and `Continue`,
the work that goes on, are two steps, and the promise is not "no work goes on
behind a higher request", which is false, but `OvertakenByOneBatch`: a request
that begins there is overtaken by that one batch, and the work's next
`checkpoint()` makes it wait.  Each synchronous stretch of JavaScript is one
action, so what interleaves is exactly what an `await` separates.  Time is kept
in ranks: 0 under 6 ms, 1 under 12, 2 under 24, 3 from 24 on, the only limits
that `PACING_WINDOWS` compares with. `run()` is `Begin` followed by `Release`.

### SourceRevisions

One action per IndexedDB transaction, with the memory-only code around it folded
in.  `head`, `stored`, `leases`, `dirty`, `dirtyCount` and `sequence` are on
disk; `op` holds the asynchronous operations in flight, each in a phase that
names the transaction it will run next.  `live` is the `current()` predicate: it
turns false when a newer request of the same repository takes the source over.
An aborted transaction changes nothing, so every failure, cancellation and
refusal leads to `Abandon`, `RefuseActivation` or `EndCleanup`, after which
`Release` unpins - or fails to, and then the lease stays under the owner
`"lost"`, as the comment on failed releases in `releaseLeases()` says.  The many
returns and `catch` blocks of the code are therefore one path per phase: the
model says what must hold when any of them releases, not that each of them does.
`Crash` clears one window's memory.  `ownerOf` remembers the source a revision id
was drawn for: ids come from `uniqueId()` and are never drawn twice.
`overtaken` is history: the operations whose inspected (or, for a deletion,
pinned) head another selection has replaced since.  `ObsoleteNeverSelects` says
that none of them selects, in the same window or another, whether or not it keeps
families of the head it saw.

Simplifications: the chunks of a revision are counted, not named; families are
identified by their revision; a storage failure that moves a writer to its memory
fallback ends it here (nothing more happens on disk); the contributor journal
that `finishDependencyMutation()` also writes, and alias upgrades, are left out;
`readSelected()` reads in unboundedly many transactions between `StartRead` and
`Abandon`, which is why the property quantifies over every state in between.

### LocalDependencies

`owner[s]` is the selected owner of a source together with its head: the two are
always put in one transaction.  `repair[s]` is the journal record in its three
encodings: a staging marker (both sides name one unselected revision, cursors at
zero), a reclaim marker (the old cursor at its end) and a journal of selected
counts (two different sides).  `RepairPage(o, n, m)` moves `n` old and `m` new
rows; byte limits make any split of a page possible.  `count[k] = 0` stands for
an absent key record.  A writer's slot carries it through `settle`, `prepare`,
`stage`, `authenticate`, `activate` and the repair or reclaim that follows; the
phases of the other operations are those of their loops.

Two windows may reclaim each other's staging: a failed writer's `finally` calls
`cleanupStagedLocalDependencies()` on whatever private marker it finds.  The
model includes that; it is safe because activation demands the writer's own
exact marker.  `cleanupRevision()` is modelled as its callers use it, on
revisions that were selected once (`sourceAcquisition.ts:2229`,
`SourceRepository.ts:2712`).

Simplifications: the ledger is certified (`complete`); the upgrade of old
owner records, backfill and alias upgrades are left out; leases, which can only
refuse a sweep, are left to `SourceRevisions`; the pages of a lookup are per
source; the pages of `authenticateLocalCountReuse()` are one step, since each
of them requires the unchanged ledger revision.

### VersionedStore

A source has a value, the set of whole contents its head names; a reader has in
view what it found when it looked.  `SourceRevisions` maps a family to its
content if all of its chunks are on disk and to `Torn` otherwise, so a half-staged
head, a reclaimed chunk or a deletion that keeps what nobody holds any more would
each show as a change that the abstract store cannot make.  `StoreImplemented`
is this refinement; `selection`, `tombstone`, `pin` and release are the steps
that are not stutters.

### UnsavedOverlay

Contents are numbered by the vault event that made them, so that "older" is
"smaller".  `memory`, `unsaved`, `pending`, the writer lanes, the one deletion
task per source and the one `flush()` are the repository's; `host` is the vault,
`due` the files that the inventory will look at, `disk` the durable heads.  The
handlers of vault events request deletions, the inventory does so for files it
finds gone and acquires what is not saved.  `ReaderView` is what `pin()` and
`visit()` give a reader and `SelectedView` what `readSelected()` does.

What the repository retries depends on a predicate that its caller passed.  A
handler's deletion is wanted while the file is absent.  One of the inventory is
wanted while the file is absent *and* its pass is current
(`sourceAcquisition.ts:2475`), and a payload is current while its file is
unchanged *and* its pass is (`SourceReadPort.current()`).  `pass` numbers these
lifetimes; scope, host revision and metadata cache, which the predicate compares
with what they were when the pass began, change with it.  `askedBy` and the field
`pass` of jobs and payloads name the pass that passed the predicate, 0 a handler.
A file that comes or goes supersedes the pass, and so do a drift of the
environment and a rebuild (`PassSuperseded`); each of them asks for a new one.
So `retryMemory()` drops a deletion of a superseded pass with the file still gone,
and skips such a payload of an unchanged file.  `DeletionsKept` says what may then
happen: the request is dropped only with its mask left in place and its source
due, or because the file came back, and `DeletionsSettle` that a later pass asks
again and the head is retired.

The disturbance budget bounds refused transactions, lost acknowledgements of
committed ones, activations by another window and superseded passes.  Restart is
not modelled: the masks live as long as the window.  `acquire()` is inspection
and replacement in one step with its second attempt a step of its own; the check
of a catalog expectation and the activation of a memory deletion are one step; a
pass looks at each file that is present or selected once, and a pass that left a
file unsaved is repeated (`InventoryRepeats`).

Two things the module makes visible that no document promises otherwise.  After
a failure whose base is out of date, the expectation kept for the unsaved payload
makes each later acquisition of the source "superseded" until it is deleted,
evicted or the window restarts: it stays readable and masked, but unsaved, and
`HeldFactsSaved` says so by asking only for the sources of which it is not
true (`Savable`).  And a source
that outgrows the whole budget is refused by `readSelected()` while `visit()`
still serves its previous payload; hence `NoOlderFacts` is about payloads within
the budget, and `NoOlderSelection` about all.

### SnapshotGenerations

`stored[g]` counts the page records, page chunks and evidence chunks of a
generation; `roots` is the pointer per mode, put in the last transaction of
`writeSnapshot()`; `index` holds the timers and flags by which the graph index
starts, cancels and postpones saves and sweeps; `cleaner` is where the one sweep
stands.  The counter `run`, by which a save notices that it was cancelled, is kept
as a flag in the save.  A restart of the window empties everything but `roots` and
`stored`.  `Batch`, `Chunk` and `DeletePage` are the device's batch sizes.
Updates and builds cancel what is pending and under way; `rebuild()` and
`reconcileRestoredSnapshot()` do not (`StartsQuietly`), so there a sweep, or a
save that was due, goes on beside them.

Left out: readers of a saved graph, connection upgrades, generations of the
schema before 3, checkpoint roots (nothing writes them any more; their removal is
modelled), and a second window on the same vault.

### SettingsReconciliation

`file` is what is stored, `live` the settings in use, `accepted` and `expected`
the effective and the raw snapshot the window believes the file to hold,
`cursor` what the next submission is compared with, `versions` the remote epoch
of each key.  `queue` is `settingsWriteQueue`; `run` is where its first job
stands, with one phase for each `await` of `prepare()`, `commit()` and the
read-back of a rejected save; `reading` is the read of `readNotices()`, which
runs beside the queue.  A control (`persistSettingsSnapshot()`) has changed the
live settings when it submits; a form (`commitCanvasViewConfiguration()`) leaves
them alone until its save is stored.  Stored values may be of an older form:
`Normal` is what migration makes of them, so the raw and the effective snapshot
differ.  Nor need a submitted value be one that migration leaves alone:
`updateOntologyField()` (`main.ts:2310`) stores a list of `rightFriends` without
"Challenger", and `settings.ts:694` puts it back whenever the file is read.  When
the host tells the window of that save, or another device has changed another
key, the window reads the file whole, adopts the rewritten value over the user's
and counts it as another device's.  That is a finding below.  The history variable
`rewritten` says that such a value was submitted; `NoSelfConflict`, `Converged`
and `SubmissionsKept` are about behaviours without one, `SavesRebased` and
`ReceivedSurvives` about all.

A key stands for a whole domain of conflict; the hierarchy of canvas-view
domains and the two domains of themes are left to that abstraction, and so is
the opening value that an ontology form compares before it saves
(`main.ts:2313`).  Left out: migrations themselves, the forms' validation, the
start-up save and the refreshes after a save.   `raced`, `overtaken`, `beside`,
`restored` and `unverified` are history.  They mark five ways in which a save
misses what happened to the file; `Missed` is their disjunction, and four
properties are about behaviours without it:

- `raced`: the file was replaced after the save's check, the case the documents
  exclude ("the interval between file read/write");
- `overtaken`: it was replaced behind a read that overtakes a check, a finding
  below;
- `beside`: a save went on while a read was under way.  `prepare()` waits for
  the read of a notice once, so when that read uses up its attempts and a newer
  notice starts another, the save goes on beside it, on an older snapshot.  With
  one attempt and two replacements the check reads the newer file, that read is
  dropped for the notice's, and the save restores an unrelated key;
- `restored`: a check found the expected contents put back.  Contents read while
  a save is under way are adopted as overwritten, which leaves the expected file
  at the save.  If the file is replaced by exactly what the save wrote, the next
  check finds what it expects although the accepted snapshot is the other one,
  and a later save writes that one's values back (three replacements, two saves);
- `unverified`: a rejected save was not read back.  If it was stored all the
  same, the next check takes it for another device's change and retires a queued
  undo (two saves, two failures).

The last three are not findings, since no document promises the contrary; TLC
showed each by a counterexample to the property without it, at the bounds named.
`ReceivedSurvives` excludes `beside` only.  With these exclusions the proofs
cover every bound.

## 3. What the runs check

| Run | Instance | Shows |
|---|---|---|
| `scheduler_paced` | 2 requests in lanes 1 and 3; work in lanes 2, 3 and 4; 2 timers; pacing | accounting, no lost wake-up, no stale timer, a request is overtaken by at most one batch of lower work, `close()` releases all, paced work is not starved |
| `revisions` | 2 windows (2 + 1 operations), 1 source, 3 revisions of 2 chunks | heads and pinned views stay readable, leases have an owner, fences are counted, no update is lost, and all of it implements `VersionedStore` |
| `ledger_one_source` | 2 windows x 1 operation, 1 source, 3 revisions of 1 or 3 rows on 2 keys, pages of 2 rows | counts, journal and rows agree at every transaction boundary |
| `ledger_lookup` | 2 windows x 1 operation, 2 sources, 2 revisions, pages of 1 row | a lookup answers exactly or not at all |
| `unsaved_overlay` | 2 sources with 3 and 1 events, payloads of 1 and 2 in a memory of 2, 1 lane, 2 disturbances | no reader goes back in time, a deleted source stays masked, a deletion whose file is gone ends by its execution, or with its pass and its source due to be looked at again, bytes are accounted |
| `unsaved_retry` | the same with 2 and 1 events, one payload of 3, 1 disturbance | deletions are carried out and payloads saved in the end, also when their pass was superseded; a payload beyond the budget is not mistaken for its predecessor |
| `unsaved_evicted` | the sizes of `unsaved_overlay` | violation: see the findings |
| `snapshots` | 3 generations of 4 pages, batches of 3, chunks of 2, 2 disturbances | roots name whole generations; what was left behind is swept |
| `snapshots_mobile` | batches of 2, chunks of 3 | violation: see the findings |
| `settings` | 1 control, 1 form, 2 announcements (replacements, with 2 possible contents, or saves of its own that the window is told of), 2 saves, also of a value that migration rewrites, 1 failure, 2 reads per notice | no save looks like another device's change; window and file agree in the end; what was received or submitted is not lost; a save changes its own keys only |
| `settings_overtaken` | 1 save, 2 announcements, no failure | violation: see the findings |
| `settings_echo` | 1 save, 1 announcement, no failure | violation: see the findings |

Bounds.  `Revisions` bounds how many writes and deletions a behaviour can have:
three are a selected revision, one being staged over it and one of another
window.  Two chunks (three rows, pages of two) are the least that a crash or
another window can split.  Two windows with three slots are a writer, a cleaner
and a reader at once; a third window adds no new kind of partner because windows
meet only in the database.  `MaxSequence` bounds selections per behaviour.
Revisions and the two slots of one window are symmetric.  The scheduler has one
request on each side of the foreground boundary and work on each side, so every
comparison in the code goes both ways.

In the overlay three events are create, change or delete, and create again; the
second source is there to evict the first and to occupy the lane: with one lane
(`MAX_WRITERS` is 2 in the code) two sources suffice for backpressure.  Two
disturbances are a failure and its failing retry, or a failure and another
window's head or a superseded pass; the run of the liveness properties has one,
since files that come and go supersede passes too.  What a job or a payload
records of its pass, its file and its head is only compared with the present
ones, and all three only grow; so the view `UpToAge` of `unsaved_overlay`
identifies states that differ in how far such a comparison fails.  The sizes of a
graph are the least that need two flushes, with a whole chunk in the first one
(desktop, 700 records and chunks of 512) or not (phones, 240 and 384).  In the
settings, two replacements are an edit and its undo or an edit during a read of
another, and with the same bound (`MaxAnnounced`) a save and the notice of it;
two saves are an edit and its undo or one save that meets another's
read.  `Attempts` is 2 for the code's 3: one attempt overtaken or failed, one
more.  Submissions, announcements, failures and disturbances are budgets of a
behaviour, not of the system; the runs of the overlay, the snapshots and the
settings set `CHECK_DEADLOCK FALSE` because these budgets run out, the user and
the vault may stop, and a closed window does nothing.  The other runs check for
deadlock.

The runs give every property a mutant: a definition that the module states next
to the faithful one as "a slip" and that breaks the property when it takes its
place.

Fairness.  In the scheduler a continuation of a resolved promise runs (`WF` of
`Resume` and `Continue`) and an armed timer fires (`WF` of `TimerFires`): the
host's event loop guarantees both.  `SF` of `ResumeInFreshSlice` says that a
continuation which is offered fresh slices again and again runs in one of them;
the continuations of an idle window run in the microtask drain right after the
callback that started the slice, so this asks less than the host does.  Nobody is
obliged to begin, release or close.  In the overlay a lane, a deletion task and
the flush take their next step if they can (`WF` of `LaneStep`, `TaskStep`,
`FlushStep`): IndexedDB answers every request, with success or failure, and the
retry timer fires.  The inventory looks at what is due and repeats an incomplete
pass (`WF` of `Inventory` and `InventoryRepeats`): every step of the code that
supersedes a pass calls `requestInventory()`, which arms a timer, and a poll
runs every 30 seconds.  This assumes that the resolution of links does not hold
acquisition back for ever.  The budget of disturbances makes storage answer well
at last; nothing obliges the vault or another window to act.  In the snapshots
the timers fire, a save and a sweep go on, and an update or a build that has
begun ends (`WF` of `PersistFires`, `CleanupFires`, `Sweeps`, `Ends`,
`WriterStep`).  The other runs check safety only; `Converged`, `ReceivedSurvives`
and `SubmissionsKept` of the settings are about states in which nothing is under
way, and need none.

### Findings

- `unsaved_evicted`.  `docs/SOURCE_REPOSITORY.md` says that the families of an
  older disk body cannot be retained for a rename when a newer unsaved payload
  was evicted.  `tombstone()` decides that when the deletion is requested; a
  payload evicted before the deletion task pins the source is not noticed.
- `snapshots_mobile`.  `IndexedDbCache.ts` says that the sweep removes the
  generation of a cancelled write.  The sweep finds generations by their
  chunks; on phones a flush is smaller than a chunk, and a generation
  abandoned after its first flush has none.
- `settings_overtaken`.  `settingsReconciliation.ts` promises "a fresh disk check
  at every unstarted write boundary".  If a notice came since the check began,
  `prepare()` drops what the check read and goes on with what the notice's read
  found.  When the file was replaced between that read and the check's, the save
  restores an unrelated key to the older value although the check had read the
  newer one.
- `settings_echo`.  `docs/validation/live-settings-sync-182-2026-10-18.md` says
  that own echoes are no-ops.  An echo is normalized before it is compared, so
  that of a save without "Challenger" differs from what the window saved: the
  user's edit is undone, and the key counts as changed remotely.

## 4. What is proved

`ForegroundSchedulerProofs` proves, for any finite set of requests, any set of
pausable work, any lanes and any supply of timers, with and without pacing:
`TypeOK`, `ActiveCountsHeld`, `NoLostWake`, `NoStaleTimer`,
`IdleYieldsToForeground` and the action property `OvertakenByOneBatch`.  Being
proved for both, `NoLostWake` needs no run of the contract without pacing.  None
of the five invariants is inductive alone: decrementing keeps a lane's count a
natural number only because the count equals the number of held requests; ending
a window leaves no armed timer only because the window's timer was the only one;
an idle window stays free of foreground requests only because `begin()` ends it
and because opening one has seen none. `IInv` is their conjunction.  The
assumptions are those of `ConstantsAssumption`: requests are finite, lanes are 0
to 4.

`SourceRevisionsProofs` proves, for any repositories, operations and revision
ids, any finite set of sources, any number of chunks per revision and any number
of writer lanes: `TypeOK`, `HeadReadable`, `ViewReadable`, `LeasesOwned` and
`FencesCounted`.  It assumes
`ConstantsAssumption` and, as the model does, that no revision id is drawn
twice.  `HeadReadable` is far from inductive: a reclamation looks only at the
head and the leases of the source it was asked about, a staged chunk is added
without looking at any head, and a tombstone is selected without counting
chunks.  `IInv` therefore adds

- `Belongs` and the last part of `Shape`: whatever a head, a view or a request
  names was allocated for that source, so the one head and the one source's
  leases that a reclamation rechecks are all that could name its victim;
- `Held`: every revision of an open view is leased by its reader, so an
  unleased victim is in no view;
- the rest of `Shape`, and `Drawn`: the revision of an unfinished writer is
  incomplete on disk and no other writer's, so it is in no (complete) head or
  view and a chunk added to it disturbs none; what a deletion keeps it has
  pinned, so a tombstone may be selected uncounted.

One lemma says what a step keeps when its operation merely goes on (`GoingOn`),
one each what selecting, pinning and drawing an id do (`Selection`, `Pinning`,
`Drawing`), and every action is an instance of one of them or has a lemma of its
own (`StageChunk`, `Reclaim`, `Release`, `Crash`).

`VersionedStoreProofs` proves `Spec => StoreImplemented` from the same
assumptions.  The initial states map to the abstract one (`StoreInit`), and each
step to an abstract step or a stutter (`StoreStep`): staging, fences and
reclamation change no value because no head and no view names what they touch.
That the two selecting actions map to `Replace` and `Retire` needs an invariant
of its own beside `IInv`: the revision a writer will select is in no head and no
view until then (`Unselected`), what a deletion keeps is still part of the head
whenever its expectation still matches (`KeepsCurrent`), and a matching
expectation cannot be an old head come back because sequences only grow
(`SequencesPassed`).  The last of these also gives `ObsoleteNeverSelects`: an
operation whose head was replaced expects coordinates with a passed sequence, and
no head will have them again.

`SnapshotGenerationsProofs` proves, for any sizes of graphs, batches, chunks and
deletion pages and any number of generations and disturbances, `TypeOK` and
`RootsWhole`.  `RootsWhole` alone is not inductive.  `Progress` says what a save
has stored when it reaches its evidence and its root, so a root is put for a whole
generation only; `Unrooted` says that a generation under way is no root and that
roots were drawn, so a save that starts or a flush that adds records touches no
root.  The sweep rechecks the roots in each deleting transaction, which is all
the proof needs of it.

`LocalDependenciesProofs` proves, for any connections and operations, any finite
set of sources, any revision ids and projections and any page size, `TypeOK`,
`SelectedRowsStored`, `RecordsResumable` and `NoStrayRows`.  The last three
follow from `Exact`, which says which rows are on disk: those of the selected
revision, and those the source's record has yet to take out.  `Exact` alone is
not inductive:

- an action looks at one source, so whatever an owner, a record or the retired
  set names must belong to its source (`Owned`);
- a reclaim takes a private record's rows without looking at the owner, and a
  repair ends by dropping its journal, so a private record must name a revision
  that is not selected, and a journal must lead to the one that is (`Recorded`);
- activation selects the writer's revision without looking at the retired set
  or at who else has that id, so until then it is neither selected nor retired,
  and no other writer's (`Works`, `Drawn`).

One lemma each says what a step does that goes on (`GoingOn`), that changes one
record with its rows (`Marking`) and that selects (`Selecting`); every action is
an instance of one of them.  `NothingToSweep` is a by-product: when a cleaner of
a retired revision passes its checks, the journal has already taken every row of
it, so in the model its pages find nothing to delete.

`LocalDependenciesCounts` proves `CountsExact` from that invariant, and
`RepairsCovered`.  An action exchanges the rows one source contributes for
others and moves the counts by the difference (`Exchange`, `CountsMove`).  That
no row is counted twice needs `IInv`: what a source contributes is on disk and
of its own revisions (`CountedIs`).  A reuse of counts is an exchange of equal
numbers, by a bijection between the rows of two equal projections
(`EqualPages`).  `RepairsCovered` says that the next page of an open journal,
whatever its size and whoever opened it, passes the checks that
`repairLocalDependencies()` makes before it subtracts.

`LookupsAgree` and `LookupsExact` follow from exact counts and one more
invariant, `Reading`: every selection raises the sequence, so while the sequence
is what it was when a lookup began to read, no owner has changed, the count the
lookup took is the number of rows now selected for its key, and what its pages
have found so far is what is selected for it in the sources they went through.

`UnsavedOverlayProofs` proves, for any sources, sizes and budget, any number of
lanes, events, failures and other writers, `TypeOK`, `BytesExact`,
`DeletedStaysMasked`, `NoOlderSelection` and the action property
`DeletionsKept`.  `IInv` says of the memory that its payloads are of different
sources and their bytes accounted (`Accounted`), and of each source, in `Order`:

- `VaultAhead` and `JobsKnown`: nothing was accepted, deleted or given to a lane
  that the vault has not said, and a file that exists has changed since its last
  deletion;
- `QuietLanes`: a pending deletion has silenced the lane of its source, so
  nothing selects a head behind it; `TaskOwned`: the one deletion task owns its
  request only while that pends;
- `WriteLands`: what a write has selected is replaced by nothing older for as
  long as the write may still take the source's mark away;
- `MarksKeep`: without a mark the head on disk may be read: it is no older than
  the newest facts accepted and newer than the last deletion, which is what
  `DeletedStaysMasked` and `NoOlderSelection` ask of it; `RetiredHead`: the
  head a deletion retired stays retired until the file comes back.

The payloads are accounted by the size of a union of sets, so their sum needs no
induction over the sequence.  `NoOlderFacts` is proved under `Fits`, which says
that no content exceeds the budget, as in the run that checks it, and adds
`HeldNewest`: a payload in memory is the newest accepted.  Without `Fits` it is
false: a source that outgrows the budget keeps serving its previous payload to
`visit()`.  `DeletionsKept` follows action by action: the only steps that drop a
request whose file is gone are the end of its task and the retry of a superseded
pass, and `Awaits` says that a request of a superseded pass waits with its source
masked and, if a head is selected, due.

`SettingsReconciliationProofs` proves, for any keys, values, migration and
contents, and any number of attempts, announcements, saves and failures, `TypeOK`,
`SavesRebased`, `NoSelfConflict`, `ReceivedSurvives`, `Converged` and
`SubmissionsKept`.  Migration must settle after one application (it is the only
thing `SettingsAssumption` asks of `Normal`); submitted values are any.  None of
the properties is near inductive; each part of the module adds an invariant to
those before it, from `NoSelfConflict` on under the hypothesis `~rewritten`
where the property has it:

- `SavesRebased` from `Shape` and `Stored`: what a save is about to write differs
  from the accepted snapshot in its own keys only, and between the check and the
  write the file is the one the accepted snapshot was made from (`Window`),
  because the check read it (`CheckRead`) with no notice under way
  (`Undisturbed`), or a newer notice's read did (`Reread`);
- `NoSelfConflict` from `Counted`: for each key, its epoch plus the changes
  still to be adopted is at most the number of changes by others.  Those are
  counted along the way from what is agreed, over what the candidate and then
  the read under way will make of it, to the file; a save changes all of them
  alike.  That is where `restored` and `unverified` come from;
- `ReceivedSurvives` from `Told` (while nothing is outstanding or waits to be
  adopted there is no candidate, and what a save believes of the file is up to
  date) and `Learnt` (what was learnt of a key is in the candidate, or in the
  accepted snapshot and in what is being written);
- `Converged` from `Fresh` (once no notice is outstanding, what the window holds
  ends with what the file holds) and `Shown`: while nothing fails, the live
  settings and the cursor are the accepted snapshot with the waiting intents.
  `Visible` says that the last intent of a key decides, where the code applies
  one after the other, so no induction over the queue is needed;
- `SubmissionsKept` from `Dated` (no intent has a newer epoch than its key, so an
  epoch of zero retires none) and `Wanted`: the last submission of a key that
  nobody else changed is what the last intent for it asks, or else what the file
  holds.

Only model-checked: the liveness properties (`CloseReleasesAll`,
`QuietLanesLetWorkRun`, `DeletionsSettle`, `HeldFactsSaved`, `LeftoversSwept`),
which are out of the prover's reach, and the four findings, which are
counterexamples.  Every other property of a run is a theorem.

## 5. Plan

What would come next, in this order:

1. the contributor catalog: two slots, journal, root leases;
2. the write-behind queue of parsed bodies;
3. publication fences of the graph index, one-shot configuration reviews;
4. restart of a window with unsaved facts, and two windows on one saved graph;
5. role resolution and the copy-on-write evidence store as operators against
   reference definitions; the hierarchy of canvas-view domains.

## 6. Not modelled

Record codecs, digests and corrupted storage (the models assume that a committed
transaction reads back as written); the contents of facts; alias upgrades and
version migrations; the user interface, parsers and host calls.
Most of the repository's lines are of these kinds.  The graph builder, the
resolver, the parsers and the compiler of evidence are sequential functions on
rich data: their hazards are in the data, and a model would restate them.  The
canvas, the settings pages and the locale files keep no state that another actor
changes.  What remains to model (section 5) is the contributor catalog, the
write-behind queue, the fences of publication, and the acquisition of sources
beyond its calls of the repository.

`PROJECT.json` lists every component with its status, and every hazard with the
property that covers it or the reason why none does yet.
