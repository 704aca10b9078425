--------------------------- MODULE SourceRevisions ---------------------------
(***************************************************************************)
(* Immutable source revisions on disk: selection, reader leases and        *)
(* reclamation in NeutralSourceRepository                                  *)
(* (src/src/index/SourceRepository.ts).                                    *)
(*                                                                         *)
(* A writer stages the chunks of a fresh revision in several transactions  *)
(* and then selects it by replacing the source's head in one               *)
(* compare-and-swap.  A head may keep families of an older revision.  A    *)
(* reader leases the revisions its head names, reads them over many        *)
(* transactions and releases them.  A cleaner deletes the chunks of a      *)
(* revision that no head names and no lease protects.  Several             *)
(* repositories (windows) share one database and each may crash.           *)
(*                                                                         *)
(* Every IndexedDB transaction is one action; everything between two       *)
(* awaits that touches memory only is part of the action before it.  A     *)
(* transaction that aborts changes nothing, which is what Fail stands for. *)
(***************************************************************************)
EXTENDS Integers, FiniteSets

CONSTANTS
  Connections,  \* repository instances on the same database
  Sources,
  Revisions,    \* the ids runtime.uniqueId() hands out (a bound)
  Ops,          \* slots for asynchronous operations (a bound)
  Home,         \* the repository each slot belongs to
  ChunkCount,   \* chunks a freshly produced revision consists of
  MaxWriters    \* MAX_WRITERS, writer lanes per repository

NoRevision == "none"
NoSource == "nowhere"
Lost == "lost"

ASSUME ConstantsAssumption ==
  /\ IsFiniteSet(Sources)
  /\ Home \in [Ops -> Connections]
  /\ ChunkCount \in Nat \ {0}
  /\ MaxWriters \in Nat
  /\ NoRevision \notin Revisions
  /\ NoSource \notin Sources
  /\ Lost \notin Ops

VARIABLES
  head,       \* the selected manifest of each source
  sequence,   \* last durable sequence
  stored,     \* chunks of each revision on disk
  ownerOf,    \* the source a revision id was allocated for
  leases,     \* persistent leases: who, for which source, on which revision
  dirty,      \* the staging fence of each source: the last ticket, if unsettled
  dirtyCount, \* the persisted count of raised fences
  op,         \* the asynchronous operations in flight
  overtaken   \* history: operations that looked at a head since replaced

disk == <<head, sequence, stored, leases, dirty, dirtyCount>>
vars == <<head, sequence, stored, ownerOf, leases, dirty, dirtyCount, op, overtaken>>

Tickets == Revisions \cup {NoRevision}

Heads ==
  [state : {"missing", "complete", "tombstone"}, rev : Tickets, seq : Nat,
   fams : SUBSET Revisions]

MissingHead == [state |-> "missing", rev |-> NoRevision, seq |-> 0, fams |-> {}]

(***************************************************************************)
(* An operation in flight.  live turns false when a newer request of the   *)
(* same repository takes the source over; rev is the revision and fence    *)
(* ticket it allocated; base is the head it expects; keep is what the new  *)
(* head takes over (for a cleanup, what is left to delete); view is what   *)
(* it pinned.                                                              *)
(***************************************************************************)
Phases == {"begin", "pin", "stage", "activate", "read", "release", "preflight", "reclaim"}

Operations ==
  [kind : {"none", "write", "delete", "read", "cleanup"}, source : Sources \cup {NoSource},
   phase : Phases, live : BOOLEAN, rev : Tickets, base : [rev : Tickets, seq : Nat],
   keep : SUBSET Revisions, view : SUBSET Revisions, staged : 0 .. ChunkCount]

NoBase == [rev |-> NoRevision, seq |-> 0]

Idle ==
  [kind |-> "none", source |-> NoSource, phase |-> "begin", live |-> FALSE,
   rev |-> NoRevision, base |-> NoBase, keep |-> {}, view |-> {}, staged |-> 0]

StateOK ==
  /\ head \in [Sources -> Heads]
  /\ sequence \in Nat
  /\ stored \in [Revisions -> 0 .. ChunkCount]
  /\ ownerOf \in [Revisions -> Sources \cup {NoSource}]
  /\ leases \in SUBSET ((Ops \cup {Lost}) \X Sources \X Revisions)
  /\ dirty \in [Sources -> Tickets]
  /\ dirtyCount \in Nat
  /\ op \in [Ops -> Operations]

TypeOK == StateOK /\ overtaken \in SUBSET Ops

Init ==
  /\ head = [s \in Sources |-> MissingHead]
  /\ sequence = 0
  /\ stored = [r \in Revisions |-> 0]
  /\ ownerOf = [r \in Revisions |-> NoSource]
  /\ leases = {}
  /\ dirty = [s \in Sources |-> NoRevision]
  /\ dirtyCount = 0
  /\ op = [o \in Ops |-> Idle]
  /\ overtaken = {}
-----------------------------------------------------------------------------
Coordinates(h) == [rev |-> h.rev, seq |-> h.seq]

(* A slip: a head of the same source will do. *)
HeadMatchesAny(base, h) == TRUE

(* expectedHeadMatches() for the expectations a writer can hold. *)
HeadMatches(base, h) == Coordinates(h) = base

Writing(c, s) == {p \in Ops : Home[p] = c /\ op[p].kind = "write" /\ op[p].source = s}

(* releaseLeases() failed or its owner died: the lease protects for ever. *)
OrphansOf(p) == {<<Lost, l[2], l[3]>> : l \in {m \in leases : m[1] = p}}
LeasesOf(p) == {l \in leases : l[1] = p}

(* A slip: each writer counts the source again. *)
RaiseFenceAgain(s, ticket) ==
  /\ dirty' = [dirty EXCEPT ![s] = ticket]
  /\ dirtyCount' = dirtyCount + 1

(* The fence is raised by every writer before it stages; a later writer    *)
(* replaces an unsettled ticket without counting the source again.         *)
RaiseFence(s, ticket) ==
  /\ dirty' = [dirty EXCEPT ![s] = ticket]
  /\ dirtyCount' = dirtyCount + (IF dirty[s] = NoRevision THEN 1 ELSE 0)

(* A slip: a fence that somebody else settled is counted down again. *)
SettleUncounted(s, ticket) ==
  /\ dirty[s] \in {NoRevision, ticket}
  /\ dirty' = [dirty EXCEPT ![s] = NoRevision]
  /\ dirtyCount' = dirtyCount - 1

(* finishDependencyMutation(): only the exact ticket may settle a fence. *)
SettleFence(s, ticket) ==
  /\ dirty[s] \in {NoRevision, ticket}
  /\ dirty' = [dirty EXCEPT ![s] = NoRevision]
  /\ dirtyCount' = dirtyCount - (IF dirty[s] = ticket THEN 1 ELSE 0)

FenceBlocks(s, ticket) == dirty[s] \notin {NoRevision, ticket}

To(o, phase) == op' = [op EXCEPT ![o].phase = phase]

(* The operation is over but for its pins. *)
Ended(o) == [Idle EXCEPT !.kind = op[o].kind, !.source = op[o].source, !.phase = "release",
                         !.rev = op[o].rev, !.view = op[o].view]
End(o) == op' = [op EXCEPT ![o] = Ended(o)]
-----------------------------------------------------------------------------
(* replace(): one writer per source and repository, a bounded number of    *)
(* lanes, and no deletion of the source in this repository stays current.  *)
(* The caller retains some families of the head it inspected.              *)
StartWrite(o, s, keep, r) ==
  /\ op[o].kind = "none"
  /\ Writing(Home[o], s) = {}
  /\ Cardinality({p \in Ops : Home[p] = Home[o] /\ op[p].kind = "write"}) < MaxWriters
  /\ keep \in SUBSET head[s].fams
  /\ ownerOf[r] = NoSource
  /\ ownerOf' = [ownerOf EXCEPT ![r] = s]
  /\ op' = [p \in Ops |->
       IF p = o
       THEN [Idle EXCEPT !.kind = "write", !.source = s, !.phase = "begin", !.live = TRUE,
                         !.rev = r, !.base = Coordinates(head[s]), !.keep = keep]
       ELSE IF Home[p] = Home[o] /\ op[p].kind = "delete" /\ op[p].source = s
       THEN [op[p] EXCEPT !.live = FALSE]
       ELSE op[p]]
  /\ overtaken' = overtaken \ {o}
  /\ UNCHANGED disk

(* tombstone(): one deletion task per repository; cancelSource() retires   *)
(* the repository's writer of that source.  retain asks to keep the old    *)
(* body families for a rename.                                             *)
StartDelete(o, s, r) ==
  /\ op[o].kind = "none"
  /\ \A p \in Ops : ~(Home[p] = Home[o] /\ op[p].kind = "delete")
  /\ ownerOf[r] = NoSource
  /\ ownerOf' = [ownerOf EXCEPT ![r] = s]
  /\ op' = [p \in Ops |->
       IF p = o
       THEN [Idle EXCEPT !.kind = "delete", !.source = s, !.phase = "begin", !.live = TRUE, !.rev = r]
       ELSE IF p \in Writing(Home[o], s)
       THEN [op[p] EXCEPT !.live = FALSE]
       ELSE op[p]]
  /\ UNCHANGED <<disk, overtaken>>

(* An operation stops at its next fence when its caller is no longer       *)
(* current (the file changed, a newer request superseded it, the           *)
(* repository is closing), and so it does on a storage failure or a failed *)
(* validation.  What it pinned is still to be released.                    *)
Abandon(o) ==
  /\ op[o].kind \in {"write", "delete", "read"}
  /\ op[o].phase # "release"
  /\ End(o)
  /\ UNCHANGED <<disk, ownerOf, overtaken>>

(* beginDependencyMutation(): raise the fence before anything is staged. *)
BeginMutation(o) ==
  /\ op[o].kind \in {"write", "delete"}
  /\ op[o].phase = "begin"
  /\ op[o].live
  /\ RaiseFence(op[o].source, op[o].rev)
  /\ To(o, IF op[o].kind = "write" /\ op[o].keep = {} THEN "stage" ELSE "pin")
  /\ UNCHANGED <<head, sequence, stored, ownerOf, leases, overtaken>>

(* pin(): select the head and persist one lease per family revision in the *)
(* same transaction.                                                       *)
Lease(o, s, revisions) == leases \cup ({o} \X {s} \X revisions)

(* A writer pins the families it keeps; if the head it finds no longer     *)
(* names them its input is superseded.                                     *)
PinForWrite(o) ==
  LET h == head[op[o].source] IN
  /\ op[o].kind = "write"
  /\ op[o].phase = "pin"
  /\ h.state # "missing"
  /\ leases' = Lease(o, op[o].source, h.fams)
  /\ op' = [op EXCEPT ![o] =
       IF op[o].keep \subseteq h.fams
       THEN [op[o] EXCEPT !.phase = "stage", !.view = h.fams]
       ELSE [Ended(o) EXCEPT !.view = h.fams]]
  /\ UNCHANGED <<head, sequence, stored, ownerOf, dirty, dirtyCount, overtaken>>

(* A deletion pins whatever head is selected, and will replace exactly it. *)
PinForDelete(o, retain) ==
  LET h == head[op[o].source] IN
  /\ op[o].kind = "delete"
  /\ op[o].phase = "pin"
  /\ op[o].live
  /\ h.state # "missing"
  /\ leases' = Lease(o, op[o].source, h.fams)
  /\ op' = [op EXCEPT ![o].view = h.fams,
                      ![o].base = Coordinates(h),
                      ![o].keep = IF retain THEN h.fams ELSE {},
                      ![o].phase = "activate"]
  /\ overtaken' = overtaken \ {o}
  /\ UNCHANGED <<head, sequence, stored, ownerOf, dirty, dirtyCount>>

(* A deletion that finds no head settles its fence if there still is none. *)
SettleAbsent(o) ==
  LET s == op[o].source IN
  /\ op[o].kind = "delete"
  /\ op[o].phase = "pin"
  /\ op[o].live
  /\ head[s].state = "missing"
  /\ SettleFence(s, op[o].rev)
  /\ op' = [op EXCEPT ![o] = Idle]
  /\ overtaken' = overtaken \ {o}
  /\ UNCHANGED <<head, sequence, stored, ownerOf, leases>>

(* stageChunks(): one bounded batch of the fresh revision. *)
StageChunk(o) ==
  /\ op[o].kind = "write"
  /\ op[o].phase = "stage"
  /\ op[o].live
  /\ stored' = [stored EXCEPT ![op[o].rev] = @ + 1]
  /\ op' = [op EXCEPT ![o].staged = @ + 1,
                      ![o].phase = IF op[o].staged + 1 = ChunkCount THEN "activate" ELSE "stage"]
  /\ UNCHANGED <<head, sequence, ownerOf, leases, dirty, dirtyCount, overtaken>>

(* A slip: the writer trusts what it staged and what it kept. *)
FamiliesTrusted(fams) == TRUE

(* activate() proves in its own transaction that every chunk of every      *)
(* family the new head names is committed.                                 *)
FamiliesStored(fams) == \A f \in fams : stored[f] = ChunkCount

(* History: the operation has looked at the head it is to replace. *)
Looked(o) ==
  \/ op[o].kind = "write" /\ op[o].phase # "release"
  \/ op[o].kind = "delete" /\ op[o].phase = "activate"

(* activate(): compare the head, count the families, settle the fence and  *)
(* select the new head.  A tombstone is selected without counting.         *)
SelectHead(o, state, fams) ==
  LET s == op[o].source IN
  /\ op[o].phase = "activate"
  /\ op[o].live
  /\ HeadMatches(op[o].base, head[s])
  /\ state = "complete" => FamiliesStored(fams)
  /\ SettleFence(s, op[o].rev)
  /\ head' = [head EXCEPT ![s] =
       [state |-> state, rev |-> op[o].rev, seq |-> sequence + 1, fams |-> fams]]
  /\ sequence' = sequence + 1
  /\ overtaken' = overtaken \cup {p \in Ops : p # o /\ Looked(p) /\ op[p].source = s}
  /\ UNCHANGED <<stored, ownerOf, leases>>

ActivateWrite(o) ==
  /\ op[o].kind = "write"
  /\ SelectHead(o, "complete", {op[o].rev} \cup op[o].keep)
  /\ End(o)

(* A deletion that kept nothing goes on to reclaim what its view named,    *)
(* unless it is no longer current when the commit is reported.             *)
ActivateDelete(o) ==
  /\ op[o].kind = "delete"
  /\ SelectHead(o, "tombstone", op[o].keep)
  /\ \E stillCurrent \in BOOLEAN :
       op' = [op EXCEPT ![o] = [Ended(o) EXCEPT
         !.live = stillCurrent,
         !.keep = IF op[o].keep = {} /\ stillCurrent THEN op[o].view ELSE {}]]

(* Recheck failures inside the activation transaction abort it. *)
RefuseActivation(o) ==
  LET s == op[o].source IN
  /\ op[o].kind \in {"write", "delete"}
  /\ op[o].phase = "activate"
  /\ \/ ~HeadMatches(op[o].base, head[s])
     \/ op[o].kind = "write" /\ ~FamiliesStored({op[o].rev} \cup op[o].keep)
     \/ FenceBlocks(s, op[o].rev)
  /\ End(o)
  /\ UNCHANGED <<disk, ownerOf, overtaken>>

(* readSelected() and visit(): pin a complete head, then read its families *)
(* in further transactions.                                                *)
StartRead(o, s) ==
  /\ op[o].kind = "none"
  /\ head[s].state = "complete"
  /\ leases' = Lease(o, s, head[s].fams)
  /\ op' = [op EXCEPT ![o] = [Idle EXCEPT !.kind = "read", !.source = s, !.phase = "read",
                                          !.live = TRUE, !.view = head[s].fams]]
  /\ UNCHANGED <<head, sequence, stored, ownerOf, dirty, dirtyCount, overtaken>>

(* A slip: a failed or superseded operation forgets to unpin. *)
ReleaseForgotten(o) ==
  /\ op[o].phase = "release"
  /\ op' = [op EXCEPT ![o] = Idle]
  /\ UNCHANGED <<disk, ownerOf, overtaken>>

(* unpin() on every terminal path: the leases are deleted, or stay for     *)
(* ever when that transaction fails.  A deletion then reclaims.            *)
Release(o) ==
  /\ op[o].phase = "release"
  /\ leases' \in {leases \ LeasesOf(o), (leases \ LeasesOf(o)) \cup OrphansOf(o)}
  /\ op' = [op EXCEPT ![o] =
       IF op[o].kind = "delete" /\ op[o].live /\ op[o].keep # {}
       THEN [Idle EXCEPT !.kind = "cleanup", !.source = op[o].source, !.phase = "preflight",
                         !.live = TRUE, !.keep = op[o].keep]
       ELSE Idle]
  /\ overtaken' = overtaken \ {o}
  /\ UNCHANGED <<head, sequence, stored, ownerOf, dirty, dirtyCount>>
-----------------------------------------------------------------------------
(* cleanupRevision() of a revision the caller knows. *)
StartCleanup(o, r) ==
  /\ op[o].kind = "none"
  /\ ownerOf[r] # NoSource
  /\ op' = [op EXCEPT ![o] = [Idle EXCEPT !.kind = "cleanup", !.source = ownerOf[r],
                                          !.phase = "preflight", !.live = TRUE, !.keep = {r}]]
  /\ UNCHANGED <<disk, ownerOf, overtaken>>

HeadNames(s, r) == head[s].rev = r \/ r \in head[s].fams

(* The preflight transaction, after the check for a writer of the source   *)
(* in this repository, drops the revisions that the head names.            *)
Preflight(o) ==
  LET unnamed == {r \in op[o].keep : ~HeadNames(op[o].source, r)} IN
  /\ op[o].kind = "cleanup"
  /\ op[o].phase = "preflight"
  /\ op[o].live
  /\ Writing(Home[o], op[o].source) = {}
  /\ op' = [op EXCEPT ![o].phase = "reclaim", ![o].keep = unnamed]
  /\ UNCHANGED <<disk, ownerOf, overtaken>>

(* A slip: the deleting transaction trusts the preflight about leases. *)
LeasedIgnored(s, r) == FALSE

Leased(s, r) == \E l \in leases : l[2] = s /\ l[3] = r

(* authorized(): the deleting transaction rechecks the head, the leases    *)
(* and this repository's own staging.                                      *)
Authorized(o, r) ==
  /\ ~HeadNames(op[o].source, r)
  /\ ~Leased(op[o].source, r)
  /\ \A p \in Writing(Home[o], op[o].source) : op[p].rev # r

Reclaim(o, r) ==
  /\ op[o].kind = "cleanup"
  /\ op[o].phase = "reclaim"
  /\ op[o].live
  /\ r \in op[o].keep
  /\ Authorized(o, r)
  /\ stored' = [stored EXCEPT ![r] = 0]
  /\ op' = [op EXCEPT ![o].keep = @ \ {r}]
  /\ UNCHANGED <<head, sequence, ownerOf, leases, dirty, dirtyCount, overtaken>>

(* Done, refused or failed: cleanupRevision() returns. *)
EndCleanup(o) ==
  /\ op[o].kind = "cleanup"
  /\ op' = [op EXCEPT ![o] = Idle]
  /\ UNCHANGED <<disk, ownerOf, overtaken>>

(* A window dies: its memory is gone, its leases and fences stay. *)
Crash(c) ==
  /\ op' = [o \in Ops |-> IF Home[o] = c THEN Idle ELSE op[o]]
  /\ leases' = {l \in leases : l[1] = Lost \/ Home[l[1]] # c}
        \cup {<<Lost, l[2], l[3]>> : l \in {m \in leases : m[1] # Lost /\ Home[m[1]] = c}}
  /\ overtaken' = {o \in overtaken : Home[o] # c}
  /\ UNCHANGED <<head, sequence, stored, ownerOf, dirty, dirtyCount>>

Next ==
  \/ \E o \in Ops :
       \/ \E s \in Sources, r \in Revisions :
            \/ \E keep \in SUBSET Revisions : StartWrite(o, s, keep, r)
            \/ StartDelete(o, s, r)
       \/ Abandon(o)
       \/ BeginMutation(o)
       \/ PinForWrite(o)
       \/ \E retain \in BOOLEAN : PinForDelete(o, retain)
       \/ SettleAbsent(o)
       \/ StageChunk(o)
       \/ ActivateWrite(o)
       \/ ActivateDelete(o)
       \/ RefuseActivation(o)
       \/ \E s \in Sources : StartRead(o, s)
       \/ Release(o)
       \/ \E r \in Revisions : StartCleanup(o, r) \/ Reclaim(o, r)
       \/ Preflight(o)
       \/ EndCleanup(o)
  \/ \E c \in Connections : Crash(c)

Spec == Init /\ [][Next]_vars
-----------------------------------------------------------------------------
(* A selected head is readable: whatever its writer, other writers,        *)
(* cleaners and crashes did since, every chunk of every family it names is *)
(* on disk.                                                                *)
HeadReadable == \A s \in Sources : \A f \in head[s].fams : stored[f] = ChunkCount

(* A pinned view stays readable until it is released, even after its       *)
(* source is replaced or deleted and the old revision is reclaimed.        *)
ViewReadable == \A o \in Ops : \A f \in op[o].view : stored[f] = ChunkCount

(* Every lease on disk is either that of a view still open in a living     *)
(* repository or a conservative orphan of a crash or a failed release: no  *)
(* terminal path leaks one.                                                *)
LeasesOwned ==
  \A l \in leases : l[1] # Lost => l[2] = op[l[1]].source /\ l[3] \in op[l[1]].view

(* The persisted dirty counter equals the number of sources whose fence is *)
(* up, so derived indexes wait for exactly the unsettled writers, through  *)
(* superseded writers and crashes.                                         *)
FencesCounted == dirtyCount = Cardinality({s \in Sources : dirty[s] # NoRevision})

(* No update is lost: once any window has selected another head since a    *)
(* writer or a deletion looked at it, no step of that operation selects,   *)
(* also when it keeps nothing of what it looked at.                        *)
ObsoleteNeverSelects ==
  [][\A o \in overtaken : op'[o] # op[o] => UNCHANGED head]_vars
-----------------------------------------------------------------------------
(* What a reader of the disk finds of a family. *)
Torn == "torn"
Content(f) == IF stored[f] = ChunkCount THEN f ELSE Torn

Store == INSTANCE VersionedStore WITH
  Contents <- Revisions,
  Readers <- Ops,
  value <- [s \in Sources |-> {Content(f) : f \in head[s].fams}],
  seen <- [o \in Ops |-> {Content(f) : f \in op[o].view}]

(* Staging, selection, leases and reclamation in many transactions of      *)
(* several windows, any of which may crash, implement a store whose values *)
(* change at once and whose readers see one whole value until they close.  *)
StoreImplemented == Store!Spec
=============================================================================
