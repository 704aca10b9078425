-------------------------- MODULE LocalDependencies --------------------------
(***************************************************************************)
(* The ledger of source-local dependency counts in NeutralSourceRepository *)
(* (src/src/index/SourceRepository.ts, SourceLocalDependencies.ts).        *)
(*                                                                         *)
(* Every selected source owns immutable membership rows, one per           *)
(* occurrence of a key.  A ledger counts, per key, the rows of all         *)
(* selected sources; a closed-world lookup trusts it.  Selecting a new     *)
(* revision is one transaction, but moving its rows into the counts takes  *)
(* many, so a journal record per source says how far that has come.  The   *)
(* same record, with equal sides, is a private marker: staging rows of a   *)
(* revision not yet selected, or rows being reclaimed.                     *)
(*                                                                         *)
(* Each IndexedDB transaction is one action.  A transaction whose checks   *)
(* fail aborts, and its operation can then only give up.                   *)
(***************************************************************************)
EXTENDS Integers, Sequences, FiniteSets

CONSTANTS
  Connections,  \* repository instances on the same database
  Sources,
  Revisions,    \* ids runtime.uniqueId() hands out to replacements (a bound)
  Keys,
  Asked,        \* the keys that callers look up
  Contents,     \* the key sequences a producer may emit
  Ops,          \* slots for asynchronous operations (a bound)
  Home,         \* the repository each slot belongs to
  PageSize,     \* SOURCE_MAX_BATCH_RECORDS
  MaxSequence   \* bound on durable selections

None == "none"

ASSUME ConstantsAssumption ==
  /\ IsFiniteSet(Sources)
  /\ Home \in [Ops -> Connections]
  /\ Asked \subseteq Keys
  /\ Contents \subseteq Seq(Keys) \ {<<>>}
  /\ PageSize \in Nat \ {0}
  /\ MaxSequence \in Nat
  /\ None \notin Revisions \cup Sources \cup Keys

VARIABLES
  owner,    \* the selected owner (and head) of each source
  content,  \* the keys of each revision's rows; empty for an unused id
  sourceOf, \* the source each revision id was allocated for
  retired,  \* what was selected once and is no longer: <<source, revision>>
  rows,     \* membership rows on disk: <<revision, index>>
  repair,   \* the journal record of each source, or NoRepair
  count,    \* the ledger
  pending,  \* persisted number of selected repairs
  revision, \* persisted revision of the ledger state
  sequence, \* last durable sequence
  op        \* the asynchronous operations in flight

disk == <<owner, rows, repair, count, pending, revision, sequence>>
ids == <<content, sourceOf>>
vars == <<owner, content, sourceOf, retired, rows, repair, count, pending, revision, sequence, op>>

Owners == [state : {"missing", "complete", "tombstone"}, rev : Revisions \cup {None}, seq : Nat]
Missing == [state |-> "missing", rev |-> None, seq |-> 0]

(* fromIndex and toIndex are the durable cursors of the two sides. *)
Repairs ==
  [from : Revisions \cup {None}, fromRecords : Nat, fromIndex : Nat,
   to : Revisions \cup {None}, toRecords : Nat, toIndex : Nat]

(* validSourceLocalDependencyRepair(): what every reader of a record asks. *)
Valid(p) ==
  /\ p.fromIndex <= p.fromRecords /\ p.toIndex <= p.toRecords
  /\ p.from = None => p.fromRecords = 0
  /\ p.to = None => p.toRecords = 0

NoRepair == [from |-> None, fromRecords |-> 0, fromIndex |-> 0,
             to |-> None, toRecords |-> 0, toIndex |-> 0]

(***************************************************************************)
(* An operation in flight.  base is the sequence it expects to replace     *)
(* (or, for a lookup, has seen); stamp the ledger revision it has seen;    *)
(* old the owner whose counts it may reuse; then is where a finished       *)
(* repair or reclaim leads.                                                *)
(***************************************************************************)
Phases == {"settle", "repair", "reclaim", "prepare", "stage", "authenticate", "activate",
           "pin", "preflight", "sweep", "retire", "count", "scan", "done"}

Operations ==
  [kind : {"none", "write", "delete", "settle", "clean", "lookup"}, source : Sources \cup {None},
   phase : Phases, then : Phases, rev : Revisions \cup {None}, old : Revisions \cup {None},
   base : Nat, stamp : Nat, staged : Nat, key : Keys \cup {None}, todo : SUBSET Sources,
   found : SUBSET Sources, active : Nat, need : Nat]

Idle ==
  [kind |-> "none", source |-> None, phase |-> "done", then |-> "done", rev |-> None, old |-> None,
   base |-> 0, stamp |-> 0, staged |-> 0, key |-> None, todo |-> {}, found |-> {},
   active |-> 0, need |-> 0]

TypeOK ==
  /\ owner \in [Sources -> Owners]
  /\ content \in [Revisions -> Seq(Keys)]
  /\ sourceOf \in [Revisions -> Sources \cup {None}]
  /\ retired \in SUBSET (Sources \X Revisions)
  /\ rows \in SUBSET (Revisions \X Nat)
  /\ repair \in [Sources -> Repairs]
  /\ \A s \in Sources : Valid(repair[s])
  /\ count \in [Keys -> Nat]
  /\ pending \in Nat
  /\ revision \in Nat
  /\ sequence \in Nat
  /\ op \in [Ops -> Operations]

Init ==
  /\ owner = [s \in Sources |-> Missing]
  /\ content = [r \in Revisions |-> <<>>]
  /\ sourceOf = [r \in Revisions |-> None]
  /\ retired = {}
  /\ rows = {}
  /\ repair = [s \in Sources |-> NoRepair]
  /\ count = [k \in Keys |-> 0]
  /\ pending = 0
  /\ revision = 0
  /\ sequence = 0
  /\ op = [o \in Ops |-> Idle]
-----------------------------------------------------------------------------
(* The encodings of a journal record. *)
IsStaging(p) ==
  /\ p.from # None /\ p.from = p.to /\ p.fromRecords = p.toRecords
  /\ p.fromIndex = 0 /\ p.toIndex = 0
IsReclaim(p) ==
  /\ p.from # None /\ p.from = p.to /\ p.fromRecords > 0 /\ p.fromRecords = p.toRecords
  /\ p.fromIndex = p.fromRecords /\ p.toIndex <= p.toRecords
IsPrivate(p) == IsStaging(p) \/ IsReclaim(p)
IsSelected(p) == p # NoRepair /\ ~IsPrivate(p)

StagingOf(r, n) ==
  [from |-> r, fromRecords |-> n, fromIndex |-> 0, to |-> r, toRecords |-> n, toIndex |-> 0]
ReclaimOf(r, n) == [StagingOf(r, n) EXCEPT !.fromIndex = n]

(* The rows first, first + 1, ..., last - 1 of a revision. *)
Page(r, first, last) == {r} \X (first .. last - 1)
KeyOf(row) == content[row[1]][row[2] + 1]
With(rowSet, k) == {row \in rowSet : KeyOf(row) = k}

Selects(o, s, kinds) == op[o].kind \in kinds /\ op[o].source = s
Writing(c, s) == {p \in Ops : Home[p] = c /\ Selects(p, s, {"write"})}

(* localStaging of a repository: set before the first row is queued, kept  *)
(* until the writer settles, but dropped before it reclaims its own rows.  *)
LocalStaging(c, s) ==
  {p \in Writing(c, s) :
     \/ op[p].phase \in {"stage", "authenticate", "activate"}
     \/ op[p].phase = "repair" /\ op[p].then = "done"}

Go(o, phase) == op' = [op EXCEPT ![o].phase = phase]
Finish(o) == op' = [op EXCEPT ![o] = Idle]
-----------------------------------------------------------------------------
(* replace(): one writer per source and repository; the caller inspected   *)
(* the head it wants to replace.                                           *)
StartWrite(o, s, r, c) ==
  /\ op[o].kind = "none"
  /\ Writing(Home[o], s) = {}
  /\ sourceOf[r] = None
  /\ sourceOf' = [sourceOf EXCEPT ![r] = s]
  /\ content' = [content EXCEPT ![r] = c]
  /\ op' = [op EXCEPT ![o] = [Idle EXCEPT !.kind = "write", !.source = s, !.phase = "settle",
                                          !.then = "prepare", !.rev = r, !.base = owner[s].seq]]
  /\ UNCHANGED <<disk, retired>>

(* tombstone(): one deletion task per repository. *)
StartDelete(o, s) ==
  /\ op[o].kind = "none"
  /\ \A p \in Ops : ~(Home[p] = Home[o] /\ op[p].kind = "delete")
  /\ op' = [op EXCEPT ![o] = [Idle EXCEPT !.kind = "delete", !.source = s, !.phase = "settle",
                                          !.then = "pin"]]
  /\ UNCHANGED <<disk, ids, retired>>

(* ensureLocalDependencies() and repairAllLocalDependencies() resume what  *)
(* an interrupted operation left behind.                                   *)
StartSettle(o, s) ==
  /\ op[o].kind = "none"
  /\ op' = [op EXCEPT ![o] = [Idle EXCEPT !.kind = "settle", !.source = s, !.phase = "settle",
                                          !.then = "done"]]
  /\ UNCHANGED <<disk, ids, retired>>

(* settleLocalDependencyWork(): read the record and enter its loop. *)
Settle(o) ==
  LET p == repair[op[o].source] IN
  /\ op[o].phase = "settle"
  /\ \/ p = NoRepair /\ Go(o, op[o].then)
     \/ IsSelected(p) /\ Go(o, "repair")
     \/ IsPrivate(p) /\ Go(o, "reclaim")
  /\ UNCHANGED <<disk, ids, retired>>

(* repairLocalDependencies() finds that another connection has finished. *)
RepairFinished(o) ==
  /\ op[o].phase = "repair"
  /\ repair[op[o].source] = NoRepair
  /\ Go(o, op[o].then)
  /\ UNCHANGED <<disk, ids, retired>>

(* Old rows leave the counts before new rows enter, however many fit. *)
Covered(k, taken) == Cardinality(With(taken, k)) <= count[k]

(* A slip: the counts and rows move but the cursor of the old side does not. *)
ShiftNewOnly(p, n, m) == [p EXCEPT !.toIndex = @ + m]

(* A slip: the cursor of the new side takes the page size, not the page. *)
ShiftWhole(p, n, m) == [p EXCEPT !.fromIndex = @ + n, !.toIndex = @ + PageSize]

Shift(p, n, m) == [p EXCEPT !.fromIndex = @ + n, !.toIndex = @ + m]

(* One page of repairLocalDependencies(): n old rows are uncounted and     *)
(* deleted, m new rows are counted, cursors and counts move together; the  *)
(* last page retires the journal.                                          *)
RepairPage(o, n, m) ==
  LET s == op[o].source
      p == repair[s]
      q == Shift(p, n, m)
      taken == Page(p.from, p.fromIndex, p.fromIndex + n)
      given == Page(p.to, p.toIndex, p.toIndex + m)
  IN
  /\ op[o].phase = "repair"
  /\ IsSelected(p)
  /\ pending > 0
  /\ n + m <= PageSize
  /\ p.fromIndex < p.fromRecords => n > 0
  /\ n = 0 /\ p.toIndex < p.toRecords => m > 0
  /\ m > 0 => p.fromIndex + n = p.fromRecords
  /\ p.fromIndex + n <= p.fromRecords /\ p.toIndex + m <= p.toRecords
  /\ taken \cup given \subseteq rows
  /\ \A k \in Keys : Covered(k, taken)
  /\ count' = [k \in Keys |->
       (count[k] - Cardinality(With(taken, k))) + Cardinality(With(given, k))]
  /\ rows' = rows \ taken
  /\ IF q.fromIndex = q.fromRecords /\ q.toIndex = q.toRecords
     THEN /\ repair' = [repair EXCEPT ![s] = NoRepair]
          /\ pending' = pending - 1
          /\ revision' = revision + 1
          /\ Go(o, op[o].then)
     ELSE /\ repair' = [repair EXCEPT ![s] = q]
          /\ UNCHANGED <<pending, revision, op>>
  /\ UNCHANGED <<owner, ids, retired, sequence>>

(* cleanupStagedLocalDependencies() finds nothing left. *)
ReclaimFinished(o) ==
  /\ op[o].phase = "reclaim"
  /\ repair[op[o].source] = NoRepair
  /\ Go(o, op[o].then)
  /\ UNCHANGED <<disk, ids, retired>>

(* One page of cleanupStagedLocalDependencies(): claim the record, then    *)
(* delete rows and advance the cursor, or delete the record at the end.    *)
ReclaimPage(o) ==
  LET s == op[o].source
      p == repair[s]
      end == IF p.toIndex + PageSize < p.toRecords THEN p.toIndex + PageSize ELSE p.toRecords
      gone == Page(p.from, p.toIndex, end)
  IN
  /\ op[o].phase = "reclaim"
  /\ IsPrivate(p)
  /\ LocalStaging(Home[o], s) = {}
  /\ owner[s].rev # p.from
  /\ gone \subseteq rows
  /\ rows' = rows \ gone
  /\ IF end = p.toRecords
     THEN repair' = [repair EXCEPT ![s] = NoRepair] /\ Go(o, op[o].then)
     ELSE repair' = [repair EXCEPT ![s] = [p EXCEPT !.fromIndex = p.fromRecords, !.toIndex = end]]
          /\ UNCHANGED op
  /\ UNCHANGED <<owner, ids, retired, count, pending, revision, sequence>>
-----------------------------------------------------------------------------
(* write() captures the owner whose counts it might reuse. *)
Prepare(o) ==
  LET s == op[o].source IN
  /\ op[o].phase = "prepare"
  /\ op' = [op EXCEPT ![o].phase = "stage",
                      ![o].stamp = revision,
                      ![o].old = IF /\ pending = 0
                                    /\ repair[s] = NoRepair
                                    /\ owner[s].state = "complete"
                                    /\ owner[s].seq = op[o].base
                                 THEN owner[s].rev ELSE None]
  /\ UNCHANGED <<disk, ids, retired>>

(* A slip: the writer's marker replaces any other private marker. *)
MarkerReplaces(p, r, staged) == ~IsSelected(p)

(* A slip: the writer's marker replaces whatever record there is. *)
MarkerUnchecked(p, r, staged) == TRUE

(* A page may follow only the exact pages this writer staged before. *)
MarkerAllows(p, r, staged) ==
  \/ p = NoRepair /\ staged = 0
  \/ IsStaging(p) /\ p.from = r /\ p.fromRecords = staged

(* stageLocalDependencies(): one contiguous page and its marker.  Equal    *)
(* projections go on to authenticate the old rows.                         *)
StagePage(o, n) ==
  LET s == op[o].source
      r == op[o].rev
      staged == op[o].staged + n
  IN
  /\ op[o].phase = "stage"
  /\ n \in 1 .. PageSize
  /\ staged <= Len(content[r])
  /\ MarkerAllows(repair[s], r, op[o].staged)
  /\ rows' = rows \cup Page(r, op[o].staged, staged)
  /\ repair' = [repair EXCEPT ![s] = StagingOf(r, staged)]
  /\ op' = [op EXCEPT ![o].staged = staged,
                      ![o].phase = IF staged < Len(content[r]) THEN "stage"
                                   ELSE IF op[o].old # None /\ content[op[o].old] = content[r]
                                   THEN "authenticate" ELSE "activate"]
  /\ UNCHANGED <<owner, ids, retired, count, pending, revision, sequence>>

(* authenticateLocalCountReuse(): the old rows and their counts are there  *)
(* and nothing moved since they were captured; otherwise reuse is dropped. *)
Authenticated(o) ==
  LET oldRows == Page(op[o].old, 0, Len(content[op[o].old])) IN
  /\ owner[op[o].source].seq = op[o].base
  /\ pending = 0
  /\ revision = op[o].stamp
  /\ oldRows \subseteq rows
  /\ \A k \in Keys : Covered(k, oldRows)

Authenticate(o) ==
  /\ op[o].phase = "authenticate"
  /\ op' = [op EXCEPT ![o].phase = "activate",
                      ![o].old = IF Authenticated(o) THEN @ ELSE None]
  /\ UNCHANGED <<disk, ids, retired>>

(* A slip: the projections are not compared. *)
CountsReusedUnequal(o) ==
  /\ op[o].old # None
  /\ pending = 0
  /\ revision = op[o].stamp

(* activate() reuses the counts of an authenticated equal projection. *)
CountsReused(o) ==
  LET old == op[o].old IN
  /\ old # None
  /\ content[old] = content[op[o].rev]
  /\ pending = 0
  /\ revision = op[o].stamp

Journal(s, r) ==
  LET old == owner[s]
      from == IF old.state = "complete" THEN old.rev ELSE None
  IN [from |-> from,
      fromRecords |-> IF from = None THEN 0 ELSE Len(content[from]), fromIndex |-> 0,
      to |-> r, toRecords |-> IF r = None THEN 0 ELSE Len(content[r]), toIndex |-> 0]

Retire(s) == IF owner[s].state = "complete" THEN {<<s, owner[s].rev>>} ELSE {}

Select(s, state, r) ==
  /\ sequence < MaxSequence
  /\ owner' = [owner EXCEPT ![s] = [state |-> state, rev |-> r, seq |-> sequence + 1]]
  /\ retired' = retired \cup Retire(s)
  /\ sequence' = sequence + 1
  /\ revision' = revision + 1

(* A slip: the writer trusts that nobody reclaimed what it staged. *)
StagingTrusted(s, r) == TRUE

(* The whole projection is staged under this writer's own marker. *)
OwnStaging(s, r) == repair[s] = StagingOf(r, Len(content[r]))

(* activate() of a replacement: the head is the expected one. *)
ActivateWrite(o) ==
  LET s == op[o].source
      r == op[o].rev
  IN
  /\ op[o].kind = "write"
  /\ op[o].phase = "activate"
  /\ owner[s].seq = op[o].base
  /\ OwnStaging(s, r)
  /\ Select(s, "complete", r)
  /\ IF CountsReused(o)
     THEN /\ repair' = [repair EXCEPT ![s] = ReclaimOf(op[o].old, Len(content[op[o].old]))]
          /\ UNCHANGED pending
          /\ op' = [op EXCEPT ![o].phase = "reclaim", ![o].then = "done"]
     ELSE /\ repair' = [repair EXCEPT ![s] = Journal(s, r)]
          /\ pending' = pending + 1
          /\ op' = [op EXCEPT ![o].phase = "repair", ![o].then = "done"]
  /\ UNCHANGED <<ids, rows, count>>

(* pin() for a deletion: nothing to do without a head. *)
PinDelete(o) ==
  LET s == op[o].source IN
  /\ op[o].phase = "pin"
  /\ IF owner[s].state = "missing"
     THEN Finish(o)
     ELSE op' = [op EXCEPT ![o].phase = "activate", ![o].base = owner[s].seq]
  /\ UNCHANGED <<disk, ids, retired>>

(* activate() of a tombstone: no journal record may be open. *)
ActivateDelete(o) ==
  LET s == op[o].source IN
  /\ op[o].kind = "delete"
  /\ op[o].phase = "activate"
  /\ owner[s].seq = op[o].base
  /\ repair[s] = NoRepair
  /\ Select(s, "tombstone", None)
  /\ IF owner[s].state = "complete"
     THEN repair' = [repair EXCEPT ![s] = Journal(s, None)] /\ pending' = pending + 1
     ELSE UNCHANGED <<repair, pending>>
  /\ op' = [op EXCEPT ![o].phase = "repair", ![o].then = "done"]
  /\ UNCHANGED <<ids, rows, count>>

(* An operation is cancelled, refused by a check, or meets a storage       *)
(* error.  A writer that queued rows reclaims whatever marker it finds.    *)
Abandon(o) ==
  /\ op[o].kind # "none"
  /\ IF /\ op[o].kind = "write"
        /\ op[o].phase \in {"stage", "authenticate", "activate"}
     THEN op' = [op EXCEPT ![o].phase = "reclaim", ![o].then = "done"]
     ELSE Finish(o)
  /\ UNCHANGED <<disk, ids, retired>>

Return(o) ==
  /\ op[o].kind # "none"
  /\ op[o].phase = "done"
  /\ Finish(o)
  /\ UNCHANGED <<disk, ids, retired>>
-----------------------------------------------------------------------------
(* cleanupRevision() of a revision known to be retired: a private marker   *)
(* that names it is reclaimed first.                                       *)
StartClean(o, s, r) ==
  /\ op[o].kind = "none"
  /\ <<s, r>> \in retired
  /\ op' = [op EXCEPT ![o] = [Idle EXCEPT !.kind = "clean", !.source = s, !.rev = r,
                                          !.phase = "preflight", !.then = "sweep"]]
  /\ UNCHANGED <<disk, ids, retired>>

Preflight(o) ==
  LET s == op[o].source
      p == repair[s]
  IN
  /\ op[o].phase = "preflight"
  /\ owner[s].rev # op[o].rev
  /\ Go(o, IF IsPrivate(p) /\ p.from = op[o].rev THEN "reclaim" ELSE "sweep")
  /\ UNCHANGED <<disk, ids, retired>>

(* A slip: a journal that still moves the counts does not protect its rows. *)
AuthorizedByHead(o) == owner[op[o].source].rev # op[o].rev

(* authorized(): rechecked in every deleting transaction. *)
Authorized(o) ==
  LET s == op[o].source
      r == op[o].rev
  IN
  /\ owner[s].rev # r
  /\ IsSelected(repair[s]) => r \notin {repair[s].from, repair[s].to}
  /\ \A p \in LocalStaging(Home[o], s) : op[p].rev # r

(* A page takes the first rows that are left; a short one is the last. *)
SweepPage(o) ==
  LET mine == {row \in rows : row[1] = op[o].rev}
      gone == {row \in mine : Cardinality({q \in mine : q[2] < row[2]}) < PageSize}
  IN
  /\ op[o].phase = "sweep"
  /\ Authorized(o)
  /\ rows' = rows \ gone
  /\ Go(o, IF Cardinality(mine) < PageSize THEN "retire" ELSE "sweep")
  /\ UNCHANGED <<owner, ids, retired, repair, count, pending, revision, sequence>>

(* The last transaction also drops a private marker of the revision. *)
SweepLast(o) ==
  LET s == op[o].source
      p == repair[s]
  IN
  /\ op[o].phase = "retire"
  /\ Authorized(o)
  /\ repair' = [repair EXCEPT ![s] = IF IsPrivate(p) /\ p.from = op[o].rev THEN NoRepair ELSE @]
  /\ Finish(o)
  /\ UNCHANGED <<owner, ids, retired, rows, count, pending, revision, sequence>>
-----------------------------------------------------------------------------
(* localDependencyAvailable(): this repository writes and deletes nothing. *)
Available(c) == \A p \in Ops : Home[p] = c => op[p].kind \notin {"write", "delete"}

(* A slip: pages look at open journals only. *)
FencedByPending(o) == pending = 0

(* Every page of a lookup compares the state and sequence it started from. *)
Fenced(o) == pending = 0 /\ revision = op[o].stamp /\ sequence = op[o].base

StartLookup(o, k) ==
  /\ op[o].kind = "none"
  /\ Available(Home[o])
  /\ pending = 0
  /\ op' = [op EXCEPT ![o] = [Idle EXCEPT !.kind = "lookup", !.phase = "count", !.key = k,
                                          !.stamp = revision, !.base = sequence, !.todo = Sources]]
  /\ UNCHANGED <<disk, ids, retired>>

ReadCount(o) ==
  /\ op[o].phase = "count"
  /\ Fenced(o)
  /\ op' = [op EXCEPT ![o].phase = "scan", ![o].need = count[op[o].key]]
  /\ UNCHANGED <<disk, ids, retired>>

(* The rows of s that name the key and belong to its selected revision. *)
Matching(s, k) == {row \in rows : owner[s].state = "complete" /\ row[1] = owner[s].rev /\ KeyOf(row) = k}

(* A page of rows, here those of one source. *)
ScanPage(o, s) ==
  LET matching == Matching(s, op[o].key) IN
  /\ op[o].phase = "scan"
  /\ s \in op[o].todo
  /\ Fenced(o)
  /\ op' = [op EXCEPT ![o].todo = @ \ {s},
                      ![o].active = @ + Cardinality(matching),
                      ![o].found = IF matching = {} THEN @ ELSE @ \cup {s}]
  /\ UNCHANGED <<disk, ids, retired>>

(* The rows agree with the count and validateLocalDependencies() accepts. *)
Answer(o) ==
  /\ op[o].phase = "scan"
  /\ op[o].todo = {}
  /\ op[o].active = op[o].need
  /\ Fenced(o)
  /\ Available(Home[o])
  /\ Go(o, "done")
  /\ UNCHANGED <<disk, ids, retired>>

(* A window dies: the journal stays. *)
Crash(c) ==
  /\ op' = [o \in Ops |-> IF Home[o] = c THEN Idle ELSE op[o]]
  /\ UNCHANGED <<disk, ids, retired>>

Next ==
  \/ \E o \in Ops :
       \/ \E s \in Sources :
            \/ \E r \in Revisions : (\E c \in Contents : StartWrite(o, s, r, c)) \/ StartClean(o, s, r)
            \/ StartDelete(o, s)
            \/ StartSettle(o, s)
            \/ ScanPage(o, s)
       \/ Settle(o) \/ RepairFinished(o) \/ ReclaimFinished(o) \/ ReclaimPage(o)
       \/ \E n, m \in 0 .. PageSize : RepairPage(o, n, m)
       \/ Prepare(o)
       \/ \E n \in 1 .. PageSize : StagePage(o, n)
       \/ Authenticate(o) \/ ActivateWrite(o)
       \/ PinDelete(o) \/ ActivateDelete(o)
       \/ Abandon(o) \/ Return(o)
       \/ Preflight(o) \/ SweepPage(o) \/ SweepLast(o)
       \/ \E k \in Asked : StartLookup(o, k)
       \/ ReadCount(o) \/ Answer(o)
  \/ \E c \in Connections : Crash(c)

Spec == Init /\ [][Next]_vars
-----------------------------------------------------------------------------
(* The rows a source contributes to the ledger: with an open journal, the  *)
(* old rows not yet taken out and the new rows already brought in.         *)
Counted(s) ==
  LET p == repair[s] IN
  IF IsSelected(p)
  THEN Page(p.from, p.fromIndex, p.fromRecords) \cup Page(p.to, 0, p.toIndex)
  ELSE IF owner[s].state = "complete" THEN Page(owner[s].rev, 0, Len(content[owner[s].rev])) ELSE {}

(* The ledger counts exactly the rows the sources contribute: a crash or   *)
(* another connection between two pages loses or repeats none of them, and *)
(* reused counts are those of an equal projection.  The pending counter is *)
(* the number of open journals, so closed-world lookups are suspended for  *)
(* exactly as long as one is open.                                         *)
CountsExact ==
  /\ \A k \in Keys : count[k] = Cardinality(With(UNION {Counted(s) : s \in Sources}, k))
  /\ pending = Cardinality({s \in Sources : IsSelected(repair[s])})

(* The rows of every selected revision stay on disk: neither a cleaner of  *)
(* retired revisions nor a reclaim of someone's staging takes them.        *)
SelectedRowsStored ==
  \A s \in Sources :
    owner[s].state = "complete" => Page(owner[s].rev, 0, Len(content[owner[s].rev])) \subseteq rows

(* Whatever journal record a crash or a second connection leaves behind,   *)
(* its next page finds its rows, so no source is blocked for ever.         *)
RecordsResumable ==
  \A s \in Sources :
    LET p == repair[s] IN
    /\ IsPrivate(p) => owner[s].rev # p.from /\ Page(p.from, p.toIndex, p.toRecords) \subseteq rows
    /\ IsSelected(p) => /\ Page(p.from, p.fromIndex, p.fromRecords) \subseteq rows
                        /\ Page(p.to, p.toIndex, p.toRecords) \subseteq rows

(* No row outlives its purpose unnoticed: each belongs to a selected       *)
(* revision or is named by the journal record that will reclaim it.        *)
NoStrayRows ==
  \A row \in rows : \E s \in Sources :
    \/ owner[s].rev = row[1]
    \/ row[1] \in {repair[s].from, repair[s].to}

(* A closed-world lookup that answers names exactly the sources whose      *)
(* selected revision has the key at that moment, although it read them in  *)
(* separate transactions.                                                  *)
LookupsExact ==
  [][\A o \in Ops :
       op[o].phase = "scan" /\ op'[o].kind = "lookup" /\ op'[o].phase = "done" =>
         op[o].found = {s \in Sources : owner[s].state = "complete"
                          /\ \E i \in DOMAIN content[owner[s].rev] : content[owner[s].rev][i] = op[o].key}]_vars

(* Rows and ledger never disagree under one fence: a lookup does not       *)
(* report a healthy index as damaged.                                      *)
LookupsAgree ==
  \A o \in Ops : op[o].kind = "lookup" /\ op[o].phase = "scan" /\ op[o].todo = {} /\ Fenced(o)
                   => op[o].active = op[o].need
=============================================================================
