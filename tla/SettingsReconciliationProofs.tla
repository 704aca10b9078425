-------------------- MODULE SettingsReconciliationProofs --------------------
(***************************************************************************)
(* What SettingsReconciliation promises for any keys, values and contents, *)
(* and any number of replacements, saves, failures and rereads.            *)
(*                                                                         *)
(* The first part is about snapshots and edits alone and the types.  Each  *)
(* of the others adds an invariant and what follows from it: Stored is     *)
(* about one save between its check of the file and the step that stores   *)
(* it (SavesRebased); Counted about the changes still to be adopted        *)
(* (NoSelfConflict); Told and Learnt about who is still to adopt and what  *)
(* was learnt (ReceivedSurvives); Fresh and Shown about what is left when  *)
(* nothing is under way (Converged); Wanted about what was submitted       *)
(* (SubmissionsKept).  What rests on Settled holds until a value is        *)
(* submitted that migration changes, as NoSelfConflict, Converged and      *)
(* SubmissionsKept say.                                                    *)
(***************************************************************************)
EXTENDS SettingsReconciliation, FiniteSetTheorems, SequenceTheorems, WellFoundedInduction, TLAPS
-----------------------------------------------------------------------------
(* Snapshots and edits. *)

LEMMA Apart ==
  /\ Torn \notin Snapshots /\ None \notin Snapshots /\ None # Torn
  /\ None \notin Candidates
  /\ None \notin Values
BY SettingsAssumption

LEMMA EditsAre ==
  ASSUME NEW e
  PROVE  e \in Edits <=> DOMAIN e \subseteq Keys /\ e \in [DOMAIN e -> Values]
BY DEF Edits

LEMMA NormalizedIs ==
  ASSUME NEW raw \in Snapshots
  PROVE  /\ Normalized(raw) \in Snapshots
         /\ \A k \in Keys : Normalized(raw)[k] = Normal[raw[k]]
BY SettingsAssumption DEF Normalized, Snapshots

LEMMA NormalizedAgrees ==
  ASSUME NEW raw \in Snapshots
  PROVE  Agrees(Normalized(raw), raw)
BY NormalizedIs DEF Agrees

LEMMA BetweenIs ==
  ASSUME NEW a \in Snapshots, NEW b \in Snapshots
  PROVE  /\ EditsBetween(a, b) \in Edits
         /\ DOMAIN EditsBetween(a, b) = {k \in Keys : a[k] # b[k]}
         /\ \A k \in DOMAIN EditsBetween(a, b) : EditsBetween(a, b)[k] = b[k]
<1>1. /\ DOMAIN EditsBetween(a, b) = {k \in Keys : a[k] # b[k]}
      /\ EditsBetween(a, b) = [k \in {k \in Keys : a[k] # b[k]} |-> b[k]]
  BY DEF EditsBetween, Restrict
<1>2. EditsBetween(a, b) \in [{k \in Keys : a[k] # b[k]} -> Values]
  BY <1>1 DEF Snapshots
<1> QED BY <1>1, <1>2 DEF Edits

LEMMA NoEditsAre ==
  NoEdits \in Edits /\ DOMAIN NoEdits = {}
<1>1. InitialFile \in Snapshots
  BY SettingsAssumption
<1>2. /\ EditsBetween(InitialFile, InitialFile) \in Edits
      /\ DOMAIN EditsBetween(InitialFile, InitialFile) = {k \in Keys : InitialFile[k] # InitialFile[k]}
  BY <1>1, BetweenIs
<1> QED BY <1>2 DEF NoEdits

LEMMA SameSnapshot ==
  ASSUME NEW a \in Snapshots, NEW b \in Snapshots, \A k \in Keys : a[k] = b[k]
  PROVE  a = b
BY DEF Snapshots

LEMMA AppliedIs ==
  ASSUME NEW s \in Snapshots, NEW e \in Edits
  PROVE  /\ Applied(s, e) \in Snapshots
         /\ \A k \in Keys : Applied(s, e)[k] = IF k \in DOMAIN e THEN e[k] ELSE s[k]
<1>1. DOMAIN e \subseteq Keys /\ e \in [DOMAIN e -> Values]
  BY EditsAre
<1>2. DOMAIN s \cup DOMAIN e = Keys
  BY <1>1 DEF Snapshots
<1>3. Applied(s, e) = [k \in Keys |-> IF k \in DOMAIN e THEN e[k] ELSE s[k]]
  BY <1>2 DEF Applied
<1>4. \A k \in Keys : (IF k \in DOMAIN e THEN e[k] ELSE s[k]) \in Values
  BY <1>1 DEF Snapshots
<1> QED BY <1>3, <1>4 DEF Snapshots

LEMMA EditsJoined ==
  ASSUME NEW d \in Edits, NEW e \in Edits
  PROVE  /\ Applied(d, e) \in Edits
         /\ DOMAIN Applied(d, e) = DOMAIN d \cup DOMAIN e
         /\ \A k \in DOMAIN d \cup DOMAIN e : Applied(d, e)[k] = IF k \in DOMAIN e THEN e[k] ELSE d[k]
<1>1. DOMAIN d \subseteq Keys /\ d \in [DOMAIN d -> Values] /\ DOMAIN e \subseteq Keys /\ e \in [DOMAIN e -> Values]
  BY EditsAre
<1>2. Applied(d, e) = [k \in DOMAIN d \cup DOMAIN e |-> IF k \in DOMAIN e THEN e[k] ELSE d[k]]
  BY DEF Applied
<1>3. Applied(d, e) \in [DOMAIN d \cup DOMAIN e -> Values]
  BY <1>1, <1>2
<1> QED BY <1>1, <1>2, <1>3, EditsAre

LEMMA RestrictedIs ==
  ASSUME NEW e \in Edits, NEW S \in SUBSET DOMAIN e
  PROVE  /\ Restrict(e, S) \in Edits
         /\ DOMAIN Restrict(e, S) = S
         /\ \A k \in S : Restrict(e, S)[k] = e[k]
<1>1. DOMAIN e \subseteq Keys /\ e \in [DOMAIN e -> Values]
  BY EditsAre
<1>2. Restrict(e, S) \in [S -> Values] /\ DOMAIN Restrict(e, S) = S /\ \A k \in S : Restrict(e, S)[k] = e[k]
  BY <1>1 DEF Restrict
<1> QED BY <1>1, <1>2, EditsAre

(* A set of numbers has a least one; a set of positions has a last one. *)
LEMMA Least ==
  ASSUME NEW T \in SUBSET Nat, T # {}
  PROVE  \E k \in T : \A j \in T : k <= j
<1>1. PICK k \in T : \A j \in T : ~ (<<j, k>> \in OpToRel(<, Nat))
  BY NatLessThanWellFounded, WFMin
<1>2. \A j \in T : ~(j < k)
  BY <1>1 DEF OpToRel
<1> QED BY <1>2

LEMMA Last ==
  ASSUME NEW n \in Nat, NEW T \in SUBSET (1 .. n), T # {}
  PROVE  Max(T) \in T /\ \A j \in T : j <= Max(T)
<1> DEFINE D == {n - i : i \in T}
<1>0. \A i \in T : i \in Nat /\ n - i \in Nat
  OBVIOUS
<1>1. D \in SUBSET Nat /\ D # {}
  BY <1>0
<1>2. PICK d \in D : \A j \in D : d <= j
  BY <1>1, Least
<1>3. PICK i \in T : d = n - i
  OBVIOUS
<1>4. \A j \in T : j <= i
  <2> TAKE j \in T
  <2>1. n - i <= n - j
    BY <1>2, <1>3
  <2> QED BY <1>0, <2>1
<1>5. \E x \in T : \A y \in T : x >= y
  BY <1>4
<1>6. Max(T) \in T /\ \A y \in T : Max(T) >= y
  BY <1>5 DEF Max
<1> QED BY <1>6

(* What the waiting intents show. *)
Owning(epochs, jobs, k) == {i \in DOMAIN jobs : k \in Current(jobs[i], epochs)}

LEMMA VisibleIs ==
  ASSUME NEW s \in Snapshots, NEW epochs \in [Keys -> Nat], NEW jobs \in Seq(Jobs)
  PROVE  /\ Visible(s, epochs, jobs) \in Snapshots
         /\ \A k \in Keys :
              \/ Owning(epochs, jobs, k) = {} /\ Visible(s, epochs, jobs)[k] = s[k]
              \/ \E i \in Owning(epochs, jobs, k) :
                   /\ \A j \in Owning(epochs, jobs, k) : j <= i
                   /\ Visible(s, epochs, jobs)[k] = jobs[i].edits[k]
<1>1. Len(jobs) \in Nat /\ DOMAIN jobs = 1 .. Len(jobs) /\ \A i \in DOMAIN jobs : jobs[i] \in Jobs
  BY LenProperties, ElementOfSeq
<1>2. Visible(s, epochs, jobs) =
        [k \in Keys |-> IF Owning(epochs, jobs, k) = {} THEN s[k]
                        ELSE jobs[Max(Owning(epochs, jobs, k))].edits[k]]
  BY DEF Visible, Owning
<1>3. ASSUME NEW k \in Keys, Owning(epochs, jobs, k) # {}
      PROVE  /\ Max(Owning(epochs, jobs, k)) \in Owning(epochs, jobs, k)
             /\ \A j \in Owning(epochs, jobs, k) : j <= Max(Owning(epochs, jobs, k))
             /\ jobs[Max(Owning(epochs, jobs, k))].edits[k] \in Values
  <2>1. Owning(epochs, jobs, k) \in SUBSET (1 .. Len(jobs))
    BY <1>1 DEF Owning
  <2>2. /\ Max(Owning(epochs, jobs, k)) \in Owning(epochs, jobs, k)
        /\ \A j \in Owning(epochs, jobs, k) : j <= Max(Owning(epochs, jobs, k))
    BY <1>1, <1>3, <2>1, Last
  <2>3. \A i \in Owning(epochs, jobs, k) : jobs[i].edits \in Edits /\ k \in DOMAIN jobs[i].edits
    BY <1>1 DEF Owning, Current, Jobs
  <2>4. \A i \in Owning(epochs, jobs, k) : jobs[i].edits[k] \in Values
    BY <2>3, EditsAre
  <2> QED BY <2>2, <2>4
<1>4. \A k \in Keys : s[k] \in Values
  BY DEF Snapshots
<1>5. Visible(s, epochs, jobs) \in Snapshots
  BY <1>2, <1>3, <1>4 DEF Snapshots
<1> QED BY <1>2, <1>3, <1>5

LEMMA MergedIs ==
  ASSUME NEW c \in Candidates, accepted \in Snapshots
  PROVE  /\ Merged(c) \in Snapshots
         /\ ~c.overwritten => Merged(c) = c.snapshot
<1>1. c.base \in Snapshots /\ c.snapshot \in Snapshots
  BY DEF Candidates
<1> DEFINE theirs == DOMAIN EditsBetween(c.base, c.snapshot)
           ours == EditsBetween(c.base, accepted)
<1>2. ours \in Edits
  BY <1>1, BetweenIs
<1>3. Restrict(ours, DOMAIN ours \ theirs) \in Edits
  BY <1>2, RestrictedIs
<1>4. Applied(c.snapshot, Restrict(ours, DOMAIN ours \ theirs)) \in Snapshots
  BY <1>1, <1>3, AppliedIs
<1> QED BY <1>1, <1>4 DEF Merged

(* What is adopted becomes the agreed snapshot; the epochs of the keys it  *)
(* changes advance, and the intents that still own their keys stay shown.  *)
LEMMA AdoptIs ==
  ASSUME TypeOK, NEW c \in Candidates, Adopt(c)
  PROVE  /\ live' \in Snapshots /\ accepted' \in Snapshots /\ expected' \in Snapshots
         /\ cursor' \in Snapshots /\ versions' \in [Keys -> Nat]
         /\ accepted' = Merged(c)
         /\ expected' = IF c.overwritten THEN expected ELSE c.raw
         /\ \A k \in Keys : versions'[k] = IF accepted[k] # Merged(c)[k] THEN versions[k] + 1 ELSE versions[k]
         /\ IF accepted = Merged(c) THEN UNCHANGED <<versions, cursor, live>>
            ELSE cursor' = Visible(Merged(c), versions', queue) /\ live' = Normalized(cursor')
<1> DEFINE merged == Merged(c)
           changed == DOMAIN EditsBetween(accepted, merged)
           epochs == [k \in Keys |-> IF k \in changed THEN versions[k] + 1 ELSE versions[k]]
<1>1. /\ accepted \in Snapshots /\ live \in Snapshots /\ cursor \in Snapshots /\ expected \in Snapshots
      /\ versions \in [Keys -> Nat] /\ queue \in Seq(Jobs)
  BY DEF TypeOK
<1>2. merged \in Snapshots
  BY <1>1, MergedIs
<1>3. changed = {k \in Keys : accepted[k] # merged[k]}
  BY <1>1, <1>2, BetweenIs
<1>4. /\ expected' = IF c.overwritten THEN expected ELSE c.raw
      /\ IF changed = {} THEN UNCHANGED <<accepted, versions, cursor, live>>
         ELSE /\ accepted' = merged /\ versions' = epochs
              /\ cursor' = Visible(merged, epochs, queue) /\ live' = Normalized(Visible(merged, epochs, queue))
  BY DEF Adopt
<1>5. c.raw \in Snapshots
  BY DEF Candidates
<1> HIDE DEF merged, changed
<1>6. CASE changed = {}
  <2>1. accepted = merged
    BY <1>1, <1>2, <1>3, <1>6, SameSnapshot
  <2> QED BY <1>1, <1>4, <1>5, <1>6, <2>1 DEF merged
<1>7. CASE changed # {}
  <2>1. epochs \in [Keys -> Nat]
    BY <1>1
  <2>2. Visible(merged, epochs, queue) \in Snapshots /\ Normalized(Visible(merged, epochs, queue)) \in Snapshots
    BY <1>1, <1>2, <2>1, VisibleIs, NormalizedIs
  <2>3. accepted # merged
    BY <1>3, <1>7
  <2>4. \A k \in Keys : epochs[k] = IF accepted[k] # merged[k] THEN versions[k] + 1 ELSE versions[k]
    BY <1>3
  <2> HIDE DEF epochs
  <2> QED BY <1>1, <1>2, <1>4, <1>5, <1>7, <2>1, <2>2, <2>3, <2>4 DEF merged
<1> QED BY <1>6, <1>7

LEMMA JobIs ==
  ASSUME TypeOK, queue # <<>>
  PROVE  /\ Job \in Jobs
         /\ Job.edits \in Edits /\ Job.entry \in Edits /\ Job.versions \in [Keys -> Nat]
         /\ Tail(queue) \in Seq(Jobs)
<1>1. queue \in Seq(Jobs)
  BY DEF TypeOK
<1>2. Head(queue) \in Jobs /\ Tail(queue) \in Seq(Jobs)
  BY <1>1, HeadTailProperties
<1> QED BY <1>2 DEF Job, Jobs

LEMMA AdoptJobIs ==
  AdoptJob \in Jobs
BY NoEditsAre DEF AdoptJob, Jobs

LEMMA ScheduledIs ==
  ASSUME TypeOK
  PROVE  /\ Scheduled \in Seq(Jobs) /\ Scheduled # <<>>
         /\ queue # <<>> => Head(Scheduled) = Job
<1>1. queue \in Seq(Jobs)
  BY DEF TypeOK
<1>2. Append(queue, AdoptJob) \in Seq(Jobs) /\ Append(queue, AdoptJob) # <<>>
  BY <1>1, AdoptJobIs, AppendProperties
<1>3. queue # <<>> => Head(Append(queue, AdoptJob)) = Head(queue)
  BY <1>1, AdoptJobIs, AppendProperties
<1>4. (\E i \in DOMAIN queue : queue[i].kind = "adopt") => queue # <<>>
  BY <1>1
<1> QED BY <1>1, <1>2, <1>3, <1>4 DEF Scheduled, Job
-----------------------------------------------------------------------------
(* Type correctness, one lemma for each action. *)

LEMMA AskedIs ==
  ASSUME TypeOK, NEW attempt \in 0 .. Attempts, NEW gen \in Nat
  PROVE  /\ Asked(attempt, gen) \in Readings
         /\ Asked(attempt, gen).phase = "asked" /\ Asked(attempt, gen).generation = gen
         /\ Asked(attempt, gen).writing = Writing /\ Asked(attempt, gen).revision = writeRevision
         /\ Asked(attempt, gen).base = accepted
BY DEF TypeOK, Asked, Readings, Writing

(* The read that a notice starts, if none is under way.                    *)
LEMMA NoticeAsks ==
  ASSUME TypeOK, Notice, ~closed, reading.phase = "idle"
  PROVE  /\ reading'.phase = "asked" /\ reading'.generation = generation'
         /\ reading'.writing = Writing /\ reading'.revision = writeRevision
         /\ reading'.base = accepted
<1>1. 1 \in 0 .. Attempts
  BY SettingsAssumption
<1>2. generation \in Nat
  BY DEF TypeOK
<1>3. generation + 1 \in Nat
  BY <1>2
<1>4. reading' = Asked(1, generation + 1) /\ generation' = generation + 1
  BY DEF Notice
<1> QED BY <1>1, <1>3, <1>4, AskedIs

LEMMA NoReadIs ==
  NoRead \in Readings /\ NoRead.phase = "idle"
BY SettingsAssumption DEF NoRead, Readings

LEMMA NoRunIs ==
  NoRun \in Runs /\ NoRun.phase = "idle"
BY DEF NoRun, Runs

LEMMA NoticeTypes ==
  ASSUME TypeOK, Notice
  PROVE  TypeOK'
<1>1. Asked(1, generation + 1) \in Readings /\ Asked(1, generation + 1).phase = "asked"
  <2>1. 1 \in 0 .. Attempts /\ generation + 1 \in Nat
    BY SettingsAssumption DEF TypeOK
  <2> QED BY <2>1, AskedIs
<1>2. UNCHANGED <<file, closed, owned, write, bounds, history>> /\ notices' = notices - 1 /\ notices > 0
  BY DEF Notice
<1>3. /\ generation' \in Nat /\ attempted' \in 0 .. generation' /\ reading' \in Readings
      /\ reading'.phase = "waiting" => reading'.attempt < Attempts
      /\ UNCHANGED <<candidate, failedRead>>
  BY <1>1 DEF TypeOK, Notice, read
<1>4. notices' \in 0 .. announced
  BY <1>2 DEF TypeOK
<1> QED BY <1>2, <1>3, <1>4 DEF TypeOK, Writing, owned, write, bounds, history, requests, chances

LEMMA ReadTakesTypes ==
  ASSUME TypeOK, ReadTakes
  PROVE  TypeOK'
<1>1. PICK raw \in {file, None} : reading' = [reading EXCEPT !.phase = "taken", !.raw = raw]
  BY DEF ReadTakes
<1>2. reading' \in Readings /\ reading'.phase = "taken"
  BY <1>1 DEF TypeOK, Readings
<1> QED BY <1>2 DEF TypeOK, ReadTakes, Writing, host, owned, read, write, bounds, history, requests, chances

LEMMA SaveLandsTypes ==
  ASSUME TypeOK, SaveLands
  PROVE  TypeOK'
<1>1. run' = [run EXCEPT !.phase = "landed"] /\ run.phase = "saving"
  BY DEF SaveLands
<1>2. run' \in Runs /\ run'.phase = "landed" /\ run'.next = run.next
  BY <1>1 DEF TypeOK, Runs
<1>3. announced' \in 0 .. MaxAnnounced /\ notices' \in 0 .. announced'
  BY SettingsAssumption DEF TypeOK, SaveLands
<1>4. /\ file' = run.next /\ run.next \in Snapshots
      /\ UNCHANGED <<closed, owned, read, writeRevision, queue, submissions, chances, rewritten>>
  BY <1>1 DEF TypeOK, SaveLands, Writing, requests
<1> QED BY <1>1, <1>2, <1>3, <1>4 DEF TypeOK, Writing, owned, read, chances

(* The end of a read leaves the queue's jobs typed and the running job in  *)
(* place; it wakes a job that awaits it.                                   *)
LEMMA WokenIs ==
  ASSUME TypeOK
  PROVE  /\ Woken \in Runs
         /\ Woken.generation = run.generation /\ Woken.raw = run.raw /\ Woken.next = run.next
         /\ Woken.phase = CASE run.phase = "awaiting" -> "awake" [] run.phase = "reawaiting" -> "rewoken"
                            [] OTHER -> run.phase
BY DEF TypeOK, Runs, Woken

LEMMA ReadEndsTypes ==
  ASSUME TypeOK, ReadEnds, UNCHANGED <<host, owned, writeRevision, bounds>>,
         candidate' \in Candidates \cup {None}, failedRead' \in BOOLEAN, UNCHANGED chances, UNCHANGED rewritten
  PROVE  TypeOK'
<1>1. Woken \in Runs /\ Woken.next = run.next
  BY WokenIs
<1>2. (Woken.phase # "idle" => run.phase # "idle") /\ (Woken.phase \in {"saving", "landed", "verifying", "verified"} => Writing)
  BY WokenIs DEF Writing
<1>3. Asked(1, generation + 1) \in Readings /\ Asked(1, generation + 1).phase = "asked"
  BY SettingsAssumption, AskedIs DEF TypeOK
<1>4. Scheduled \in Seq(Jobs) /\ Scheduled # <<>>
  BY ScheduledIs
<1>5. /\ reading' \in Readings /\ reading'.phase # "waiting"
      /\ generation' \in Nat /\ attempted' \in 0 .. generation'
  BY <1>3, NoReadIs DEF TypeOK, ReadEnds
<1>6. queue' \in Seq(Jobs) /\ (queue # <<>> => queue' # <<>>)
  BY <1>4 DEF ReadEnds, TypeOK
<1>7. run' = Woken
  BY DEF ReadEnds
<1> QED BY <1>1, <1>2, <1>5, <1>6, <1>7 DEF TypeOK, Writing, host, owned, bounds, chances

(* What a read makes of whole contents. *)
LEMMA ReadCandidate ==
  ASSUME TypeOK, reading.raw \notin {None, Torn}
  PROVE  [raw |-> reading.raw, snapshot |-> Normalized(reading.raw), base |-> reading.base,
          overwritten |-> reading.writing \/ Writing \/ reading.revision # writeRevision] \in Candidates
<1>1. reading.raw \in Snapshots /\ reading.base \in Snapshots /\ reading.writing \in BOOLEAN
  BY DEF TypeOK, Readings
<1>2. (reading.writing \/ Writing \/ reading.revision # writeRevision) \in BOOLEAN
  OBVIOUS
<1> QED BY <1>1, <1>2, NormalizedIs DEF Candidates

LEMMA ReadReturnsTypes ==
  ASSUME TypeOK, ReadReturns
  PROVE  TypeOK'
<1>1. /\ UNCHANGED <<host, owned, writeRevision, bounds>> /\ UNCHANGED <<chances, rewritten>>
      /\ reading.phase = "taken"
  BY DEF ReadReturns, requests
<1>2. CASE ReadEnds /\ UNCHANGED <<candidate, failedRead>>
  BY <1>1, <1>2, ReadEndsTypes DEF TypeOK
<1>3. CASE ReadEnds /\ UNCHANGED candidate /\ failedRead' = TRUE
  BY <1>1, <1>3, ReadEndsTypes DEF TypeOK
<1>4. CASE ReadEnds /\ failedRead' = FALSE /\ candidate' \in Candidates
  BY <1>1, <1>4, ReadEndsTypes
<1>5. CASE /\ reading.attempt < Attempts /\ UNCHANGED <<generation, attempted, queue, run, candidate>>
           /\ failedRead' = TRUE
           /\ reading' = [NoRead EXCEPT !.phase = "waiting", !.attempt = reading.attempt]
  <2>1. reading' \in Readings /\ reading'.attempt = reading.attempt /\ reading'.phase = "waiting"
    BY <1>5, NoReadIs DEF Readings, TypeOK
  <2> QED BY <1>1, <1>5, <2>1 DEF TypeOK, Writing, host, owned, bounds, chances
<1>6. CASE reading.attempt < Attempts /\ ReadAgain /\ UNCHANGED <<candidate, failedRead>>
  <2>1. reading.attempt + 1 \in 0 .. Attempts
    BY <1>6, SettingsAssumption DEF TypeOK, Readings
  <2>2. reading' \in Readings /\ reading'.phase = "asked"
    BY <1>6, <2>1, AskedIs DEF ReadAgain, TypeOK
  <2> QED BY <1>1, <1>6, <2>2 DEF TypeOK, ReadAgain, Writing, host, owned, bounds, chances
<1> QED BY <1>1, <1>2, <1>3, <1>4, <1>5, <1>6, ReadCandidate DEF ReadReturns

LEMMA ReadRetriesTypes ==
  ASSUME TypeOK, ReadRetries
  PROVE  TypeOK'
<1>1. /\ UNCHANGED <<host, owned, candidate, failedRead, writeRevision, bounds>> /\ UNCHANGED <<chances, rewritten>>
      /\ reading.phase = "waiting"
  BY DEF ReadRetries, history, requests
<1>2. CASE ReadEnds
  BY <1>1, <1>2, ReadEndsTypes DEF TypeOK
<1>3. CASE ReadAgain
  <2>1. reading.attempt + 1 \in 0 .. Attempts
    BY <1>1, SettingsAssumption DEF TypeOK, Readings
  <2>2. reading' \in Readings /\ reading'.phase = "asked"
    BY <1>3, <2>1, AskedIs DEF ReadAgain, TypeOK
  <2> QED BY <1>1, <1>3, <2>2 DEF TypeOK, ReadAgain, Writing, host, owned, bounds, chances
<1> QED BY <1>2, <1>3 DEF ReadRetries

(* A submission is the last of the queue. *)
LEMMA SubmitIs ==
  ASSUME TypeOK, NEW kind \in {"control", "form"}, NEW settings \in Snapshots, NEW entry \in Edits,
         Submit(kind, settings, entry)
  PROVE  LET job == [kind |-> kind, edits |-> EditsBetween(cursor, settings), versions |-> versions, entry |-> entry]
         IN job \in Jobs /\ queue' = Append(queue, job) /\ queue' \in Seq(Jobs) /\ queue' # <<>>
<1> DEFINE job == [kind |-> kind, edits |-> EditsBetween(cursor, settings), versions |-> versions, entry |-> entry]
<1>1. cursor \in Snapshots /\ versions \in [Keys -> Nat] /\ queue \in Seq(Jobs)
  BY DEF TypeOK
<1>2. job \in Jobs
  BY <1>1, BetweenIs DEF Jobs
<1>3. queue' = Append(queue, job)
  BY DEF Submit
<1>4. Append(queue, job) \in Seq(Jobs) /\ Append(queue, job) # <<>>
  BY <1>1, <1>2, AppendProperties
<1> QED BY <1>2, <1>3, <1>4

LEMMA UseControlTypes ==
  ASSUME TypeOK, NEW k \in Keys, NEW v \in Values, UseControl(k, v)
  PROVE  TypeOK'
<1> DEFINE settings == [live EXCEPT ![k] = v]
<1>1. settings \in Snapshots
  BY SettingsAssumption DEF TypeOK, Snapshots
<1>2. Submit("control", settings, NoEdits)
  BY DEF UseControl
<1> HIDE DEF settings
<1>3. queue' \in Seq(Jobs) /\ queue' # <<>>
  BY <1>1, <1>2, SubmitIs, NoEditsAre
<1>4. live' = settings /\ cursor' = settings /\ submissions' = submissions + 1 /\ UNCHANGED closed
  BY <1>2 DEF Submit, UseControl, host
<1>5. /\ UNCHANGED <<host, accepted, expected, versions, read, writeRevision, run, announced, chances>>
      /\ rewritten' \in BOOLEAN
  BY DEF UseControl, TypeOK
<1> QED BY <1>1, <1>3, <1>4, <1>5 DEF TypeOK, Writing, host, read, chances

LEMMA SubmitFormTypes ==
  ASSUME TypeOK, NEW k \in Keys, NEW v \in Values, SubmitForm(k, v)
  PROVE  TypeOK'
<1> DEFINE entry == [key \in {k} |-> v]
<1>1. live \in Snapshots
  BY DEF TypeOK
<1>2. entry \in Edits
  <2>1. v \in Values
    BY SettingsAssumption
  <2>2. entry \in [{k} -> Values]
    BY <2>1
  <2> QED BY <2>2 DEF Edits
<1>3. Submit("form", live, entry)
  BY DEF SubmitForm
<1> HIDE DEF entry
<1>4. queue' \in Seq(Jobs) /\ queue' # <<>>
  BY <1>1, <1>2, <1>3, SubmitIs
<1>5. live' = live /\ cursor' = live /\ submissions' = submissions + 1 /\ UNCHANGED closed
  BY <1>3 DEF Submit, SubmitForm, host
<1>6. /\ UNCHANGED <<host, accepted, expected, versions, read, writeRevision, run, announced, chances>>
      /\ rewritten' \in BOOLEAN
  BY DEF SubmitForm, TypeOK
<1> QED BY <1>1, <1>4, <1>5, <1>6 DEF TypeOK, Writing, host, read, chances

LEMMA FinishIs ==
  ASSUME TypeOK, queue # <<>>, NEW snapshot \in Snapshots, Finish(snapshot)
  PROVE  /\ queue' = Tail(queue) /\ queue' \in Seq(Jobs)
         /\ run' = NoRun /\ run' \in Runs /\ run'.phase = "idle"
         /\ cursor' = Visible(snapshot, versions, Tail(queue)) /\ cursor' \in Snapshots
<1>1. Tail(queue) \in Seq(Jobs) /\ versions \in [Keys -> Nat]
  BY JobIs DEF TypeOK
<1> QED BY <1>1, VisibleIs, NoRunIs DEF Finish

(* What a job stores: its edits, where its entry asks for more the entry,  *)
(* and the agreed snapshot else.                                           *)
Entered(k) == k \in DOMAIN Job.entry /\ View[k] # Job.entry[k]

LEMMA ViewIs ==
  ASSUME TypeOK, queue # <<>>
  PROVE  /\ View \in Snapshots
         /\ \A k \in Keys : View[k] = IF k \in DOMAIN Job.edits THEN Normal[Job.edits[k]] ELSE Normal[accepted[k]]
<1>1. accepted \in Snapshots /\ Job.edits \in Edits
  BY JobIs DEF TypeOK
<1>2. /\ Applied(accepted, Job.edits) \in Snapshots
      /\ \A k \in Keys : Applied(accepted, Job.edits)[k] = IF k \in DOMAIN Job.edits THEN Job.edits[k] ELSE accepted[k]
  BY <1>1, AppliedIs
<1> QED BY <1>2, NormalizedIs DEF View

LEMMA JobEditsAre ==
  ASSUME TypeOK, queue # <<>>
  PROVE  /\ JobEdits \in Edits /\ Rebased(JobEdits) \in Snapshots
         /\ DOMAIN JobEdits = DOMAIN Job.edits \cup {k \in Keys : Entered(k)}
         /\ DOMAIN JobEdits \subseteq DOMAIN Job.edits \cup DOMAIN Job.entry
         /\ \A k \in DOMAIN JobEdits : JobEdits[k] = IF Entered(k) THEN Job.entry[k] ELSE Job.edits[k]
         /\ \A k \in Keys :
              Rebased(JobEdits)[k] = IF Entered(k) THEN Job.entry[k]
                                     ELSE IF k \in DOMAIN Job.edits THEN Job.edits[k] ELSE accepted[k]
         /\ \A k \in Keys \ DOMAIN JobEdits : Rebased(JobEdits)[k] = accepted[k]
<1> DEFINE after == Applied(View, Job.entry)
           more == EditsBetween(View, after)
<1>1. accepted \in Snapshots /\ Job.edits \in Edits /\ Job.entry \in Edits
  BY JobIs DEF TypeOK
<1>2. View \in Snapshots
  BY ViewIs
<1>3. /\ after \in Snapshots
      /\ \A k \in Keys : after[k] = IF k \in DOMAIN Job.entry THEN Job.entry[k] ELSE View[k]
  BY <1>1, <1>2, AppliedIs
<1> HIDE DEF after
<1>4. /\ more \in Edits /\ DOMAIN more = {k \in Keys : View[k] # after[k]}
      /\ \A k \in DOMAIN more : more[k] = after[k]
  BY <1>2, <1>3, BetweenIs
<1> HIDE DEF more
<1>5. JobEdits = Applied(Job.edits, more)
  BY DEF JobEdits, after, more
<1>6. /\ JobEdits \in Edits
      /\ DOMAIN JobEdits = DOMAIN Job.edits \cup DOMAIN more
      /\ \A k \in DOMAIN JobEdits : JobEdits[k] = IF k \in DOMAIN more THEN more[k] ELSE Job.edits[k]
  <2> DEFINE e == Job.edits
  <2> HIDE DEF e
  <2>1. /\ Applied(e, more) \in Edits
        /\ DOMAIN Applied(e, more) = DOMAIN e \cup DOMAIN more
        /\ \A k \in DOMAIN e \cup DOMAIN more : Applied(e, more)[k] = IF k \in DOMAIN more THEN more[k] ELSE e[k]
    BY <1>1, <1>4, EditsJoined DEF e
  <2>2. JobEdits = Applied(e, more)
    BY <1>5 DEF e
  <2> QED BY <2>1, <2>2 DEF e
<1>7. DOMAIN Job.edits \subseteq Keys /\ DOMAIN Job.entry \subseteq Keys
  BY <1>1, EditsAre
<1>8. \A k \in Keys : /\ k \in DOMAIN more <=> Entered(k)
                      /\ k \in DOMAIN more => more[k] = Job.entry[k]
  BY <1>3, <1>4 DEF Entered
<1>9. DOMAIN more = {k \in Keys : Entered(k)} /\ DOMAIN more \subseteq DOMAIN Job.entry
  BY <1>4, <1>8 DEF Entered
<1>10. \A k \in DOMAIN JobEdits : JobEdits[k] = IF Entered(k) THEN Job.entry[k] ELSE Job.edits[k]
  BY <1>6, <1>7, <1>8, <1>9
<1>11. /\ Rebased(JobEdits) \in Snapshots
       /\ \A k \in Keys : Rebased(JobEdits)[k] = IF k \in DOMAIN JobEdits THEN JobEdits[k] ELSE accepted[k]
  BY <1>1, <1>6, AppliedIs DEF Rebased
<1>12. \A k \in Keys :
         Rebased(JobEdits)[k] = IF Entered(k) THEN Job.entry[k]
                                ELSE IF k \in DOMAIN Job.edits THEN Job.edits[k] ELSE accepted[k]
  BY <1>6, <1>8, <1>10, <1>11
<1>13. \A k \in Keys \ DOMAIN JobEdits : Rebased(JobEdits)[k] = accepted[k]
  BY <1>11
<1> QED BY <1>6, <1>9, <1>10, <1>11, <1>12, <1>13

LEMMA RunPhase ==
  ASSUME TypeOK, NEW p \in {"awaiting", "checking", "checked", "reawaiting", "rewoken", "refused", "prepared", "landed"}
  PROVE  /\ [run EXCEPT !.phase = p] \in Runs /\ [run EXCEPT !.phase = p].phase = p
         /\ [run EXCEPT !.phase = p].generation = run.generation
         /\ [run EXCEPT !.phase = p].raw = run.raw /\ [run EXCEPT !.phase = p].next = run.next
         /\ [NoRun EXCEPT !.phase = p] \in Runs /\ [NoRun EXCEPT !.phase = p].phase = p
         /\ [NoRun EXCEPT !.phase = p].generation = 0
         /\ [NoRun EXCEPT !.phase = p].raw = None /\ [NoRun EXCEPT !.phase = p].next = None
BY NoRunIs DEF TypeOK, Runs, NoRun

LEMMA JobAwaitsTypes ==
  ASSUME TypeOK, JobAwaits
  PROVE  TypeOK'
BY RunPhase DEF TypeOK, JobAwaits, Writing, host, owned, read, bounds, history, requests, chances

LEMMA AdoptCandidateIs ==
  ASSUME TypeOK, AdoptCandidate
  PROVE  /\ candidate' = None
         /\ candidate = None => UNCHANGED owned
         /\ candidate # None => candidate \in Candidates /\ Adopt(candidate)
         /\ {live, accepted, expected, cursor}' \subseteq Snapshots /\ versions' \in [Keys -> Nat]
<1>1. candidate # None => candidate \in Candidates
  BY DEF TypeOK
<1>2. CASE candidate = None
  BY <1>2 DEF AdoptCandidate, TypeOK, owned
<1>3. CASE candidate # None
  BY <1>1, <1>3, AdoptIs DEF AdoptCandidate
<1> QED BY <1>2, <1>3

LEMMA JobPreparesTypes ==
  ASSUME TypeOK, JobPrepares
  PROVE  TypeOK'
<1>1. /\ UNCHANGED <<host, generation, attempted, reading, failedRead, writeRevision, bounds, raced, overtaken,
                     restored, unverified, rewritten>>
      /\ beside' \in BOOLEAN
  BY DEF JobPrepares, TypeOK, requests
<1>2. queue # <<>>
  BY DEF JobPrepares, TypeOK
<1>3. {live, accepted, expected, cursor}' \subseteq Snapshots /\ versions' \in [Keys -> Nat] /\ candidate' = None
  BY AdoptCandidateIs DEF JobPrepares
<1>4. CASE queue' = Tail(queue) /\ run' = NoRun
  BY <1>1, <1>3, <1>4, <1>2, JobIs, NoRunIs DEF TypeOK, Writing, host, bounds
<1>5. CASE run' = [run EXCEPT !.phase = "checking", !.generation = generation] /\ UNCHANGED queue
  <2>1. run' \in Runs /\ run'.phase = "checking"
    BY <1>5 DEF TypeOK, Runs
  <2> QED BY <1>1, <1>2, <1>3, <1>5, <2>1 DEF TypeOK, Writing, host, bounds
<1> QED BY <1>4, <1>5 DEF JobPrepares

(* A job that ends without a save. *)
LEMMA RefusedTypes ==
  ASSUME TypeOK, queue # <<>>, Refused, UNCHANGED <<host, generation, attempted, reading, writeRevision, bounds, raced,
         overtaken, beside, rewritten>>,
         candidate' \in Candidates \cup {None}, {failedRead, restored, unverified}' \subseteq BOOLEAN
  PROVE  TypeOK'
<1>1. accepted \in Snapshots
  BY DEF TypeOK
<1>2. queue' \in Seq(Jobs) /\ run' \in Runs /\ run'.phase = "idle" /\ cursor' \in Snapshots
  BY <1>1, FinishIs DEF Refused
<1>3. UNCHANGED <<live, accepted, expected, versions>>
  BY DEF Refused
<1> QED BY <1>2, <1>3 DEF TypeOK, Writing, host, bounds

LEMMA JobMeetsCloseTypes ==
  ASSUME TypeOK, JobMeetsClose
  PROVE  TypeOK'
<1>1. queue # <<>>
  BY DEF JobMeetsClose, TypeOK
<1> QED BY <1>1, RefusedTypes DEF JobMeetsClose, TypeOK, read, history, requests, chances

LEMMA JobIsRefusedTypes ==
  ASSUME TypeOK, JobIsRefused
  PROVE  TypeOK'
<1>1. queue # <<>>
  BY DEF JobIsRefused, TypeOK
<1> QED BY <1>1, RefusedTypes DEF JobIsRefused, TypeOK, read, history, requests, chances

LEMMA CheckTakesTypes ==
  ASSUME TypeOK, CheckTakes
  PROVE  TypeOK'
<1>1. PICK raw \in {file, None} : run' = [run EXCEPT !.phase = "checked", !.raw = raw]
  BY DEF CheckTakes
<1>2. run' \in Runs /\ run'.phase = "checked" /\ run.phase = "checking"
  BY <1>1 DEF TypeOK, Runs, CheckTakes
<1> QED BY <1>2 DEF TypeOK, CheckTakes, Writing, host, owned, read, history, requests, chances

LEMMA VerifyTakesTypes ==
  ASSUME TypeOK, VerifyTakes
  PROVE  TypeOK'
<1>1. PICK raw \in {file, None} : run' = [run EXCEPT !.phase = "verified", !.raw = raw]
  BY DEF VerifyTakes
<1>2. run' \in Runs /\ run'.phase = "verified" /\ run.phase = "verifying" /\ run'.next = run.next
  BY <1>1 DEF TypeOK, Runs, VerifyTakes
<1> QED BY <1>2 DEF TypeOK, VerifyTakes, Writing, host, owned, read, history, requests, chances

LEMMA SaveRejectedTypes ==
  ASSUME TypeOK, SaveRejected
  PROVE  TypeOK'
<1>1. run' = [run EXCEPT !.phase = "verifying", !.generation = generation]
  BY DEF SaveRejected
<1>2. run' \in Runs /\ run'.phase = "verifying" /\ run'.next = run.next /\ Writing
  BY <1>1 DEF TypeOK, Runs, SaveRejected, Writing
<1> QED BY <1>2 DEF TypeOK, SaveRejected, Writing, host, owned, read, history, requests, chances

(* What a check may adopt. *)
LEMMA CheckedIs ==
  ASSUME TypeOK, run.raw \notin {None, Torn}
  PROVE  /\ run.raw \in Snapshots
         /\ [raw |-> run.raw, snapshot |-> Normalized(run.raw), base |-> accepted, overwritten |-> FALSE] \in Candidates
<1>1. run.raw \in Snapshots /\ accepted \in Snapshots
  BY DEF TypeOK, Runs
<1> QED BY <1>1, NormalizedIs DEF Candidates

LEMMA CheckReturnsTypes ==
  ASSUME TypeOK, CheckReturns
  PROVE  TypeOK'
<1>1. /\ UNCHANGED <<host, generation, attempted, reading, candidate, writeRevision, bounds, raced, overtaken, beside,
                     unverified, rewritten>>
      /\ run.phase = "checked" /\ queue # <<>> /\ restored' \in BOOLEAN
  BY DEF CheckReturns, TypeOK, requests
<1>2. CASE Refused /\ UNCHANGED failedRead
  BY <1>1, <1>2, RefusedTypes DEF TypeOK
<1>3. CASE UNCHANGED <<owned, failedRead, queue>> /\ run' = [NoRun EXCEPT !.phase = "prepared"]
  BY <1>1, <1>3, RunPhase DEF TypeOK, Writing, host, owned, bounds
<1>4. CASE /\ UNCHANGED <<owned, failedRead, queue>>
           /\ run' = [NoRun EXCEPT !.phase = IF reading.phase = "idle" THEN "rewoken" ELSE "reawaiting"]
  <2>1. run' \in Runs /\ run'.phase \in {"rewoken", "reawaiting"}
    BY <1>4, NoRunIs DEF Runs
  <2> QED BY <1>1, <1>4, <2>1 DEF TypeOK, Writing, host, owned, bounds
<1>5. CASE /\ run.raw \notin {None, Torn, expected}
           /\ Adopt([raw |-> run.raw, snapshot |-> Normalized(run.raw), base |-> accepted, overwritten |-> FALSE])
           /\ failedRead' = FALSE
           /\ run' = [NoRun EXCEPT !.phase = "prepared"]
           /\ UNCHANGED queue
  <2>1. /\ {live, accepted, expected, cursor}' \subseteq Snapshots /\ versions' \in [Keys -> Nat]
    BY <1>5, CheckedIs, AdoptIs
  <2> QED BY <1>1, <1>5, <2>1, RunPhase DEF TypeOK, Writing, host, bounds
<1> QED BY <1>2, <1>3, <1>4, <1>5 DEF CheckReturns

LEMMA JobRepreparesTypes ==
  ASSUME TypeOK, JobReprepares
  PROVE  TypeOK'
<1>1. /\ UNCHANGED <<host, generation, attempted, reading, failedRead, writeRevision, queue, bounds, raced, overtaken,
                     restored, unverified, rewritten>>
      /\ beside' \in BOOLEAN /\ queue # <<>>
  BY DEF JobReprepares, TypeOK, requests
<1>2. {live, accepted, expected, cursor}' \subseteq Snapshots /\ versions' \in [Keys -> Nat] /\ candidate' = None
  BY AdoptCandidateIs DEF JobReprepares
<1>3. run' \in Runs /\ run'.phase \in {"refused", "prepared"}
  BY RunPhase DEF JobReprepares
<1> QED BY <1>1, <1>2, <1>3 DEF TypeOK, Writing, host, bounds

LEMMA JobCommitsTypes ==
  ASSUME TypeOK, JobCommits
  PROVE  TypeOK'
<1>1. UNCHANGED <<host, read, bounds, chances, rewritten>> /\ run.phase = "prepared" /\ queue # <<>>
  BY DEF JobCommits, TypeOK, requests
<1>2. CASE Refused /\ UNCHANGED writeRevision
  BY <1>1, <1>2, RefusedTypes DEF TypeOK, read, chances
<1>3. CASE /\ writeRevision' = writeRevision + 1
           /\ run' = [run EXCEPT !.phase = "saving", !.next = Rebased(JobEdits)]
           /\ UNCHANGED <<owned, queue>>
  <2>1. Rebased(JobEdits) \in Snapshots
    BY <1>1, JobEditsAre
  <2>2. run' \in Runs /\ run'.phase = "saving" /\ run'.next \in Snapshots
    BY <1>3, <2>1 DEF TypeOK, Runs
  <2> QED BY <1>1, <1>3, <2>2 DEF TypeOK, Writing, host, owned, read, bounds, chances
<1> QED BY <1>2, <1>3 DEF JobCommits

(* A save that is known to be stored. *)
LEMMA SavedIs ==
  ASSUME TypeOK, Writing, Saved
  PROVE  /\ accepted' = run.next /\ expected' = run.next /\ UNCHANGED versions
         /\ candidate' = IF candidate # None /\ candidate.raw # run.next
                         THEN [candidate EXCEPT !.overwritten = TRUE] ELSE candidate
         /\ candidate' \in Candidates \cup {None}
         /\ live' = Applied(live, Job.entry) /\ live' \in Snapshots
         /\ queue' = Tail(queue) /\ queue' \in Seq(Jobs)
         /\ run' = NoRun /\ run' \in Runs /\ run'.phase = "idle"
         /\ cursor' = Visible(run.next, versions, Tail(queue)) /\ cursor' \in Snapshots
<1>1. run.next \in Snapshots /\ queue # <<>> /\ live \in Snapshots /\ candidate \in Candidates \cup {None}
  BY DEF TypeOK, Writing
<1>2. Applied(live, Job.entry) \in Snapshots
  BY <1>1, JobIs, AppliedIs
<1>3. candidate' \in Candidates \cup {None}
  BY <1>1 DEF Saved, AcceptWrite, Candidates
<1>4. Finish(run.next)
  BY DEF Saved
<1> QED BY <1>1, <1>2, <1>3, <1>4, FinishIs DEF Saved, AcceptWrite

LEMMA SavedTypes ==
  ASSUME TypeOK, Writing, Saved,
         UNCHANGED <<host, generation, attempted, reading, failedRead, writeRevision, bounds, raced, overtaken, beside,
         restored, rewritten>>, unverified' \in BOOLEAN
  PROVE  TypeOK'
<1>1. run.next \in Snapshots
  BY DEF TypeOK
<1> QED BY <1>1, SavedIs DEF TypeOK, Writing, host, bounds

LEMMA SaveReturnsTypes ==
  ASSUME TypeOK, SaveReturns
  PROVE  TypeOK'
<1>1. /\ UNCHANGED <<host, generation, attempted, reading, failedRead, writeRevision, bounds, history>>
      /\ run.phase = "landed" /\ Writing /\ queue # <<>>
  BY DEF SaveReturns, TypeOK, Writing
<1>2. CASE Refused /\ UNCHANGED candidate
  BY <1>1, <1>2, RefusedTypes DEF TypeOK, history, requests, chances
<1>3. CASE Saved
  BY <1>1, <1>3, SavedTypes DEF TypeOK, history, requests, chances
<1> QED BY <1>2, <1>3 DEF SaveReturns

LEMMA VerifyReturnsTypes ==
  ASSUME TypeOK, VerifyReturns
  PROVE  TypeOK'
<1>1. /\ UNCHANGED <<host, generation, attempted, reading, writeRevision, bounds, raced, overtaken, beside, restored, rewritten>>
      /\ run.phase = "verified" /\ Writing /\ queue # <<>> /\ unverified' \in BOOLEAN
  BY DEF VerifyReturns, TypeOK, Writing, requests
<1>2. CASE Saved /\ UNCHANGED failedRead
  BY <1>1, <1>2, SavedTypes
<1>3. CASE /\ Finish(accepted) /\ UNCHANGED <<live, accepted, versions>>
           /\ failedRead' \in BOOLEAN /\ expected' \in Snapshots /\ candidate' \in Candidates \cup {None}
  <2>1. accepted \in Snapshots
    BY DEF TypeOK
  <2>2. queue' \in Seq(Jobs) /\ run' \in Runs /\ run'.phase = "idle" /\ cursor' \in Snapshots
    BY <1>1, <1>3, <2>1, FinishIs
  <2> QED BY <1>1, <1>3, <2>2 DEF TypeOK, Writing, host, bounds
<1>4. expected \in Snapshots /\ candidate \in Candidates \cup {None} /\ failedRead \in BOOLEAN
  BY DEF TypeOK
<1> QED BY <1>1, <1>2, <1>3, <1>4, CheckedIs DEF VerifyReturns

LEMMA ReplacedTypes ==
  ASSUME TypeOK, NEW f \in Snapshots \cup {Torn}, Replaced(f)
  PROVE  TypeOK'
BY SettingsAssumption DEF TypeOK, Replaced, Writing, owned, read, write, requests

LEMMA DisposeTypes ==
  ASSUME TypeOK, Dispose
  PROVE  TypeOK'
BY DEF TypeOK, Dispose, Writing, owned, write, bounds, history, requests, chances

LEMMA NextTypes ==
  ASSUME TypeOK, [Next]_vars
  PROVE  TypeOK'
<1>1. CASE UNCHANGED vars
  BY <1>1 DEF TypeOK, Writing, vars
<1>2. ASSUME NEW f \in Incoming, OtherWrites(f)
      PROVE  TypeOK'
  BY <1>2, ReplacedTypes, SettingsAssumption DEF OtherWrites
<1>3. CASE FileTorn
  BY <1>3, ReplacedTypes DEF FileTorn
<1> QED
  BY <1>1, <1>2, <1>3, UseControlTypes, SubmitFormTypes, NoticeTypes, ReadTakesTypes, ReadReturnsTypes,
     ReadRetriesTypes, JobAwaitsTypes, JobPreparesTypes, JobMeetsCloseTypes, CheckTakesTypes, CheckReturnsTypes,
     JobRepreparesTypes, JobIsRefusedTypes, JobCommitsTypes, SaveLandsTypes, SaveReturnsTypes, SaveRejectedTypes,
     VerifyTakesTypes, VerifyReturnsTypes, DisposeTypes DEF Next

LEMMA InitTypes ==
  ASSUME Init
  PROVE  TypeOK
<1>1. InitialFile \in Snapshots
  BY SettingsAssumption
<1>2. Normalized(InitialFile) \in Snapshots
  BY <1>1, NormalizedIs
<1>3. <<>> \in Seq(Jobs) /\ MaxAnnounced \in Nat
  BY SettingsAssumption
<1>4. run.phase = "idle" /\ reading.phase = "idle" /\ run \in Runs /\ reading \in Readings
  BY NoReadIs, NoRunIs DEF Init
<1>5. {failedRead, closed, raced, overtaken, beside, restored, unverified, rewritten} \subseteq BOOLEAN
  BY DEF Init
<1>6. /\ versions \in [Keys -> Nat] /\ generation \in Nat /\ attempted \in 0 .. generation
      /\ writeRevision \in Nat /\ submissions \in Nat
  BY DEF Init
<1>7. file \in Snapshots /\ {live, accepted, expected, cursor} \subseteq Snapshots
  BY <1>1, <1>2 DEF Init
<1>8. /\ announced \in 0 .. MaxAnnounced /\ notices \in 0 .. announced
      /\ queue \in Seq(Jobs) /\ candidate \in Candidates \cup {None}
  BY <1>3 DEF Init
<1> QED BY <1>4, <1>5, <1>6, <1>7, <1>8 DEF TypeOK, Writing

(* The state always has its type: a save in progress has contents to       *)
(* store, a running job a queue, and a read that waits an attempt left     *)
(* (readNotices(), enqueueSettingsWrite()).                                *)
THEOREM SettingsTypeOK == Spec => []TypeOK
<1>1. Init => TypeOK
  BY InitTypes
<1>2. TypeOK /\ [Next]_vars => TypeOK'
  BY NextTypes
<1> QED BY <1>1, <1>2, PTL DEF Spec
-----------------------------------------------------------------------------
(* What each action leaves of the queue and of the running job. *)

LEMMA AppendedJob ==
  ASSUME TypeOK, queue # <<>>, NEW j \in Jobs, queue' = Append(queue, j)
  PROVE  Job' = Job
BY AppendProperties DEF TypeOK, Job

LEMMA ScheduledJob ==
  ASSUME TypeOK, queue # <<>>, queue' = Scheduled
  PROVE  Job' = Job
BY ScheduledIs DEF Job

LEMMA SameEdits ==
  ASSUME Job' = Job, accepted' = accepted
  PROVE  JobEdits' = JobEdits /\ Rebased(JobEdits)' = Rebased(JobEdits)
BY DEF JobEdits, View, Rebased

Shape ==
  /\ run.phase \notin {"idle", "awaiting", "awake"} => Job.kind # "adopt"
  /\ run.generation <= generation
  /\ reading.phase \in {"asked", "taken"} => attempted = reading.generation
  /\ content \in Snapshots /\ file \in {content, Torn}
  /\ foreign \in [Keys -> Nat]
  /\ Writing => run.next = Rebased(JobEdits) /\ \A k \in DOMAIN JobEdits : Job.versions[k] = versions[k]

(* A submission by a control or by a form. *)
Submits(j, k, v) ==
  /\ ~closed /\ j \in Jobs /\ queue' = Append(queue, j)
  /\ live' \in Snapshots /\ cursor' = live'
  /\ j.versions = versions
  /\ j.edits = EditsBetween(cursor, live')
  /\ \/ j.kind = "control" /\ k \notin Forms /\ live' = [live EXCEPT ![k] = v] /\ j.entry = NoEdits
     \/ j.kind = "form" /\ k \in Forms /\ live' = live /\ j.entry = [key \in {k} |-> v]
  /\ wanted' = [wanted EXCEPT ![k] = v] /\ v # live[k]
  /\ rewritten' = (rewritten \/ Normal[v] # v)
  /\ UNCHANGED <<host, accepted, expected, versions, read, writeRevision, run, announced,
                 failures, content, foreign, chances, received>>

LEMMA UseControlIs ==
  ASSUME TypeOK, NEW k \in Keys, NEW v \in Values, UseControl(k, v)
  PROVE  \E j \in Jobs : Submits(j, k, v)
<1> DEFINE settings == [live EXCEPT ![k] = v]
           j == [kind |-> "control", edits |-> EditsBetween(cursor, settings), versions |-> versions, entry |-> NoEdits]
<1>1. settings \in Snapshots
  BY SettingsAssumption DEF TypeOK, Snapshots
<1>2. Submit("control", settings, NoEdits) /\ k \notin Forms /\ v # live[k] /\ wanted' = [wanted EXCEPT ![k] = v]
      /\ rewritten' = (rewritten \/ Normal[v] # v)
  BY DEF UseControl
<1>3. live' = settings /\ cursor' = settings /\ ~closed
  BY <1>2 DEF Submit
<1>4. j \in Jobs /\ queue' = Append(queue, j)
  <2> HIDE DEF settings
  <2> QED BY <1>1, <1>2, SubmitIs, NoEditsAre
<1>5. j.versions = versions /\ j.edits = EditsBetween(cursor, settings) /\ j.kind = "control" /\ j.entry = NoEdits
  OBVIOUS
<1>6. UNCHANGED <<host, accepted, expected, versions, read, writeRevision, run, announced,
                  failures, content, foreign, chances, received>>
  BY DEF UseControl
<1> HIDE DEF j
<1>7. Submits(j, k, v)
  BY <1>1, <1>2, <1>3, <1>4, <1>5, <1>6 DEF Submits
<1> QED BY <1>4, <1>7

LEMMA SubmitFormIs ==
  ASSUME TypeOK, NEW k \in Keys, NEW v \in Values, SubmitForm(k, v)
  PROVE  \E j \in Jobs : Submits(j, k, v)
<1> DEFINE entry == [key \in {k} |-> v]
           j == [kind |-> "form", edits |-> EditsBetween(cursor, live), versions |-> versions, entry |-> entry]
<1>1. live \in Snapshots
  BY DEF TypeOK
<1>2. Submit("form", live, entry) /\ k \in Forms /\ v # live[k] /\ wanted' = [wanted EXCEPT ![k] = v]
      /\ rewritten' = (rewritten \/ Normal[v] # v)
  BY DEF SubmitForm
<1>3. live' = live /\ cursor' = live /\ ~closed
  BY <1>2 DEF Submit
<1>4. entry \in Edits
  <2>1. v \in Values
    BY SettingsAssumption
  <2>2. entry \in [{k} -> Values]
    BY <2>1
  <2> QED BY <2>2 DEF Edits
<1>5. j \in Jobs /\ queue' = Append(queue, j)
  <2> HIDE DEF entry
  <2> QED BY <1>1, <1>2, <1>4, SubmitIs
<1>6. j.versions = versions /\ j.edits = EditsBetween(cursor, live) /\ j.kind = "form" /\ j.entry = [key \in {k} |-> v]
  OBVIOUS
<1>7. UNCHANGED <<host, accepted, expected, versions, read, writeRevision, run, announced,
                  failures, content, foreign, chances, received>>
  BY DEF SubmitForm
<1> HIDE DEF j
<1>8. Submits(j, k, v)
  BY <1>1, <1>2, <1>3, <1>5, <1>6, <1>7 DEF Submits
<1> QED BY <1>5, <1>8
(* Shape, one lemma for each group of actions. *)
LEMMA SubmitsShape ==
  ASSUME TypeOK, Shape, NEW j, NEW k, NEW v, Submits(j, k, v)
  PROVE  Shape'
<1>1. /\ UNCHANGED <<host, accepted, versions, read, run, content, foreign>>
      /\ j \in Jobs /\ queue' = Append(queue, j)
  BY DEF Submits
<1>2. queue # <<>> => Job' = Job /\ JobEdits' = JobEdits /\ Rebased(JobEdits)' = Rebased(JobEdits)
  BY <1>1, AppendedJob, SameEdits
<1>3. run.phase \notin {"idle"} => queue # <<>>
  BY DEF TypeOK
<1> QED BY <1>1, <1>2, <1>3 DEF Shape, Writing, host, read

LEMMA NoticeShape ==
  ASSUME TypeOK, Shape, Notice
  PROVE  Shape'
<1>1. /\ UNCHANGED <<file, accepted, versions, run, queue, content, foreign>>
      /\ generation' \in {generation, generation + 1}
  BY DEF Notice, owned, write, history, requests, read
<1>2. Job' = Job /\ JobEdits' = JobEdits /\ Rebased(JobEdits)' = Rebased(JobEdits)
  BY <1>1, SameEdits DEF Job
<1>3. reading'.phase \in {"asked", "taken"} => attempted' = reading'.generation
  BY AskedIs, SettingsAssumption DEF Notice, Shape, TypeOK, read
<1>4. generation \in Nat /\ run.generation \in Nat /\ run.generation <= generation
  BY DEF TypeOK, Runs, Shape
<1> QED BY <1>1, <1>2, <1>3, <1>4 DEF Shape, Writing

LEMMA ReadTakesShape ==
  ASSUME TypeOK, Shape, ReadTakes
  PROVE  Shape'
<1>1. UNCHANGED <<file, accepted, versions, run, queue, content, foreign, generation, attempted>>
  BY DEF ReadTakes, host, owned, write, history, requests
<1>2. Job' = Job /\ JobEdits' = JobEdits /\ Rebased(JobEdits)' = Rebased(JobEdits)
  BY <1>1, SameEdits DEF Job
<1>3. reading'.generation = reading.generation /\ reading.phase = "asked"
  BY DEF ReadTakes, TypeOK, Readings
<1> QED BY <1>1, <1>2, <1>3 DEF Shape, Writing

LEMMA ReadEndsShape ==
  ASSUME TypeOK, Shape, ReadEnds, UNCHANGED <<file, accepted, versions, content, foreign>>
  PROVE  Shape'
<1>1. queue # <<>> => Job' = Job
  BY ScheduledJob DEF ReadEnds, Job
<1>2. queue # <<>> => JobEdits' = JobEdits /\ Rebased(JobEdits)' = Rebased(JobEdits)
  BY <1>1, SameEdits
<1>3. run.phase # "idle" => queue # <<>>
  BY DEF TypeOK
<1>4. /\ run'.generation = run.generation /\ run'.next = run.next /\ Writing' = Writing
      /\ run'.phase = "idle" => run.phase = "idle"
      /\ run'.phase \notin {"idle", "awaiting", "awake"} => run.phase \notin {"idle", "awaiting", "awake"}
  BY WokenIs DEF ReadEnds, Writing
<1>5. reading'.phase \in {"asked", "taken"} => attempted' = reading'.generation
  BY AskedIs, NoReadIs, SettingsAssumption DEF ReadEnds, TypeOK
<1>6. generation \in Nat /\ run.generation \in Nat /\ generation' \in {generation, generation + 1}
  BY DEF TypeOK, Runs, ReadEnds
<1>7. run'.generation <= generation'
  BY <1>4, <1>6 DEF Shape
<1>8. Writing => run.phase \notin {"idle", "awaiting", "awake"}
  BY DEF Writing
<1> QED BY <1>1, <1>2, <1>3, <1>4, <1>5, <1>7, <1>8 DEF Shape

(* What a read leaves when it asks once more. *)
LEMMA ReadAgainShape ==
  ASSUME TypeOK, Shape, ReadAgain, reading.attempt < Attempts, UNCHANGED <<file, accepted, versions, content, foreign>>
  PROVE  Shape'
<1>1. Job' = Job /\ JobEdits' = JobEdits /\ Rebased(JobEdits)' = Rebased(JobEdits)
  BY SameEdits DEF Job, ReadAgain
<1>2. reading.attempt + 1 \in 0 .. Attempts
  BY SettingsAssumption DEF TypeOK, Readings
<1>3. attempted' = reading'.generation
  BY <1>2, AskedIs DEF ReadAgain, TypeOK
<1> QED BY <1>1, <1>3 DEF Shape, Writing, ReadAgain

LEMMA ReadReturnsShape ==
  ASSUME TypeOK, Shape, ReadReturns
  PROVE  Shape'
<1>1. UNCHANGED <<file, accepted, versions, content, foreign>>
  BY DEF ReadReturns, host, owned
<1>2. CASE ReadEnds
  BY <1>1, <1>2, ReadEndsShape
<1>3. CASE reading.attempt < Attempts /\ ReadAgain
  BY <1>1, <1>3, ReadAgainShape
<1>4. CASE /\ reading' = [NoRead EXCEPT !.phase = "waiting", !.attempt = reading.attempt]
           /\ UNCHANGED <<generation, attempted, queue, run>>
  <2>1. reading'.phase = "waiting"
    BY <1>4, NoReadIs DEF Readings
  <2>2. Job' = Job /\ JobEdits' = JobEdits /\ Rebased(JobEdits)' = Rebased(JobEdits)
    BY <1>1, <1>4, SameEdits DEF Job
  <2> QED BY <1>1, <1>4, <2>1, <2>2 DEF Shape, Writing
<1> QED BY <1>2, <1>3, <1>4 DEF ReadReturns

LEMMA ReadRetriesShape ==
  ASSUME TypeOK, Shape, ReadRetries
  PROVE  Shape'
<1>1. UNCHANGED <<file, accepted, versions, content, foreign>> /\ reading.attempt < Attempts
  BY DEF ReadRetries, host, owned, history, requests, TypeOK
<1> QED BY <1>1, ReadEndsShape, ReadAgainShape DEF ReadRetries

(* The steps of a job outside its window. *)
LEMMA RunShape ==
  ASSUME TypeOK, Shape, UNCHANGED <<generation, attempted, reading, file, content, foreign>>, ~Writing',
         \/ run'.phase = "idle"
         \/ run'.phase = "awaiting"
         \/ UNCHANGED queue /\ Job.kind # "adopt",
         run'.generation \in {0, run.generation, generation}
  PROVE  Shape'
<1>1. run.generation \in Nat /\ generation \in Nat
  BY DEF TypeOK, Runs
<1> QED BY <1>1 DEF Shape, Job

LEMMA FinishedShape ==
  ASSUME TypeOK, Shape, UNCHANGED <<generation, attempted, reading, file, content, foreign>>, run' = NoRun
  PROVE  Shape'
<1>1. run'.phase = "idle" /\ run'.generation = 0 /\ ~Writing'
  BY DEF NoRun, Writing
<1> QED BY <1>1, RunShape

LEMMA JobAwaitsShape ==
  ASSUME TypeOK, Shape, JobAwaits
  PROVE  Shape'
<1>1. run'.phase = "awaiting" /\ run'.generation = run.generation /\ ~Writing'
  BY RunPhase DEF JobAwaits, Writing
<1> QED BY <1>1, RunShape DEF JobAwaits, read, host, history, requests

LEMMA JobPreparesShape ==
  ASSUME TypeOK, Shape, JobPrepares
  PROVE  Shape'
<1>1. UNCHANGED <<generation, attempted, reading, file, content, foreign>>
  BY DEF JobPrepares, host
<1>2. CASE run' = NoRun
  BY <1>1, <1>2, FinishedShape
<1>3. CASE Job.kind # "adopt" /\ run' = [run EXCEPT !.phase = "checking", !.generation = generation] /\ UNCHANGED queue
  <2>1. run'.phase = "checking" /\ run'.generation = generation /\ ~Writing'
    BY <1>3 DEF TypeOK, Runs, Writing
  <2> QED BY <1>1, <1>3, <2>1, RunShape
<1> QED BY <1>2, <1>3 DEF JobPrepares

LEMMA JobMeetsCloseShape ==
  ASSUME TypeOK, Shape, JobMeetsClose
  PROVE  Shape'
BY FinishedShape DEF JobMeetsClose, Refused, Finish, host, read, history, requests

LEMMA JobIsRefusedShape ==
  ASSUME TypeOK, Shape, JobIsRefused
  PROVE  Shape'
BY FinishedShape DEF JobIsRefused, Refused, Finish, host, read, history, requests

LEMMA CheckTakesShape ==
  ASSUME TypeOK, Shape, CheckTakes
  PROVE  Shape'
<1>1. PICK raw \in {file, None} : run' = [run EXCEPT !.phase = "checked", !.raw = raw]
  BY DEF CheckTakes
<1>2. run'.phase = "checked" /\ run'.generation = run.generation /\ ~Writing'
  BY <1>1 DEF TypeOK, Runs, Writing
<1>3. UNCHANGED <<generation, attempted, reading, file, content, foreign, queue>> /\ run.phase = "checking"
  BY DEF CheckTakes, host, read, history, requests
<1> QED BY <1>2, <1>3, RunShape DEF Shape

LEMMA CheckReturnsShape ==
  ASSUME TypeOK, Shape, CheckReturns
  PROVE  Shape'
<1>1. UNCHANGED <<generation, attempted, reading, file, content, foreign>> /\ run.phase = "checked"
  BY DEF CheckReturns, host
<1>2. CASE Refused
  BY <1>1, <1>2, FinishedShape DEF Refused, Finish
<1>3. CASE UNCHANGED queue /\ \E p \in {"prepared", "rewoken", "reawaiting"} : run' = [NoRun EXCEPT !.phase = p]
  <2>1. run'.phase \in {"prepared", "rewoken", "reawaiting"} /\ run'.generation = 0 /\ ~Writing'
    BY <1>3, RunPhase DEF Writing
  <2> QED BY <1>1, <1>3, <2>1, RunShape DEF Shape
<1> QED BY <1>2, <1>3 DEF CheckReturns

LEMMA JobRepreparesShape ==
  ASSUME TypeOK, Shape, JobReprepares
  PROVE  Shape'
<1>1. UNCHANGED <<generation, attempted, reading, file, content, foreign, queue>> /\ run.phase = "rewoken"
  BY DEF JobReprepares, host
<1>2. run'.phase \in {"refused", "prepared"} /\ run'.generation = run.generation /\ ~Writing'
  BY RunPhase DEF JobReprepares, Writing
<1> QED BY <1>1, <1>2, RunShape DEF Shape

LEMMA JobCommitsShape ==
  ASSUME TypeOK, Shape, JobCommits
  PROVE  Shape'
<1>1. UNCHANGED <<generation, attempted, reading, file, content, foreign>> /\ run.phase = "prepared"
  BY DEF JobCommits, host, read
<1>2. CASE Refused
  BY <1>1, <1>2, FinishedShape DEF Refused, Finish
<1>3. CASE /\ ~ \E k \in DOMAIN JobEdits : Job.versions[k] # versions[k]
           /\ run' = [run EXCEPT !.phase = "saving", !.next = Rebased(JobEdits)]
           /\ UNCHANGED <<owned, queue>>
  <2>1. run'.phase = "saving" /\ run'.generation = run.generation /\ run'.next = Rebased(JobEdits)
    BY <1>3 DEF TypeOK, Runs
  <2>2. Job' = Job /\ JobEdits' = JobEdits /\ Rebased(JobEdits)' = Rebased(JobEdits)
    BY <1>3, SameEdits DEF Job, owned
  <2> QED BY <1>1, <1>3, <2>1, <2>2 DEF Shape, owned
<1> QED BY <1>2, <1>3 DEF JobCommits

(* The steps of a save in progress. *)
LEMMA WritingShape ==
  ASSUME TypeOK, Shape, UNCHANGED <<generation, attempted, reading, foreign, owned, queue>>, Writing,
         run'.next = run.next, run'.generation \in {run.generation, generation},
         content' \in Snapshots, file' \in {content', Torn}
  PROVE  Shape'
<1>1. Job' = Job /\ JobEdits' = JobEdits /\ Rebased(JobEdits)' = Rebased(JobEdits) /\ UNCHANGED versions
  BY SameEdits DEF Job, owned
<1>2. run.generation \in Nat /\ generation \in Nat
  BY DEF TypeOK, Runs
<1>3. Job.kind # "adopt"
  BY DEF Shape, Writing
<1> QED BY <1>1, <1>2, <1>3 DEF Shape

LEMMA SaveLandsShape ==
  ASSUME TypeOK, Shape, SaveLands
  PROVE  Shape'
<1>1. run'.next = run.next /\ run'.generation = run.generation /\ Writing /\ run.next \in Snapshots
  BY DEF TypeOK, Runs, SaveLands, Writing
<1> QED BY <1>1, WritingShape DEF SaveLands, read

LEMMA SaveRejectedShape ==
  ASSUME TypeOK, Shape, SaveRejected
  PROVE  Shape'
<1>1. run'.next = run.next /\ run'.generation = generation /\ Writing
  BY DEF TypeOK, Runs, SaveRejected, Writing
<1> QED BY <1>1, WritingShape DEF SaveRejected, read, host, history, requests, Shape

LEMMA VerifyTakesShape ==
  ASSUME TypeOK, Shape, VerifyTakes
  PROVE  Shape'
<1>1. PICK raw \in {file, None} : run' = [run EXCEPT !.phase = "verified", !.raw = raw]
  BY DEF VerifyTakes
<1>2. run'.next = run.next /\ run'.generation = run.generation /\ Writing
  BY <1>1 DEF TypeOK, Runs, VerifyTakes, Writing
<1> QED BY <1>2, WritingShape DEF VerifyTakes, read, host, history, requests, Shape

LEMMA SaveReturnsShape ==
  ASSUME TypeOK, Shape, SaveReturns
  PROVE  Shape'
BY FinishedShape DEF SaveReturns, Saved, Refused, Finish, host, history, requests

LEMMA VerifyReturnsShape ==
  ASSUME TypeOK, Shape, VerifyReturns
  PROVE  Shape'
BY FinishedShape DEF VerifyReturns, Saved, Finish, host

LEMMA ReplacedShape ==
  ASSUME TypeOK, Shape, NEW f, Replaced(f), content' \in Snapshots, f \in {content', Torn}, foreign' \in [Keys -> Nat]
  PROVE  Shape'
<1>1. Job' = Job /\ JobEdits' = JobEdits /\ Rebased(JobEdits)' = Rebased(JobEdits)
  BY SameEdits DEF Job, Replaced, owned, write
<1> QED BY <1>1 DEF Shape, Replaced, Writing, owned, read, write

LEMMA OtherWritesShape ==
  ASSUME TypeOK, Shape, NEW f \in Incoming, OtherWrites(f)
  PROVE  Shape'
<1>1. f \in Snapshots /\ content' = f
  BY SettingsAssumption DEF OtherWrites
<1>2. foreign' \in [Keys -> Nat]
  BY DEF OtherWrites, Shape
<1> QED BY <1>1, <1>2, ReplacedShape DEF OtherWrites

LEMMA FileTornShape ==
  ASSUME TypeOK, Shape, FileTorn
  PROVE  Shape'
BY ReplacedShape DEF FileTorn, Shape

LEMMA DisposeShape ==
  ASSUME TypeOK, Shape, Dispose
  PROVE  Shape'
<1>1. Job' = Job /\ JobEdits' = JobEdits /\ Rebased(JobEdits)' = Rebased(JobEdits)
  BY SameEdits DEF Job, Dispose, owned, write
<1>2. run.generation \in Nat /\ generation \in Nat
  BY DEF TypeOK, Runs
<1> QED BY <1>1, <1>2 DEF Shape, Dispose, Writing, owned, write, history, requests

LEMMA NextShape ==
  ASSUME TypeOK, Shape, [Next]_vars
  PROVE  Shape'
<1>1. CASE UNCHANGED vars
  BY <1>1 DEF Shape, Writing, Job, JobEdits, View, Rebased, vars
<1>2. ASSUME NEW k \in Keys, NEW v \in Values, UseControl(k, v) \/ SubmitForm(k, v)
      PROVE  Shape'
  BY <1>2, UseControlIs, SubmitFormIs, SubmitsShape
<1> QED
  BY <1>1, <1>2, NoticeShape, ReadTakesShape, ReadReturnsShape, ReadRetriesShape, JobAwaitsShape, JobPreparesShape,
     JobMeetsCloseShape, CheckTakesShape, CheckReturnsShape, JobRepreparesShape, JobIsRefusedShape, JobCommitsShape,
     SaveLandsShape, SaveReturnsShape, SaveRejectedShape, VerifyTakesShape, VerifyReturnsShape, OtherWritesShape,
     FileTornShape, DisposeShape DEF Next
(***************************************************************************)
(* From the check to the step that stores: no read is under way when a     *)
(* check begins; a notice that overtakes the check starts one, and what it *)
(* finds is the file; once a job is prepared the agreed snapshot is the    *)
(* file's, and everything that is read meanwhile is that or the save.      *)
(***************************************************************************)
Checking == run.phase \in {"checking", "checked"}
Rereading == run.phase \in {"reawaiting", "rewoken"} \/ (Checking /\ generation # run.generation)
InWindow == run.phase = "prepared" \/ Writing
InFlight == reading.phase \in {"asked", "taken"}

CheckRead == ~raced /\ run.phase \in {"checked", "verified"} => run.raw \in {file, None}

Undisturbed ==
  ~beside /\ Checking /\ generation = run.generation => reading.phase = "idle" /\ candidate = None

Reread ==
  ~Missed /\ ~closed /\ Rereading =>
    /\ reading.phase = "taken" => reading.raw \in {file, None}
    /\ InFlight => ~reading.writing /\ reading.revision = writeRevision
    /\ candidate # None => ~candidate.overwritten
    /\ reading.phase = "idle" /\ ~failedRead => candidate # None /\ candidate.raw = file

Window ==
  ~Missed /\ InWindow =>
    /\ Agrees(accepted, expected)
    /\ file \in {expected, run.next}
    /\ run.phase \in {"prepared", "saving"} => file = expected
    /\ run.phase = "landed" => file = run.next
    /\ candidate # None => candidate.base = accepted /\ candidate.raw \in {expected, file}
    /\ InFlight => reading.base = accepted
    /\ reading.phase = "taken" => reading.raw \in {expected, file, None}

Migrated == candidate # None => candidate.snapshot = Normalized(candidate.raw)

Stored == CheckRead /\ Undisturbed /\ Reread /\ Window /\ Migrated

LEMMA SameStored ==
  ASSUME Stored, UNCHANGED <<file, closed, accepted, expected, generation, reading, candidate, failedRead,
                             writeRevision, run, chances>>
  PROVE  Stored'
BY DEF Stored, CheckRead, Undisturbed, Reread, Window, Agrees, Migrated, Missed, Checking, Rereading, InWindow, InFlight,
       Writing, chances

LEMMA NoticeStored ==
  ASSUME TypeOK, Shape, Stored, Notice
  PROVE  Stored'
<1>1. CASE closed
  BY <1>1, SameStored DEF Notice, owned, read, write, history, requests
<1>2. CASE ~closed
  <2>1. /\ UNCHANGED <<file, closed, accepted, expected, writeRevision, run, chances, candidate, failedRead>>
        /\ generation' = generation + 1 /\ generation' # run.generation
    <3>1. UNCHANGED <<file, closed, accepted, expected, writeRevision, run, chances, candidate, failedRead>>
      BY <1>2 DEF Notice, owned, write, history, requests
    <3>2. generation' = generation + 1 /\ run.generation \in Nat /\ generation \in Nat /\ run.generation <= generation
      BY <1>2 DEF Notice, TypeOK, Runs, Shape
    <3> QED BY <3>1, <3>2
  <2>2. \/ reading.phase # "idle" /\ reading' = reading
        \/ /\ reading.phase = "idle" /\ reading'.phase = "asked" /\ reading'.base = accepted
           /\ reading'.writing = Writing /\ reading'.revision = writeRevision
    BY <1>2, NoticeAsks DEF Notice
  <2>3. CheckRead' /\ Undisturbed' /\ Migrated'
    BY <2>1 DEF Stored, CheckRead, Undisturbed, Migrated, chances
  <2>4. Reread'
    <3>1. Rereading' => ~Writing /\ (Rereading \/ (Checking /\ generation = run.generation))
      BY <2>1 DEF Rereading, Checking, Writing
    <3>2. CASE Rereading
      BY <2>1, <2>2, <3>1, <3>2 DEF Stored, Reread, Missed, InFlight, chances
    <3>3. CASE Checking /\ generation = run.generation
      BY <2>1, <2>2, <3>1, <3>3 DEF Stored, Undisturbed, Reread, Missed, InFlight, chances
    <3> QED BY <3>1, <3>2, <3>3 DEF Reread
  <2>5. Window'
    BY <2>1, <2>2 DEF Stored, Window, Agrees, Missed, InWindow, InFlight, Writing, chances
  <2> QED BY <2>3, <2>4, <2>5 DEF Stored
<1> QED BY <1>1, <1>2

LEMMA ReadTakesStored ==
  ASSUME TypeOK, Shape, Stored, ReadTakes
  PROVE  Stored'
<1>1. /\ UNCHANGED <<file, closed, accepted, expected, writeRevision, run, chances, candidate, failedRead, generation>>
      /\ reading.phase = "asked"
  BY DEF ReadTakes, host, owned, write, history, requests
<1>2. PICK raw \in {file, None} : reading' = [reading EXCEPT !.phase = "taken", !.raw = raw]
  BY DEF ReadTakes
<1>3. /\ reading'.phase = "taken" /\ reading'.raw \in {file, None} /\ reading'.base = reading.base
      /\ reading'.writing = reading.writing /\ reading'.revision = reading.revision
  BY <1>2 DEF TypeOK, Readings
<1>4. CheckRead' /\ Undisturbed' /\ Migrated'
  BY <1>1, <1>3 DEF Stored, CheckRead, Undisturbed, Migrated, Checking, chances
<1>5. Reread'
  BY <1>1, <1>3 DEF Stored, Reread, Missed, InFlight, Rereading, Checking, chances
<1>6. Window'
  BY <1>1, <1>3 DEF Stored, Window, Agrees, Missed, InWindow, InFlight, Writing, chances
<1> QED BY <1>4, <1>5, <1>6 DEF Stored

(* The ends of a read: what it found, and where that leaves the reads.     *)
NewRead ==
  /\ reading'.phase = "asked" /\ reading'.base = accepted
  /\ reading'.writing = Writing /\ reading'.revision = writeRevision
  /\ reading'.generation = generation'

LEMMA ReadEndsIs ==
  ASSUME TypeOK, Shape, ReadEnds
  PROVE  /\ run'.generation = run.generation /\ run'.raw = run.raw /\ run'.next = run.next /\ Writing' = Writing
         /\ \A p \in {"idle", "checking", "checked", "refused", "prepared", "saving", "landed", "verifying", "verified"} :
              run'.phase = p <=> run.phase = p
         /\ Checking' = (run.phase \in {"checking", "checked"})
         /\ (run'.phase \in {"reawaiting", "rewoken"} <=> run.phase \in {"reawaiting", "rewoken"})
         /\ closed \/ attempted = generation => reading'.phase = "idle" /\ UNCHANGED <<generation, attempted>>
         /\ ~closed /\ attempted # generation => NewRead /\ generation' = generation + 1
         /\ generation' # generation => generation' # run.generation
<1>1. run' = Woken /\ Woken \in Runs
  BY WokenIs DEF ReadEnds
<1>2. run.phase \in {"idle", "awaiting", "awake", "checking", "checked", "reawaiting", "rewoken",
                     "refused", "prepared", "saving", "landed", "verifying", "verified"}
  BY DEF TypeOK, Runs
<1>3. /\ run'.generation = run.generation /\ run'.raw = run.raw /\ run'.next = run.next /\ Writing' = Writing
      /\ \A p \in {"idle", "checking", "checked", "refused", "prepared", "saving", "landed", "verifying", "verified"} :
           run'.phase = p <=> run.phase = p
      /\ (run'.phase \in {"reawaiting", "rewoken"} <=> run.phase \in {"reawaiting", "rewoken"})
  BY <1>1, <1>2, WokenIs DEF Writing
<1>4. Checking' = (run.phase \in {"checking", "checked"})
  BY <1>3 DEF Checking
<1>5. closed \/ attempted = generation => reading'.phase = "idle" /\ UNCHANGED <<generation, attempted>>
  BY NoReadIs DEF ReadEnds
<1>6. ~closed /\ attempted # generation => NewRead /\ generation' = generation + 1
  BY AskedIs, SettingsAssumption DEF ReadEnds, NewRead, TypeOK
<1>7. generation' # generation => generation' # run.generation
  <2>1. generation \in Nat /\ run.generation \in Nat /\ run.generation <= generation
    BY DEF TypeOK, Runs, Shape
  <2>2. generation' \in {generation, generation + 1}
    BY DEF ReadEnds
  <2> QED BY <2>1, <2>2
<1> QED BY <1>3, <1>4, <1>5, <1>6, <1>7

(* The end of a read that was under way: it finds nothing, or the file.    *)
LEMMA ReadEndsStored ==
  ASSUME TypeOK, Shape, Stored, ReadEnds, reading.phase \in {"taken", "waiting"},
         UNCHANGED <<file, closed, accepted, expected, writeRevision, chances>>,
         \/ closed /\ UNCHANGED <<candidate, failedRead>>
         \/ UNCHANGED candidate /\ failedRead' = TRUE
         \/ UNCHANGED <<candidate, failedRead>> /\ attempted # generation
         \/ /\ candidate' \in Candidates /\ reading.phase = "taken" /\ reading.raw \notin {None, Torn}
            /\ candidate'.raw = reading.raw /\ candidate'.snapshot = Normalized(reading.raw)
            /\ candidate'.base = reading.base
            /\ candidate'.overwritten = (reading.writing \/ Writing \/ reading.revision # writeRevision)
  PROVE  Stored'
<1> USE ReadEndsIs
<1>1. CheckRead' /\ Undisturbed'
  BY DEF Stored, CheckRead, Undisturbed, Checking, chances
<1>2. Migrated'
  BY DEF Stored, Migrated
<1>3. Reread'
  <2> SUFFICES ASSUME ~Missed', ~closed', Rereading'
               PROVE  /\ reading'.phase = "taken" => reading'.raw \in {file, None}
                      /\ InFlight' => ~reading'.writing /\ reading'.revision = writeRevision'
                      /\ candidate' # None => ~candidate'.overwritten
                      /\ reading'.phase = "idle" /\ ~failedRead' => candidate' # None /\ candidate'.raw = file
    BY DEF Reread
  <2>1. ~Missed /\ ~closed /\ Rereading /\ ~Writing
    BY DEF Missed, Stored, Undisturbed, Rereading, Checking, Writing, chances
  <2>2. /\ reading.phase = "taken" => reading.raw \in {file, None}
        /\ reading.phase = "taken" => ~reading.writing /\ reading.revision = writeRevision
        /\ candidate # None => ~candidate.overwritten
    BY <2>1 DEF Stored, Reread, InFlight
  <2>3. InFlight' => ~reading'.writing /\ reading'.revision = writeRevision'
    BY <2>1 DEF InFlight, NewRead
  <2>4. reading'.phase # "taken"
    BY <2>1 DEF NewRead
  <2>5. candidate' # None => ~candidate'.overwritten
    BY <2>1, <2>2
  <2>6. reading'.phase = "idle" /\ ~failedRead' => candidate' # None /\ candidate'.raw = file
    BY <2>1, <2>2, Apart DEF NewRead
  <2> QED BY <2>3, <2>4, <2>5, <2>6
<1>4. Window'
  BY Apart DEF Stored, Window, Agrees, Missed, InWindow, InFlight, NewRead, chances
<1> QED BY <1>1, <1>2, <1>3, <1>4 DEF Stored

LEMMA ReadAgainIs ==
  ASSUME TypeOK, ReadAgain, reading.attempt < Attempts
  PROVE  NewRead /\ UNCHANGED <<generation, queue, run>>
<1>1. reading.attempt + 1 \in 0 .. Attempts
  BY SettingsAssumption DEF TypeOK, Readings
<1> QED BY <1>1, AskedIs DEF ReadAgain, NewRead, TypeOK

LEMMA ReadAgainStored ==
  ASSUME TypeOK, Shape, Stored, ReadAgain, reading.attempt < Attempts, reading.phase \in {"taken", "waiting"},
         UNCHANGED <<file, closed, accepted, expected, writeRevision, candidate, failedRead, chances>>
  PROVE  Stored'
<1> USE ReadAgainIs DEF NewRead
<1>1. CheckRead' /\ Undisturbed' /\ Migrated'
  BY DEF Stored, CheckRead, Undisturbed, Checking, Migrated, chances
<1>2. Reread'
  BY DEF Stored, Reread, Missed, InFlight, Rereading, Checking, Writing, chances
<1>3. Window'
  BY DEF Stored, Window, Agrees, Missed, InWindow, InFlight, Writing, chances
<1> QED BY <1>1, <1>2, <1>3 DEF Stored

LEMMA ReadReturnsStored ==
  ASSUME TypeOK, Shape, Stored, ReadReturns
  PROVE  Stored'
<1>1. UNCHANGED <<file, closed, accepted, expected, writeRevision, chances>> /\ reading.phase = "taken"
  BY DEF ReadReturns, host, owned
<1>2. attempted = reading.generation
  BY <1>1 DEF Shape
<1>3. CASE closed /\ ReadEnds /\ UNCHANGED <<candidate, failedRead>>
  BY <1>1, <1>3, ReadEndsStored
<1>4. CASE ReadEnds /\ UNCHANGED candidate /\ failedRead' = TRUE
  BY <1>1, <1>4, ReadEndsStored
<1>5. CASE ReadEnds /\ UNCHANGED <<candidate, failedRead>> /\ reading.generation # generation
  BY <1>1, <1>2, <1>5, ReadEndsStored
<1>6. CASE /\ ReadEnds /\ reading.raw \notin {None, Torn}
           /\ candidate' = [raw |-> reading.raw, snapshot |-> Normalized(reading.raw), base |-> reading.base,
                            overwritten |-> reading.writing \/ Writing \/ reading.revision # writeRevision]
  <2>1. candidate' \in Candidates
    BY <1>6, ReadCandidate
  <2> QED BY <1>1, <1>6, <2>1, ReadEndsStored
<1>7. CASE reading.attempt < Attempts /\ ReadAgain /\ UNCHANGED <<candidate, failedRead>>
  BY <1>1, <1>7, ReadAgainStored
<1>8. CASE /\ reading' = [NoRead EXCEPT !.phase = "waiting", !.attempt = reading.attempt]
           /\ UNCHANGED <<generation, attempted, queue, run, candidate>>
           /\ failedRead' = TRUE
  <2>1. reading'.phase = "waiting"
    BY <1>8, NoReadIs DEF Readings
  <2>2. CheckRead' /\ Undisturbed' /\ Migrated'
    BY <1>1, <1>8, <2>1 DEF Stored, CheckRead, Undisturbed, Migrated, Checking, chances
  <2>3. Reread'
    BY <1>1, <1>8, <2>1 DEF Stored, Reread, Missed, InFlight, Rereading, Checking, chances
  <2>4. Window'
    BY <1>1, <1>8, <2>1 DEF Stored, Window, Agrees, Missed, InWindow, InFlight, Writing, chances
  <2> QED BY <2>2, <2>3, <2>4 DEF Stored
<1> QED BY <1>3, <1>4, <1>5, <1>6, <1>7, <1>8 DEF ReadReturns

LEMMA ReadRetriesStored ==
  ASSUME TypeOK, Shape, Stored, ReadRetries
  PROVE  Stored'
<1>1. /\ UNCHANGED <<file, closed, accepted, expected, writeRevision, candidate, failedRead, chances>>
      /\ reading.phase = "waiting" /\ reading.attempt < Attempts
  BY DEF ReadRetries, host, owned, history, requests, TypeOK
<1>2. CASE closed /\ ReadEnds
  BY <1>1, <1>2, ReadEndsStored
<1>3. CASE ReadAgain
  BY <1>1, <1>3, ReadAgainStored
<1> QED BY <1>2, <1>3 DEF ReadRetries
(* A step that leaves the run outside the check, the reread and the window. *)
LEMMA OutsideStored ==
  ASSUME Stored, UNCHANGED <<candidate, reading>>,
         run'.phase \in {"idle", "awaiting", "awake", "refused"}
  PROVE  Stored'
BY DEF Stored, CheckRead, Undisturbed, Reread, Window, Agrees, Migrated, Checking, Rereading, InWindow, Writing

LEMMA SubmitsStored ==
  ASSUME Stored, NEW j, NEW k, NEW v, Submits(j, k, v)
  PROVE  Stored'
BY SameStored DEF Submits, host, read

LEMMA JobAwaitsStored ==
  ASSUME TypeOK, Stored, JobAwaits
  PROVE  Stored'
<1>1. run'.phase = "awaiting" /\ UNCHANGED <<candidate, reading>>
  BY RunPhase DEF JobAwaits, read
<1> QED BY <1>1, OutsideStored

LEMMA JobPreparesStored ==
  ASSUME TypeOK, Shape, Stored, JobPrepares
  PROVE  Stored'
<1>1. candidate' = None /\ UNCHANGED <<reading, generation, file>>
  BY AdoptCandidateIs DEF JobPrepares, host
<1>2. CASE run' = NoRun
  <2>1. run'.phase = "idle"
    BY <1>2, NoRunIs
  <2> QED BY <1>1, <2>1 DEF Stored, CheckRead, Undisturbed, Reread, Window, Agrees, Migrated, Checking, Rereading, InWindow, Writing
<1>3. CASE Job.kind # "adopt" /\ run' = [run EXCEPT !.phase = "checking", !.generation = generation]
  <2>1. run'.phase = "checking" /\ run'.generation = generation
    BY <1>3 DEF TypeOK, Runs
  <2>2. ~beside' => reading.phase = "idle"
    BY <1>3 DEF JobPrepares
  <2> QED BY <1>1, <2>1, <2>2 DEF Stored, CheckRead, Undisturbed, Reread, Window, Agrees, Migrated, Checking, Rereading, InWindow, Writing
<1> QED BY <1>2, <1>3 DEF JobPrepares

LEMMA RefusedStored ==
  ASSUME Stored, Refused, UNCHANGED <<candidate, reading>>
  PROVE  Stored'
<1>1. run'.phase = "idle"
  BY NoRunIs DEF Refused, Finish
<1> QED BY <1>1, OutsideStored

LEMMA CheckTakesStored ==
  ASSUME TypeOK, Shape, Stored, CheckTakes
  PROVE  Stored'
<1>1. PICK raw \in {file, None} : run' = [run EXCEPT !.phase = "checked", !.raw = raw]
  BY DEF CheckTakes
<1>2. /\ run'.phase = "checked" /\ run'.generation = run.generation /\ run'.raw \in {file, None}
      /\ run.phase = "checking"
  BY <1>1 DEF TypeOK, Runs, CheckTakes
<1>3. UNCHANGED <<file, closed, accepted, expected, generation, reading, candidate, failedRead, writeRevision, chances>>
  BY DEF CheckTakes, host, owned, read, history, requests
<1>4. CheckRead' /\ Undisturbed' /\ Migrated'
  BY <1>2, <1>3 DEF Stored, CheckRead, Undisturbed, Migrated, Checking, chances
<1>5. Reread'
  BY <1>2, <1>3 DEF Stored, Reread, Missed, InFlight, Rereading, Checking, chances
<1>6. Window'
  BY <1>2, <1>3 DEF Window, Agrees, InWindow, Writing
<1> QED BY <1>4, <1>5, <1>6 DEF Stored

(* What a check adopts is what it read. *)
LEMMA CheckAdopts ==
  ASSUME TypeOK, run.raw \notin {None, Torn},
         Adopt([raw |-> run.raw, snapshot |-> Normalized(run.raw), base |-> accepted, overwritten |-> FALSE])
  PROVE  /\ accepted' = Normalized(run.raw) /\ expected' = run.raw
         /\ \A k \in Keys : versions'[k] = IF accepted[k] # Normalized(run.raw)[k] THEN versions[k] + 1 ELSE versions[k]
         /\ IF accepted = Normalized(run.raw) THEN UNCHANGED <<versions, cursor, live>>
            ELSE cursor' = Visible(Normalized(run.raw), versions', queue) /\ live' = Normalized(cursor')
         /\ cursor' \in Snapshots /\ live' \in Snapshots /\ versions' \in [Keys -> Nat]
<1> DEFINE c == [raw |-> run.raw, snapshot |-> Normalized(run.raw), base |-> accepted, overwritten |-> FALSE]
<1>1. c \in Candidates
  BY CheckedIs
<1>2. c.snapshot = Normalized(run.raw) /\ c.raw = run.raw /\ ~c.overwritten
  OBVIOUS
<1>3. Adopt(c)
  OBVIOUS
<1> HIDE DEF c
<1>4. Merged(c) = Normalized(run.raw)
  BY <1>1, <1>2, MergedIs DEF TypeOK
<1> QED BY <1>1, <1>2, <1>3, <1>4, AdoptIs

LEMMA CheckReturnsStored ==
  ASSUME TypeOK, Shape, Stored, CheckReturns
  PROVE  Stored'
<1>1. /\ UNCHANGED <<file, closed, generation, reading, candidate, writeRevision, raced, overtaken, beside, unverified>>
      /\ run.phase = "checked" /\ ~closed
  BY DEF CheckReturns, host
<1>2. CASE Refused
  BY <1>1, <1>2, RefusedStored
<1>3. CASE /\ run.generation # generation /\ UNCHANGED <<owned, failedRead, restored>>
           /\ run' = [NoRun EXCEPT !.phase = IF reading.phase = "idle" THEN "rewoken" ELSE "reawaiting"]
  <2>1. run'.phase \in {"rewoken", "reawaiting"}
    BY <1>3, RunPhase
  <2>2. Rereading /\ (Missed' <=> Missed)
    BY <1>1, <1>3 DEF Rereading, Checking, Missed
  <2>3. CheckRead' /\ Undisturbed' /\ Migrated' /\ Window'
    BY <1>1, <2>1 DEF Stored, CheckRead, Undisturbed, Migrated, Window, Agrees, InWindow, Writing, Checking
  <2>4. Reread'
    BY <1>1, <1>3, <2>1, <2>2 DEF Stored, Reread, InFlight
  <2> QED BY <2>3, <2>4 DEF Stored
<1>4. CASE run' = [NoRun EXCEPT !.phase = "prepared"] /\ run.generation = generation
  <2>1. run'.phase = "prepared"
    BY <1>4, RunPhase
  <2>2. CheckRead' /\ Undisturbed' /\ Migrated' /\ Reread'
    BY <1>1, <2>1 DEF Stored, CheckRead, Undisturbed, Migrated, Reread, Rereading, Checking
  <2>3. ASSUME ~Missed'
        PROVE  /\ reading.phase = "idle" /\ candidate = None
               /\ run.raw \in {file, None}
    BY <1>1, <1>4, <2>3 DEF Stored, Undisturbed, CheckRead, Checking, Missed
  <2>4. ASSUME ~Missed'
        PROVE  Agrees(accepted', expected') /\ file = expected'
    <3>1. CASE /\ run.raw \notin {None, Torn, expected}
               /\ Adopt([raw |-> run.raw, snapshot |-> Normalized(run.raw), base |-> accepted, overwritten |-> FALSE])
      BY <2>3, <2>4, <3>1, Apart, CheckAdopts, NormalizedAgrees DEF TypeOK, Runs
    <3>2. CASE /\ run.raw = expected /\ UNCHANGED owned
               /\ restored' = (restored \/ ~Agrees(accepted, expected))
      <4>1. expected # None /\ UNCHANGED <<accepted, expected>>
        BY <3>2, Apart DEF TypeOK, owned
      <4> QED BY <2>3, <2>4, <3>2, <4>1 DEF Missed
    <3>3. run'.phase # "idle" /\ run'.phase \notin {"rewoken", "reawaiting"}
      BY <2>1
    <3>4. ~Refused
      BY <3>3, NoRunIs DEF Refused, Finish
    <3> QED BY <1>4, <3>1, <3>2, <3>4 DEF CheckReturns
  <2>5. Window'
    BY <1>1, <2>1, <2>3, <2>4 DEF Window, Agrees, InWindow, InFlight
  <2> QED BY <2>2, <2>5 DEF Stored
<1> QED BY <1>2, <1>3, <1>4 DEF CheckReturns

LEMMA JobRepreparesStored ==
  ASSUME TypeOK, Shape, Stored, JobReprepares
  PROVE  Stored'
<1>1. /\ UNCHANGED <<file, closed, generation, reading, failedRead, writeRevision, raced, overtaken, restored, unverified>>
      /\ run.phase = "rewoken" /\ ~closed /\ candidate' = None /\ AdoptCandidate
      /\ beside' = (beside \/ reading.phase # "idle")
      /\ run'.phase = IF failedRead THEN "refused" ELSE "prepared"
  BY AdoptCandidateIs, RunPhase DEF JobReprepares, host
<1>2. CheckRead' /\ Undisturbed' /\ Migrated' /\ Reread'
  BY <1>1 DEF CheckRead, Undisturbed, Migrated, Reread, Rereading, Checking
<1>3. ASSUME ~Missed', ~failedRead
      PROVE  Agrees(accepted', expected') /\ file = expected' /\ reading.phase = "idle"
  <2>1. ~Missed /\ reading.phase = "idle"
    BY <1>1, <1>3 DEF Missed
  <2>2. candidate # None /\ candidate.raw = file /\ ~candidate.overwritten /\ candidate.snapshot = Normalized(file)
    BY <1>1, <1>3, <2>1 DEF Stored, Reread, Rereading, Migrated
  <2>3. accepted' = Merged(candidate) /\ expected' = candidate.raw
    BY <1>1, <2>2, AdoptCandidateIs, AdoptIs
  <2>4. Merged(candidate) = candidate.snapshot
    BY <2>2, MergedIs DEF TypeOK
  <2>5. file \in Snapshots
    BY <2>2 DEF TypeOK, Candidates
  <2> QED BY <2>1, <2>2, <2>3, <2>4, <2>5, NormalizedAgrees
<1>4. Window'
  BY <1>1, <1>3 DEF Window, Agrees, InWindow, InFlight, Writing
<1> QED BY <1>2, <1>4 DEF Stored

LEMMA JobCommitsStored ==
  ASSUME TypeOK, Shape, Stored, JobCommits
  PROVE  Stored'
<1>1. UNCHANGED <<file, closed, reading, candidate, chances>> /\ run.phase = "prepared"
  BY DEF JobCommits, host, read
<1>2. CASE Refused
  BY <1>1, <1>2, RefusedStored
<1>3. CASE run' = [run EXCEPT !.phase = "saving", !.next = Rebased(JobEdits)] /\ UNCHANGED owned
  <2>1. run'.phase = "saving"
    BY <1>3 DEF TypeOK, Runs
  <2>2. CheckRead' /\ Undisturbed' /\ Migrated' /\ Reread'
    BY <1>1, <2>1 DEF Stored, CheckRead, Undisturbed, Migrated, Reread, Rereading, Checking
  <2>3. Window'
    BY <1>1, <1>3, <2>1 DEF Stored, Window, Agrees, InWindow, InFlight, Missed, owned, chances
  <2> QED BY <2>2, <2>3 DEF Stored
<1> QED BY <1>2, <1>3 DEF JobCommits

LEMMA SaveLandsStored ==
  ASSUME TypeOK, Shape, Stored, SaveLands
  PROVE  Stored'
<1>1. /\ UNCHANGED <<owned, reading, candidate, chances>> /\ run.phase = "saving" /\ file' = run.next
      /\ run'.phase = "landed" /\ run'.next = run.next
  BY DEF SaveLands, read, TypeOK, Runs
<1>2. CheckRead' /\ Undisturbed' /\ Migrated' /\ Reread'
  BY <1>1 DEF Stored, CheckRead, Undisturbed, Migrated, Reread, Rereading, Checking
<1>3. Window'
  BY <1>1 DEF Stored, Window, Agrees, InWindow, InFlight, Missed, Writing, owned, chances
<1> QED BY <1>2, <1>3 DEF Stored

LEMMA SaveRejectedStored ==
  ASSUME TypeOK, Shape, Stored, SaveRejected
  PROVE  Stored'
<1>1. /\ UNCHANGED <<file, owned, reading, candidate, chances>> /\ run.phase \in {"saving", "landed"}
      /\ run'.phase = "verifying" /\ run'.next = run.next
  BY DEF SaveRejected, read, host, history, requests, TypeOK, Runs
<1>2. CheckRead' /\ Undisturbed' /\ Migrated' /\ Reread'
  BY <1>1 DEF Stored, CheckRead, Undisturbed, Migrated, Reread, Rereading, Checking
<1>3. Window'
  BY <1>1 DEF Stored, Window, Agrees, InWindow, InFlight, Missed, Writing, owned, chances
<1> QED BY <1>2, <1>3 DEF Stored

LEMMA VerifyTakesStored ==
  ASSUME TypeOK, Shape, Stored, VerifyTakes
  PROVE  Stored'
<1>1. PICK raw \in {file, None} : run' = [run EXCEPT !.phase = "verified", !.raw = raw]
  BY DEF VerifyTakes
<1>2. /\ UNCHANGED <<file, owned, reading, candidate, chances>> /\ run.phase = "verifying"
      /\ run'.phase = "verified" /\ run'.next = run.next /\ run'.raw \in {file, None}
  BY <1>1 DEF VerifyTakes, read, host, history, requests, TypeOK, Runs
<1>3. CheckRead' /\ Undisturbed' /\ Migrated' /\ Reread'
  BY <1>2 DEF Stored, CheckRead, Undisturbed, Migrated, Reread, Rereading, Checking
<1>4. Window'
  BY <1>2 DEF Stored, Window, Agrees, InWindow, InFlight, Missed, Writing, owned, chances
<1> QED BY <1>3, <1>4 DEF Stored

(* The end of a save. *)
LEMMA EndedStored ==
  ASSUME run'.phase = "idle", Migrated'
  PROVE  Stored'
BY DEF Stored, CheckRead, Undisturbed, Reread, Window, Agrees, Checking, Rereading, InWindow, Writing

LEMMA SavedStored ==
  ASSUME TypeOK, Writing, Stored, Saved
  PROVE  Stored'
<1>1. run'.phase = "idle"
  BY SavedIs
<1>2. candidate' # None => candidate # None /\ candidate'.raw = candidate.raw /\ candidate'.snapshot = candidate.snapshot
  BY SavedIs DEF TypeOK, Candidates
<1> QED BY <1>1, <1>2, EndedStored DEF Stored, Migrated

LEMMA SaveReturnsStored ==
  ASSUME TypeOK, Shape, Stored, SaveReturns
  PROVE  Stored'
BY SavedStored, RefusedStored DEF SaveReturns, Writing

LEMMA VerifyReturnsStored ==
  ASSUME TypeOK, Shape, Stored, VerifyReturns
  PROVE  Stored'
<1>1. Writing /\ UNCHANGED reading
  BY DEF VerifyReturns, Writing
<1>2. CASE Saved
  BY <1>1, <1>2, SavedStored
<1>3. CASE Finish(accepted) /\ UNCHANGED candidate
  BY <1>1, <1>3, NoRunIs, OutsideStored DEF Finish
<1>4. CASE /\ Finish(accepted)
           /\ candidate' = [raw |-> run.raw, snapshot |-> Normalized(run.raw), base |-> accepted, overwritten |-> FALSE]
  BY <1>4, NoRunIs, EndedStored DEF Finish, Migrated
<1> QED BY <1>2, <1>3, <1>4 DEF VerifyReturns

LEMMA ReplacedStored ==
  ASSUME TypeOK, Shape, Stored, NEW f, Replaced(f)
  PROVE  Stored'
<1>1. /\ UNCHANGED <<closed, accepted, expected, generation, reading, candidate, failedRead, writeRevision, run, beside,
                     restored, unverified>>
      /\ raced' = (raced \/ Checked) /\ overtaken' = (overtaken \/ Overtaken) /\ file' = f
  BY DEF Replaced, owned, read, write
<1>2. CheckRead' /\ Undisturbed' /\ Migrated'
  BY <1>1 DEF Stored, CheckRead, Undisturbed, Migrated, Checking, Checked
<1>3. Reread'
  <2> SUFFICES ASSUME ~Missed', ~closed, Rereading
               PROVE  /\ reading.phase = "taken" => reading.raw \in {f, None}
                      /\ InFlight => ~reading.writing /\ reading.revision = writeRevision
                      /\ candidate # None => ~candidate.overwritten
                      /\ reading.phase = "idle" /\ ~failedRead => candidate # None /\ candidate.raw = f
    BY <1>1 DEF Reread, Rereading, Checking, InFlight
  <2>1. ~Missed /\ ~Checked /\ ~Overtaken
    BY <1>1 DEF Missed
  <2>2. reading.phase = "asked"
    BY <2>1 DEF Checked, Overtaken, Rereading, Checking
  <2> QED BY <2>1, <2>2 DEF Stored, Reread, InFlight
<1>4. Window'
  BY <1>1 DEF Window, Agrees, Missed, InWindow, Writing, Checked
<1> QED BY <1>2, <1>3, <1>4 DEF Stored

LEMMA DisposeStored ==
  ASSUME TypeOK, Shape, Stored, Dispose
  PROVE  Stored'
<1>1. /\ UNCHANGED <<file, accepted, expected, reading, failedRead, writeRevision, run, chances>>
      /\ candidate' = None /\ closed' = TRUE
  BY DEF Dispose, owned, write, history, requests
<1>2. generation' # run.generation
  BY DEF Dispose, TypeOK, Runs, Shape
<1>3. CheckRead' /\ Undisturbed' /\ Migrated' /\ Reread'
  BY <1>1, <1>2 DEF Stored, CheckRead, Undisturbed, Migrated, Reread, Checking, chances
<1>4. Window'
  BY <1>1 DEF Stored, Window, Agrees, Missed, InWindow, InFlight, Writing, chances
<1> QED BY <1>3, <1>4 DEF Stored

LEMMA NextStored ==
  ASSUME TypeOK, Shape, Stored, [Next]_vars
  PROVE  Stored'
<1>1. CASE UNCHANGED vars
  BY <1>1, SameStored DEF vars, chances
<1>2. ASSUME NEW k \in Keys, NEW v \in Values, UseControl(k, v) \/ SubmitForm(k, v)
      PROVE  Stored'
  BY <1>2, UseControlIs, SubmitFormIs, SubmitsStored
<1>3. CASE JobMeetsClose
  BY <1>3, RefusedStored DEF JobMeetsClose, read
<1>4. CASE JobIsRefused
  BY <1>4, RefusedStored DEF JobIsRefused, read
<1>5. ASSUME NEW f \in Incoming, OtherWrites(f)
      PROVE  Stored'
  BY <1>5, ReplacedStored DEF OtherWrites
<1>6. CASE FileTorn
  BY <1>6, ReplacedStored DEF FileTorn
<1> QED
  BY <1>1, <1>2, <1>3, <1>4, <1>5, <1>6, NoticeStored, ReadTakesStored, ReadReturnsStored, ReadRetriesStored,
     JobAwaitsStored, JobPreparesStored, CheckTakesStored, CheckReturnsStored, JobRepreparesStored, JobCommitsStored,
     SaveLandsStored, SaveReturnsStored, SaveRejectedStored, VerifyTakesStored, VerifyReturnsStored, DisposeStored
  DEF Next

LEMMA InitStored ==
  ASSUME Init
  PROVE  Shape /\ Stored
<1>1. run.phase = "idle" /\ run.generation = 0 /\ reading.phase = "idle" /\ candidate = None
  BY DEF Init, NoRun, NoRead
<1>2. InitialFile \in Snapshots
  BY SettingsAssumption
<1>3. Shape
  BY <1>1, <1>2 DEF Init, Shape, Writing
<1>4. Stored
  BY <1>1 DEF Stored, CheckRead, Undisturbed, Reread, Window, Agrees, Migrated, Checking, Rereading, InWindow, Writing
<1> QED BY <1>3, <1>4

(* Only SaveLands stores a save. *)
LEMMA LandsOnly ==
  ASSUME TypeOK, [Next]_vars, run.phase = "saving", run'.phase = "landed"
  PROVE  SaveLands
<1>1. ~UNCHANGED run
  OBVIOUS
<1>2. run' # NoRun
  BY NoRunIs
<1>3. ~ReadEnds
  BY WokenIs DEF ReadEnds
<1>4. ~SaveRejected
  BY DEF SaveRejected, TypeOK, Runs
<1> QED
  BY <1>1, <1>2, <1>3, <1>4
  DEF Next, vars, UseControl, SubmitForm, Notice, ReadTakes, ReadReturns, ReadRetries, ReadAgain, JobAwaits, JobPrepares,
      JobMeetsClose, CheckTakes, CheckReturns, JobReprepares, JobIsRefused, JobCommits, SaveReturns, VerifyTakes,
      VerifyReturns, OtherWrites, FileTorn, Replaced, Dispose, write, Refused, Finish

(* The step that stores a save finds the file as the save's check or       *)
(* reread left it, and stores nothing but the job's own keys upon it       *)
(* (prepare(), assertCurrent(), commit()).                                 *)
LEMMA LandingIs ==
  ASSUME TypeOK, Shape, Stored, [Next]_vars, Landing, ~Missed
  PROVE  file # Torn /\ OthersKept
<1>1. run.phase = "saving" /\ run'.phase = "landed" /\ queue # <<>>
  BY DEF Landing, TypeOK
<1>2. file' = run.next
  <2>1. SaveLands
    BY <1>1, LandsOnly
  <2> QED BY <2>1 DEF SaveLands
<1>3. file = expected /\ Agrees(accepted, file) /\ file \in Snapshots
  BY <1>1 DEF Stored, Window, Agrees, InWindow, Writing, TypeOK
<1>4. run.next = Rebased(JobEdits)
  BY <1>1 DEF Shape, Writing
<1>5. /\ DOMAIN JobEdits \subseteq DOMAIN Job.edits \cup DOMAIN Job.entry
      /\ \A k \in Keys \ DOMAIN JobEdits : Rebased(JobEdits)[k] = accepted[k]
  BY <1>1, JobEditsAre
<1>6. \A k \in Keys : accepted[k] \in {file[k], Normal[file[k]]}
  BY <1>3 DEF Agrees
<1> QED BY <1>2, <1>3, <1>4, <1>5, <1>6, Apart DEF OthersKept

THEOREM SettingsSavesRebased == Spec => SavesRebased
<1>1. Init => TypeOK /\ Shape /\ Stored
  BY InitTypes, InitStored
<1>2. TypeOK /\ Shape /\ Stored /\ [Next]_vars => (TypeOK /\ Shape /\ Stored)'
  BY NextTypes, NextShape, NextStored
<1>3. TypeOK /\ Shape /\ Stored /\ [Next]_vars => [Landing /\ ~Missed => file # Torn /\ OthersKept]_vars
  BY LandingIs
<1> QED BY <1>1, <1>2, <1>3, PTL DEF Spec, SavesRebased
(***************************************************************************)
(* Settled: as long as nothing else was submitted, the window only ever    *)
(* shows, agrees on and queues values that migration leaves alone.         *)
(***************************************************************************)
Settled(s) == \A k \in DOMAIN s : Normal[s[k]] = s[k]
SettledJobs(jobs) == \A i \in DOMAIN jobs : Settled(jobs[i].edits) /\ Settled(jobs[i].entry)
AllSettled == Settled(accepted) /\ Settled(live) /\ Settled(cursor) /\ SettledJobs(queue)

LEMMA RewrittenStays ==
  ASSUME [Next]_vars, ~rewritten'
  PROVE  ~rewritten
<1>1. CASE UNCHANGED requests
  BY <1>1 DEF requests
<1>2. ASSUME NEW k \in Keys, NEW v \in Values, UseControl(k, v) \/ SubmitForm(k, v)
      PROVE  ~rewritten
  BY <1>2 DEF UseControl, SubmitForm
<1> QED
  BY <1>1, <1>2
  DEF Next, vars, requests, history, Notice, ReadTakes, ReadReturns, ReadRetries, JobAwaits, JobPrepares, JobMeetsClose,
      CheckTakes, CheckReturns, JobReprepares, JobIsRefused, JobCommits, SaveLands, SaveReturns, SaveRejected, VerifyTakes,
      VerifyReturns, OtherWrites, FileTorn, Replaced, Dispose

LEMMA MergedAt ==
  ASSUME NEW c \in Candidates, accepted \in Snapshots, NEW k \in Keys
  PROVE  Merged(c)[k] = IF c.overwritten /\ c.base[k] = c.snapshot[k] THEN accepted[k] ELSE c.snapshot[k]
<1>1. c.base \in Snapshots /\ c.snapshot \in Snapshots
  BY DEF Candidates
<1> DEFINE theirs == DOMAIN EditsBetween(c.base, c.snapshot)
           ours == EditsBetween(c.base, accepted)
           mine == Restrict(ours, DOMAIN ours \ theirs)
<1>2. theirs = {l \in Keys : c.base[l] # c.snapshot[l]}
  BY <1>1, BetweenIs
<1>3. ours \in Edits /\ DOMAIN ours = {l \in Keys : c.base[l] # accepted[l]} /\ \A l \in DOMAIN ours : ours[l] = accepted[l]
  BY <1>1, BetweenIs
<1>4. Merged(c) = IF c.overwritten THEN Applied(c.snapshot, mine) ELSE c.snapshot
  BY DEF Merged
<1> HIDE DEF theirs, ours
<1>5. mine \in Edits /\ DOMAIN mine = DOMAIN ours \ theirs /\ \A l \in DOMAIN mine : mine[l] = ours[l]
  BY <1>3, RestrictedIs
<1> HIDE DEF mine
<1>6. Applied(c.snapshot, mine)[k] = IF k \in DOMAIN mine THEN mine[k] ELSE c.snapshot[k]
  BY <1>1, <1>5, AppliedIs
<1> QED BY <1>2, <1>3, <1>4, <1>5, <1>6

LEMMA SnapshotDomain ==
  ASSUME NEW s \in Snapshots
  PROVE  DOMAIN s = Keys
BY DEF Snapshots

LEMMA NormalizedSettled ==
  ASSUME NEW raw \in Snapshots
  PROVE  Settled(Normalized(raw))
<1>1. \A k \in Keys : raw[k] \in Values
  BY DEF Snapshots
<1>2. \A v \in Values : Normal[Normal[v]] = Normal[v]
  BY SettingsAssumption
<1>3. DOMAIN Normalized(raw) = Keys /\ \A k \in Keys : Normalized(raw)[k] = Normal[raw[k]]
  BY NormalizedIs, SnapshotDomain
<1> QED BY <1>1, <1>2, <1>3 DEF Settled

LEMMA SettledStays ==
  ASSUME NEW s \in Snapshots, Settled(s)
  PROVE  Normalized(s) = s
<1>1. \A k \in Keys : Normalized(s)[k] = s[k]
  BY NormalizedIs, SnapshotDomain DEF Settled
<1> QED BY <1>1, NormalizedIs, SameSnapshot

LEMMA AgreesSettled ==
  ASSUME NEW s \in Snapshots, NEW raw \in Snapshots, Agrees(s, raw), Settled(s)
  PROVE  s = Normalized(raw)
<1>1. \A k \in Keys : Normal[s[k]] = s[k] /\ s[k] \in {raw[k], Normal[raw[k]]}
  BY SnapshotDomain DEF Agrees, Settled
<1>2. \A k \in Keys : s[k] = Normalized(raw)[k]
  BY <1>1, NormalizedIs
<1> QED BY <1>2, NormalizedIs, SameSnapshot

LEMMA VisibleSettled ==
  ASSUME NEW s \in Snapshots, NEW epochs \in [Keys -> Nat], NEW jobs \in Seq(Jobs), Settled(s), SettledJobs(jobs)
  PROVE  Settled(Visible(s, epochs, jobs))
<1>1. DOMAIN Visible(s, epochs, jobs) = Keys /\ DOMAIN s = Keys
  BY VisibleIs, SnapshotDomain
<1>2. ASSUME NEW k \in Keys, NEW i \in Owning(epochs, jobs, k)
      PROVE  Normal[jobs[i].edits[k]] = jobs[i].edits[k]
  BY DEF Owning, Current, SettledJobs, Settled
<1>3. ASSUME NEW k \in Keys
      PROVE  Normal[Visible(s, epochs, jobs)[k]] = Visible(s, epochs, jobs)[k]
  BY <1>1, <1>2, VisibleIs DEF Settled
<1> QED BY <1>1, <1>3 DEF Settled

LEMMA AppliedSettled ==
  ASSUME NEW s \in Snapshots, NEW e \in Edits, Settled(s), Settled(e)
  PROVE  Settled(Applied(s, e))
BY AppliedIs, SnapshotDomain DEF Settled

LEMMA AdoptSettled ==
  ASSUME TypeOK, AllSettled, NEW c \in Candidates, Settled(c.snapshot), Adopt(c)
  PROVE  Settled(accepted') /\ Settled(live') /\ Settled(cursor')
<1>1. accepted \in Snapshots /\ queue \in Seq(Jobs)
  BY DEF TypeOK
<1>2. /\ Merged(c) \in Snapshots /\ accepted' = Merged(c) /\ versions' \in [Keys -> Nat]
      /\ \/ UNCHANGED <<live, cursor>>
         \/ cursor' = Visible(Merged(c), versions', queue) /\ live' = Normalized(cursor')
  BY <1>1, MergedIs, AdoptIs
<1>3. DOMAIN c.snapshot = Keys /\ DOMAIN accepted = Keys /\ DOMAIN Merged(c) = Keys
  BY <1>1, <1>2, SnapshotDomain DEF Candidates
<1>4. Settled(Merged(c))
  <2>1. \A k \in Keys : Normal[accepted[k]] = accepted[k] /\ Normal[c.snapshot[k]] = c.snapshot[k]
    BY <1>3 DEF AllSettled, Settled
  <2>2. \A k \in Keys : Merged(c)[k] = accepted[k] \/ Merged(c)[k] = c.snapshot[k]
    BY <1>1, MergedAt
  <2> QED BY <1>3, <2>1, <2>2 DEF Settled
<1>5. Settled(Visible(Merged(c), versions', queue))
  BY <1>1, <1>2, <1>4, VisibleSettled DEF AllSettled
<1>6. cursor' \in Snapshots
  BY AdoptIs
<1>7. CASE UNCHANGED <<live, cursor>>
  BY <1>2, <1>4, <1>7 DEF AllSettled
<1>8. CASE cursor' = Visible(Merged(c), versions', queue) /\ live' = Normalized(cursor')
  <2>1. live' = cursor'
    BY <1>5, <1>6, <1>8, SettledStays
  <2> QED BY <1>2, <1>4, <1>5, <1>8, <2>1
<1> QED BY <1>2, <1>7, <1>8

LEMMA TailSettled ==
  ASSUME TypeOK, AllSettled, queue # <<>>
  PROVE  SettledJobs(Tail(queue)) /\ Settled(Job.edits) /\ Settled(Job.entry)
<1>1. queue \in Seq(Jobs) /\ Len(queue) \in Nat /\ Len(queue) > 0 /\ DOMAIN queue = 1 .. Len(queue)
  BY EmptySeq, LenProperties DEF TypeOK
<1>2. /\ Len(Tail(queue)) = Len(queue) - 1 /\ \A i \in 1 .. Len(Tail(queue)) : Tail(queue)[i] = queue[i + 1]
      /\ DOMAIN Tail(queue) = 1 .. Len(Tail(queue)) /\ Head(queue) = queue[1]
  BY <1>1, HeadTailProperties, LenProperties
<1>3. SettledJobs(Tail(queue))
  <2> SUFFICES ASSUME NEW i \in DOMAIN Tail(queue)
               PROVE  Settled(Tail(queue)[i].edits) /\ Settled(Tail(queue)[i].entry)
    BY DEF SettledJobs
  <2>1. i + 1 \in DOMAIN queue /\ Tail(queue)[i] = queue[i + 1]
    BY <1>1, <1>2
  <2> QED BY <2>1 DEF AllSettled, SettledJobs
<1>4. 1 \in DOMAIN queue
  BY <1>1
<1> QED BY <1>2, <1>3, <1>4 DEF AllSettled, SettledJobs, Job

LEMMA AppendSettled ==
  ASSUME TypeOK, AllSettled, NEW j \in Jobs, Settled(j.edits), Settled(j.entry)
  PROVE  SettledJobs(Append(queue, j))
<1>1. queue \in Seq(Jobs) /\ Len(queue) \in Nat /\ DOMAIN queue = 1 .. Len(queue)
  BY LenProperties DEF TypeOK
<1>2. /\ DOMAIN Append(queue, j) = 1 .. Len(queue) + 1
      /\ \A i \in 1 .. Len(queue) : Append(queue, j)[i] = queue[i]
      /\ Append(queue, j)[Len(queue) + 1] = j
  BY <1>1, AppendProperties
<1> SUFFICES ASSUME NEW i \in DOMAIN Append(queue, j)
             PROVE  Settled(Append(queue, j)[i].edits) /\ Settled(Append(queue, j)[i].entry)
  BY DEF SettledJobs
<1>3. CASE i = Len(queue) + 1
  BY <1>2, <1>3
<1>4. CASE i \in 1 .. Len(queue)
  BY <1>1, <1>2, <1>4 DEF AllSettled, SettledJobs
<1> QED BY <1>1, <1>2, <1>3, <1>4

LEMMA ScheduledSettled ==
  ASSUME TypeOK, AllSettled
  PROVE  SettledJobs(Scheduled)
<1>1. Settled(AdoptJob.edits) /\ Settled(AdoptJob.entry)
  BY NoEditsAre DEF AdoptJob, Settled
<1>2. SettledJobs(Append(queue, AdoptJob))
  BY <1>1, AdoptJobIs, AppendSettled
<1> QED BY <1>2 DEF Scheduled, AllSettled

LEMMA SubmitsSettled ==
  ASSUME TypeOK, AllSettled, ~rewritten', NEW j, NEW k \in Keys, NEW v \in Values, Submits(j, k, v)
  PROVE  AllSettled'
<1>1. j \in Jobs /\ queue' = Append(queue, j) /\ live' \in Snapshots /\ cursor' = live' /\ UNCHANGED accepted
  BY DEF Submits
<1>2. Normal[v] = v
  BY DEF Submits
<1>3. live \in Snapshots /\ DOMAIN live = Keys /\ cursor \in Snapshots
  BY SnapshotDomain DEF TypeOK
<1>4. Settled(live')
  BY <1>2, <1>3 DEF Submits, AllSettled, Settled
<1>5. Settled(j.edits)
  <2>1. j.edits = EditsBetween(cursor, live')
    BY DEF Submits
  <2>2. DOMAIN EditsBetween(cursor, live') \subseteq DOMAIN live'
    <3>1. DOMAIN EditsBetween(cursor, live') = {l \in Keys : cursor[l] # live'[l]}
      BY <1>1, <1>3, BetweenIs
    <3>2. DOMAIN live' = Keys
      BY <1>1, SnapshotDomain
    <3> QED BY <3>1, <3>2
  <2>3. \A l \in DOMAIN EditsBetween(cursor, live') : EditsBetween(cursor, live')[l] = live'[l]
    BY <1>1, <1>3, BetweenIs
  <2> QED BY <1>4, <2>1, <2>2, <2>3 DEF Settled
<1>6. Settled(j.entry)
  BY <1>2, NoEditsAre DEF Submits, Settled
<1>7. SettledJobs(queue')
  BY <1>1, <1>5, <1>6, AppendSettled
<1> QED BY <1>1, <1>4, <1>7 DEF AllSettled

LEMMA RebasedSettled ==
  ASSUME TypeOK, AllSettled, queue # <<>>
  PROVE  Settled(Rebased(JobEdits))
<1>1. Settled(Job.edits) /\ Settled(Job.entry) /\ DOMAIN accepted = Keys /\ Settled(accepted)
  BY TailSettled, SnapshotDomain DEF AllSettled, TypeOK
<1>2. DOMAIN Rebased(JobEdits) = Keys
  BY JobEditsAre, SnapshotDomain
<1>3. \A k \in Keys : Rebased(JobEdits)[k] = IF Entered(k) THEN Job.entry[k]
                                           ELSE IF k \in DOMAIN Job.edits THEN Job.edits[k] ELSE accepted[k]
  BY JobEditsAre
<1> QED BY <1>1, <1>2, <1>3 DEF Settled, Entered

(* What a job stores when migration leaves it alone. *)
LEMMA SettledEditsAre ==
  ASSUME TypeOK, AllSettled, queue # <<>>
  PROVE  /\ \A k \in DOMAIN JobEdits :
              JobEdits[k] = IF k \in DOMAIN Job.entry THEN Job.entry[k] ELSE Job.edits[k]
         /\ \A k \in Keys :
              Rebased(JobEdits)[k] = IF k \in DOMAIN Job.entry THEN Job.entry[k]
                                     ELSE IF k \in DOMAIN Job.edits THEN Job.edits[k] ELSE accepted[k]
<1>1. \A k \in DOMAIN Job.edits : Normal[Job.edits[k]] = Job.edits[k]
  BY TailSettled DEF Settled
<1>2. \A k \in Keys : Normal[accepted[k]] = accepted[k]
  BY SnapshotDomain DEF AllSettled, Settled, TypeOK
<1>3. \A k \in Keys : View[k] = IF k \in DOMAIN Job.edits THEN Job.edits[k] ELSE accepted[k]
  BY <1>1, <1>2, ViewIs
<1>4. DOMAIN Job.edits \subseteq Keys /\ DOMAIN Job.entry \subseteq Keys
  BY JobIs, EditsAre
<1>5. \A k \in DOMAIN JobEdits : JobEdits[k] = IF k \in DOMAIN Job.entry THEN Job.entry[k] ELSE Job.edits[k]
  BY <1>3, <1>4, JobEditsAre DEF Entered
<1>6. \A k \in Keys :
        Rebased(JobEdits)[k] = IF k \in DOMAIN Job.entry THEN Job.entry[k]
                               ELSE IF k \in DOMAIN Job.edits THEN Job.edits[k] ELSE accepted[k]
  BY <1>3, JobEditsAre DEF Entered
<1> QED BY <1>5, <1>6

LEMMA AdoptCandidateSettled ==
  ASSUME TypeOK, AllSettled, Migrated, AdoptCandidate
  PROVE  Settled(accepted') /\ Settled(live') /\ Settled(cursor')
<1>1. CASE candidate = None
  BY <1>1, AdoptCandidateIs DEF owned, AllSettled
<1>2. CASE candidate # None
  <2>1. candidate \in Candidates /\ Adopt(candidate)
    BY <1>2, AdoptCandidateIs
  <2>2. Settled(candidate.snapshot)
    BY <1>2, <2>1, NormalizedSettled DEF Migrated, Candidates
  <2> QED BY <2>1, <2>2, AdoptSettled
<1> QED BY <1>1, <1>2

LEMMA SavedSettled ==
  ASSUME TypeOK, Shape, AllSettled, Writing, Saved
  PROVE  AllSettled'
<1>1. queue # <<>>
  BY DEF TypeOK, Writing
<1>2. Settled(run.next)
  BY <1>1, RebasedSettled DEF Shape
<1>3. Settled(Applied(live, Job.entry))
  BY <1>1, JobIs, TailSettled, AppliedSettled DEF AllSettled, TypeOK
<1>4. Settled(Visible(run.next, versions, Tail(queue)))
  BY <1>1, <1>2, JobIs, TailSettled, VisibleSettled DEF TypeOK
<1> QED BY <1>1, <1>2, <1>3, <1>4, SavedIs, TailSettled DEF AllSettled

LEMMA FinishSettled ==
  ASSUME TypeOK, AllSettled, queue # <<>>, Finish(accepted), UNCHANGED <<live, accepted>>
  PROVE  AllSettled'
<1>1. Settled(Visible(accepted, versions, Tail(queue)))
  BY JobIs, TailSettled, VisibleSettled DEF AllSettled, TypeOK
<1> QED BY <1>1, TailSettled DEF AllSettled, Finish

LEMMA ReadEndsSettled ==
  ASSUME TypeOK, AllSettled, ReadEnds, UNCHANGED <<live, accepted, cursor>>
  PROVE  AllSettled'
BY ScheduledSettled DEF AllSettled, ReadEnds

LEMMA NextSettled ==
  ASSUME TypeOK, Shape, Stored, AllSettled, [Next]_vars, ~rewritten'
  PROVE  AllSettled'
<1>0. ASSUME UNCHANGED <<live, accepted, cursor, queue>>
      PROVE  AllSettled'
  BY <1>0 DEF AllSettled
<1>1. CASE UNCHANGED vars
  BY <1>0, <1>1 DEF vars
<1>2. ASSUME NEW k \in Keys, NEW v \in Values, UseControl(k, v) \/ SubmitForm(k, v)
      PROVE  AllSettled'
  BY <1>2, UseControlIs, SubmitFormIs, SubmitsSettled
<1>3. CASE ReadReturns
  BY <1>0, <1>3, ReadEndsSettled DEF ReadReturns, ReadAgain, owned
<1>4. CASE ReadRetries
  BY <1>0, <1>4, ReadEndsSettled DEF ReadRetries, ReadAgain, owned
<1>5. CASE JobPrepares
  <2>1. Settled(accepted') /\ Settled(live') /\ Settled(cursor') /\ queue # <<>>
    BY <1>5, AdoptCandidateSettled DEF JobPrepares, Stored, TypeOK
  <2> QED BY <1>5, <2>1, TailSettled DEF AllSettled, JobPrepares
<1>6. CASE JobMeetsClose
  BY <1>6, FinishSettled DEF JobMeetsClose, Refused, TypeOK
<1>7. CASE JobIsRefused
  BY <1>7, FinishSettled DEF JobIsRefused, Refused, TypeOK
<1>8. CASE CheckReturns
  <2>1. CASE Refused
    BY <1>8, <2>1, FinishSettled DEF CheckReturns, Refused, TypeOK
  <2>2. CASE /\ run.raw \notin {None, Torn, expected}
             /\ Adopt([raw |-> run.raw, snapshot |-> Normalized(run.raw), base |-> accepted, overwritten |-> FALSE])
             /\ UNCHANGED queue
    <3> DEFINE c == [raw |-> run.raw, snapshot |-> Normalized(run.raw), base |-> accepted, overwritten |-> FALSE]
    <3>1. c \in Candidates /\ c.snapshot = Normalized(run.raw) /\ run.raw \in Snapshots
      BY <2>2, CheckedIs
    <3>2. Settled(c.snapshot)
      BY <3>1, NormalizedSettled
    <3>3. Adopt(c)
      BY <2>2
    <3> HIDE DEF c
    <3> QED BY <2>2, <3>1, <3>2, <3>3, AdoptSettled DEF AllSettled
  <2> QED BY <1>0, <1>8, <2>1, <2>2 DEF CheckReturns, owned
<1>9. CASE JobReprepares
  BY <1>9, AdoptCandidateSettled DEF AllSettled, JobReprepares, Stored
<1>10. CASE JobCommits
  BY <1>0, <1>10, FinishSettled DEF JobCommits, Refused, TypeOK, owned
<1>11. CASE SaveReturns
  BY <1>11, FinishSettled, SavedSettled DEF SaveReturns, Refused, TypeOK, Writing
<1>12. CASE VerifyReturns
  BY <1>12, FinishSettled, SavedSettled DEF VerifyReturns, TypeOK, Writing
<1>13. CASE Notice \/ ReadTakes \/ JobAwaits \/ CheckTakes \/ SaveLands \/ SaveRejected \/ VerifyTakes \/ FileTorn \/ Dispose
  BY <1>0, <1>13 DEF Notice, ReadTakes, JobAwaits, CheckTakes, SaveLands, SaveRejected, VerifyTakes, FileTorn, Replaced,
                     Dispose, owned, write
<1>14. ASSUME NEW f \in Incoming, OtherWrites(f)
       PROVE  AllSettled'
  BY <1>0, <1>14 DEF OtherWrites, Replaced, owned, write
<1> QED BY <1>1, <1>2, <1>3, <1>4, <1>5, <1>6, <1>7, <1>8, <1>9, <1>10, <1>11, <1>12, <1>13, <1>14 DEF Next

LEMMA InitSettled ==
  ASSUME Init
  PROVE  AllSettled
<1>1. InitialFile \in Snapshots
  BY SettingsAssumption
<1>2. Settled(Normalized(InitialFile))
  BY <1>1, NormalizedSettled
<1> QED BY <1>2 DEF Init, AllSettled, SettledJobs
(***************************************************************************)
(* Counted: a key's remote epoch lags behind what others changed by at     *)
(* least the changes that are still to be adopted.  What is under way is a *)
(* chain: the snapshot agreed on (the save's, once it is stored), what the *)
(* candidate will make of it, what the read beside the queue will, and the *)
(* file itself.                                                            *)
(***************************************************************************)
Whole == Normalized(content)
Agreed == IF Writing /\ file = run.next THEN run.next ELSE accepted

News(overwritten, base, snapshot, before, k) ==
  IF overwritten /\ base[k] = snapshot[k] THEN before ELSE snapshot[k]

Late == candidate.overwritten \/ (Writing /\ candidate.raw # run.next)
Expects(k) == IF candidate = None THEN Agreed[k]
              ELSE News(Late, candidate.base, candidate.snapshot, Agreed[k], k)

LateRead == reading.writing \/ Writing \/ reading.revision # writeRevision
Taken == reading.phase = "taken" /\ reading.raw \notin {None, Torn}
ReadsOn(k) == IF Taken THEN News(LateRead, reading.base, Normalized(reading.raw), Expects(k), k) ELSE Expects(k)

Differs(a, b) == IF a = b THEN 0 ELSE 1
Behind(k) == Differs(Agreed[k], Expects(k)) + Differs(Expects(k), ReadsOn(k)) + Differs(ReadsOn(k), Whole[k])
CaughtUp == \A k \in Keys : Agreed[k] = Whole[k] /\ Expects(k) = Whole[k] /\ ReadsOn(k) = Whole[k]

Counted ==
  ~Missed => \A k \in Keys : versions[k] <= foreign[k] /\ (~closed => versions[k] + Behind(k) <= foreign[k])

(* A read that a save overtakes knows it by the revision of the writes.    *)
Revised ==
  InFlight => reading.revision <= writeRevision /\ (Writing => reading.writing \/ reading.revision # writeRevision)

(* In the window nothing is left to adopt. *)
LEMMA WindowCaughtUp ==
  TypeOK /\ Shape /\ Stored /\ AllSettled /\ ~Missed /\ InWindow => CaughtUp
<1> SUFFICES ASSUME TypeOK, Shape, Stored, AllSettled, ~Missed, InWindow
             PROVE  CaughtUp
  OBVIOUS
<1>1. /\ accepted = Normalized(expected) /\ file \in {expected, run.next}
      /\ run.phase \in {"prepared", "saving"} => file = expected
      /\ candidate # None => candidate.base = accepted /\ candidate.raw \in {expected, file}
                             /\ candidate.snapshot = Normalized(candidate.raw)
      /\ Taken => reading.base = accepted /\ reading.raw \in {expected, file}
  <2>1. Agrees(accepted, expected)
    BY DEF Stored, Window
  <2>2. accepted = Normalized(expected)
    BY <2>1, AgreesSettled DEF AllSettled, TypeOK
  <2> QED BY <2>2 DEF Stored, Window, Migrated, InFlight, Taken
<1>2. expected \in Snapshots /\ queue # <<>> /\ (Writing => run.next \in Snapshots)
  BY DEF TypeOK, InWindow, Writing
<1>3. Writing => Settled(run.next) /\ Normalized(run.next) = run.next
  BY <1>2, RebasedSettled, SettledStays DEF Shape
<1>4. file = content /\ file \in Snapshots
  <2>1. file = expected \/ Writing
    BY <1>1 DEF InWindow
  <2>2. file \in Snapshots
    BY <1>1, <1>2, <2>1
  <2> QED BY <2>2, Apart DEF Shape
<1>5. Agreed = Whole
  <2>1. CASE Writing /\ file = run.next
    BY <1>3, <1>4, <2>1 DEF Agreed, Whole
  <2>2. CASE ~(Writing /\ file = run.next)
    <3>1. file = expected
      BY <1>1, <2>2 DEF InWindow
    <3> QED BY <1>1, <1>4, <2>2, <3>1 DEF Agreed, Whole
  <2> QED BY <2>1, <2>2
<1>6. ASSUME NEW k \in Keys
      PROVE  Expects(k) = Whole[k]
  <2>1. CASE candidate = None
    BY <1>5, <2>1 DEF Expects
  <2>2. CASE candidate # None /\ candidate.raw = file
    BY <1>1, <1>4, <1>5, <2>2 DEF Expects, News, Whole
  <2>3. CASE candidate # None /\ candidate.raw # file
    <3>1. candidate.raw = expected /\ expected # file
      BY <1>1, <2>3
    <3>2. Writing /\ file = run.next
      BY <1>1, <3>1 DEF InWindow
    <3>3. Late /\ candidate.snapshot = accepted /\ candidate.base = accepted
      BY <1>1, <2>3, <3>1, <3>2 DEF Late
    <3> QED BY <1>5, <2>3, <3>3 DEF Expects, News
  <2> QED BY <2>1, <2>2, <2>3
<1>7. ASSUME NEW k \in Keys
      PROVE  ReadsOn(k) = Whole[k]
  <2>1. CASE ~Taken
    BY <1>6, <2>1 DEF ReadsOn
  <2>2. CASE Taken /\ reading.raw = file
    BY <1>4, <1>6, <2>2 DEF ReadsOn, News, Whole
  <2>3. CASE Taken /\ reading.raw # file
    <3>1. reading.raw = expected /\ expected # file
      BY <1>1, <2>3
    <3>2. Writing
      BY <1>1, <3>1 DEF InWindow
    <3>3. LateRead /\ Normalized(reading.raw) = accepted /\ reading.base = accepted
      BY <1>1, <2>3, <3>1, <3>2 DEF LateRead
    <3> QED BY <1>6, <2>3, <3>3 DEF ReadsOn, News
  <2> QED BY <2>1, <2>2, <2>3
<1> QED BY <1>5, <1>6, <1>7 DEF CaughtUp

LEMMA WindowAccepted ==
  ASSUME TypeOK, Shape, Stored, AllSettled, ~Missed, run.phase \in {"prepared", "saving"}
  PROVE  accepted = Whole
<1>1. Agrees(accepted, expected) /\ file = expected /\ expected \in Snapshots
  BY DEF Stored, Window, InWindow, Writing, TypeOK
<1>2. accepted = Normalized(expected)
  BY <1>1, AgreesSettled DEF AllSettled, TypeOK
<1>3. file = content
  BY <1>1, Apart DEF Shape
<1> QED BY <1>1, <1>2, <1>3 DEF Whole

LEMMA WindowCaughtUpNext ==
  ASSUME (TypeOK /\ Shape /\ Stored /\ AllSettled /\ ~Missed /\ InWindow)'
  PROVE  CaughtUp'
BY WindowCaughtUp, PTL
LEMMA NextRevised ==
  ASSUME TypeOK, Shape, Revised, [Next]_vars
  PROVE  Revised'
<1>0. writeRevision \in Nat /\ (InFlight => reading.revision \in Nat)
  BY DEF TypeOK, Readings
<1>1. ASSUME UNCHANGED <<reading, writeRevision>>, Writing' => Writing
      PROVE  Revised'
  BY <1>1 DEF Revised, InFlight
<1>2. ASSUME UNCHANGED <<reading, writeRevision>>, \E p \in {"awaiting", "checking", "checked", "refused", "prepared", "idle"} : run'.phase = p
      PROVE  Revised'
  BY <1>1, <1>2 DEF Writing
<1>3. ASSUME UNCHANGED <<writeRevision>>, Writing' = Writing, reading'.phase \in {"idle", "waiting"} \/ NewRead
      PROVE  Revised'
  BY <1>0, <1>3 DEF Revised, InFlight, NewRead
<1>4. CASE UNCHANGED vars
  BY <1>1, <1>4 DEF vars, Writing
<1>5. ASSUME NEW k \in Keys, NEW v \in Values, UseControl(k, v) \/ SubmitForm(k, v)
      PROVE  Revised'
  BY <1>1, <1>5, UseControlIs, SubmitFormIs DEF Submits, read, Writing
<1>6. CASE Notice
  <2>1. UNCHANGED <<run, writeRevision>> /\ Writing' = Writing
    BY <1>6 DEF Notice, write, Writing
  <2>2. UNCHANGED reading \/ NewRead
    BY <1>6, NoticeAsks DEF Notice, read, NewRead
  <2> QED BY <2>1, <2>2, <1>1, <1>3
<1>7. CASE ReadTakes
  <2>1. /\ UNCHANGED <<run, writeRevision>> /\ reading.phase = "asked"
        /\ reading'.revision = reading.revision /\ reading'.writing = reading.writing
    BY <1>7 DEF ReadTakes, write, TypeOK, Readings
  <2> QED BY <2>1 DEF Revised, InFlight, Writing
<1>8. CASE ReadReturns \/ ReadRetries
  <2>1. UNCHANGED writeRevision
    BY <1>8 DEF ReadReturns, ReadRetries
  <2>2. CASE ReadEnds
    BY <1>3, <2>1, <2>2, ReadEndsIs
  <2>3. CASE ReadAgain /\ reading.attempt < Attempts
    BY <1>3, <2>1, <2>3, ReadAgainIs DEF Writing
  <2>4. CASE reading' = [NoRead EXCEPT !.phase = "waiting", !.attempt = reading.attempt] /\ UNCHANGED run
    <3>1. reading'.phase = "waiting" /\ Writing' = Writing
      BY <2>4, NoReadIs DEF Readings, Writing
    <3> QED BY <1>3, <2>1, <3>1
  <2> QED BY <1>8, <2>2, <2>3, <2>4 DEF ReadReturns, ReadRetries, TypeOK
<1>9. CASE JobAwaits
  BY <1>1, <1>9, RunPhase DEF JobAwaits, read, Writing
<1>10. CASE JobPrepares
  <2>1. run'.phase \in {"idle", "checking"} /\ UNCHANGED <<reading, writeRevision>>
    BY <1>10, NoRunIs DEF JobPrepares, TypeOK, Runs
  <2> QED BY <1>2, <2>1
<1>11. ASSUME Refused, UNCHANGED <<reading, writeRevision>>
       PROVE  Revised'
  BY <1>2, <1>11, NoRunIs DEF Refused, Finish
<1>12. CASE JobMeetsClose \/ JobIsRefused
  BY <1>11, <1>12 DEF JobMeetsClose, JobIsRefused, read
<1>13. CASE CheckTakes
  BY <1>1, <1>13 DEF CheckTakes, read, Writing, TypeOK, Runs
<1>14. CASE CheckReturns
  BY <1>1, <1>11, <1>14, RunPhase DEF CheckReturns, Writing
<1>15. CASE JobReprepares
  BY <1>1, <1>15, RunPhase DEF JobReprepares, Writing
<1>16. CASE JobCommits
  <2>1. CASE writeRevision' = writeRevision + 1
    BY <1>0, <1>16, <2>1 DEF Revised, InFlight, JobCommits, read
  <2> QED BY <1>11, <1>16, <2>1 DEF JobCommits, read
<1>17. CASE SaveLands \/ SaveRejected \/ VerifyTakes
  BY <1>1, <1>17 DEF SaveLands, SaveRejected, VerifyTakes, read, Writing
<1>18. CASE SaveReturns \/ VerifyReturns
  <2>1. run'.phase = "idle" /\ UNCHANGED <<reading, writeRevision>>
    BY <1>18, NoRunIs DEF SaveReturns, VerifyReturns, Saved, Refused, Finish
  <2> QED BY <1>2, <2>1
<1>19. ASSUME NEW f \in Incoming, OtherWrites(f)
       PROVE  Revised'
  BY <1>1, <1>19 DEF OtherWrites, Replaced, read, write, Writing
<1>20. CASE FileTorn \/ Dispose
  BY <1>1, <1>20 DEF FileTorn, Replaced, Dispose, read, write, Writing
<1> QED
  BY <1>4, <1>5, <1>6, <1>7, <1>8, <1>9, <1>10, <1>12, <1>13, <1>14, <1>15, <1>16, <1>17, <1>18, <1>19, <1>20 DEF Next

(* What a chain of changes adds up to. *)
LEMMA Chains ==
  /\ \A a, b : Differs(a, b) \in {0, 1} /\ (Differs(a, b) = 0 <=> a = b)
  /\ \A a, b, c : Differs(a, c) <= Differs(a, b) + Differs(b, c)
BY DEF Differs

LEMMA BehindNat ==
  ASSUME NEW k
  PROVE  Behind(k) \in Nat /\ Differs(Agreed[k], Whole[k]) <= Behind(k)
BY Chains DEF Behind, Differs

LEMMA ChainSame ==
  ASSUME UNCHANGED <<file, content, accepted, candidate, writeRevision>>, Writing' <=> Writing,
         Writing => run'.next = run.next,
         UNCHANGED reading \/ (~Taken /\ ~Taken')
  PROVE  \A k \in Keys : Behind(k)' = Behind(k)
<1>1. Whole' = Whole /\ Agreed' = Agreed
  BY DEF Whole, Agreed
<1>2. ASSUME NEW k \in Keys
      PROVE  Expects(k)' = Expects(k)
  BY <1>1 DEF Expects, Late
<1>3. ASSUME NEW k \in Keys
      PROVE  ReadsOn(k)' = ReadsOn(k)
  BY <1>2 DEF ReadsOn, LateRead, Taken
<1> QED BY <1>1, <1>2, <1>3 DEF Behind

(* A step that changes no epoch and lengthens no chain. *)
LEMMA CountedStays ==
  ASSUME Counted, UNCHANGED <<versions, foreign>>, Missed => Missed', closed => closed',
         ~Missed' /\ ~closed' => \A k \in Keys : Behind(k)' <= Behind(k),
         versions \in [Keys -> Nat], foreign \in [Keys -> Nat]
  PROVE  Counted'
<1> SUFFICES ASSUME ~Missed', NEW k \in Keys
             PROVE  versions[k] <= foreign[k] /\ (~closed' => versions[k] + Behind(k)' <= foreign[k])
  BY DEF Counted
<1>1. versions[k] \in Nat /\ foreign[k] \in Nat /\ Behind(k) \in Nat
  BY BehindNat
<1>2. Behind(k)' \in Nat
  BY DEF Behind, Differs
<1>3. versions[k] <= foreign[k] /\ (~closed => versions[k] + Behind(k) <= foreign[k])
  BY DEF Counted
<1> QED BY <1>1, <1>2, <1>3
(* What is adopted was the next link of the chain. *)
LEMMA AdoptExpected ==
  ASSUME TypeOK, AdoptCandidate, ~Writing, NEW k \in Keys
  PROVE  /\ accepted'[k] = Expects(k)
         /\ versions'[k] = versions[k] + Differs(Agreed[k], Expects(k))
<1>1. Agreed = accepted /\ versions[k] \in Nat
  BY DEF Agreed, TypeOK
<1>2. CASE candidate = None
  BY <1>1, <1>2, AdoptCandidateIs DEF Expects, Differs, owned
<1>3. CASE candidate # None
  <2>1. candidate \in Candidates /\ Adopt(candidate) /\ accepted \in Snapshots
    BY <1>3, AdoptCandidateIs DEF TypeOK
  <2>2. /\ accepted'[k] = Merged(candidate)[k]
        /\ versions'[k] = IF accepted[k] # Merged(candidate)[k] THEN versions[k] + 1 ELSE versions[k]
    BY <2>1, AdoptIs
  <2>3. Merged(candidate)[k] = Expects(k)
    BY <1>1, <1>3, <2>1, MergedAt DEF Expects, News, Late
  <2> QED BY <1>1, <2>2, <2>3 DEF Differs
<1> QED BY <1>2, <1>3

LEMMA AdoptCandidateCounted ==
  ASSUME TypeOK, Shape, Counted, AdoptCandidate, ~Writing, ~Writing', ~closed,
         UNCHANGED <<file, content, foreign, reading, writeRevision>>, Missed => Missed'
  PROVE  Counted'
<1> SUFFICES ASSUME ~Missed', NEW k \in Keys
             PROVE  versions'[k] <= foreign[k] /\ versions'[k] + Behind(k)' <= foreign[k]
  BY DEF Counted
<1>1. versions[k] \in Nat /\ foreign[k] \in Nat
  BY DEF TypeOK, Shape
<1>2. accepted'[k] = Expects(k) /\ versions'[k] = versions[k] + Differs(Agreed[k], Expects(k)) /\ candidate' = None
  BY AdoptExpected, AdoptCandidateIs
<1>3. Agreed'[k] = Expects(k) /\ Expects(k)' = Expects(k)
  BY <1>2 DEF Agreed, Expects
<1>4. ReadsOn(k)' = ReadsOn(k) /\ Whole' = Whole
  BY <1>3 DEF ReadsOn, Taken, LateRead, Whole
<1>5. Behind(k)' = Differs(Expects(k), ReadsOn(k)) + Differs(ReadsOn(k), Whole[k])
  BY <1>3, <1>4 DEF Behind, Differs
<1>6. versions[k] + Behind(k) <= foreign[k]
  BY DEF Counted
<1>7. versions'[k] + Behind(k)' = versions[k] + Behind(k)
  BY <1>1, <1>2, <1>5, Chains DEF Behind, Differs
<1>8. Behind(k)' \in Nat /\ versions'[k] \in Nat
  BY <1>1, <1>2, <1>5 DEF Differs
<1> QED BY <1>1, <1>6, <1>7, <1>8

LEMMA SameCounted ==
  ASSUME TypeOK, Shape, Counted,
         UNCHANGED <<file, content, foreign, accepted, versions, candidate, writeRevision>>,
         Writing' <=> Writing, Writing => run'.next = run.next, UNCHANGED reading \/ (~Taken /\ ~Taken'),
         Missed => Missed', closed => closed'
  PROVE  Counted'
<1>1. \A k \in Keys : Behind(k)' = Behind(k)
  BY ChainSame
<1>2. \A k \in Keys : Behind(k) \in Nat
  BY BehindNat
<1> QED BY <1>1, <1>2, CountedStays DEF TypeOK, Shape

(* The steps that leave the chain alone. *)
LEMMA SubmitsCounted ==
  ASSUME TypeOK, Shape, Counted, NEW j, NEW k, NEW v, Submits(j, k, v)
  PROVE  Counted'
<1>1. UNCHANGED <<file, closed, content, foreign, accepted, versions, candidate, reading, writeRevision, run, chances>>
  BY DEF Submits, host, read
<1> QED BY <1>1, SameCounted DEF Writing, Missed, chances

LEMMA NoticeCounted ==
  ASSUME TypeOK, Shape, Counted, Notice
  PROVE  Counted'
<1>1. UNCHANGED <<file, closed, content, foreign, accepted, versions, candidate, writeRevision, run, chances>>
  BY DEF Notice, owned, write, history, requests, read
<1>2. UNCHANGED reading \/ (~Taken /\ ~Taken')
  <2>1. UNCHANGED reading \/ (reading.phase = "idle" /\ reading' = Asked(1, generation + 1))
    BY DEF Notice, read
  <2>2. Asked(1, generation + 1).phase = "asked"
    BY DEF Asked
  <2> QED BY <2>1, <2>2 DEF Taken
<1> QED BY <1>1, <1>2, SameCounted DEF Writing, Missed, chances

LEMMA ReadRetriesCounted ==
  ASSUME TypeOK, Shape, Counted, ReadRetries
  PROVE  Counted'
<1>1. UNCHANGED <<file, closed, content, foreign, accepted, versions, candidate, writeRevision, chances>>
  BY DEF ReadRetries, owned, host, history, requests
<1>2. /\ ~Taken /\ ~Taken'
      /\ Writing' = Writing /\ run'.next = run.next
  <2>1. CASE ReadEnds
    BY <2>1, ReadEndsIs DEF ReadRetries, Taken, NewRead
  <2>2. CASE ReadAgain
    <3>1. reading' = Asked(reading.attempt + 1, generation) /\ UNCHANGED run
      BY <2>2 DEF ReadAgain
    <3>2. Asked(reading.attempt + 1, generation).phase = "asked"
      BY DEF Asked
    <3> QED BY <3>1, <3>2 DEF Taken, ReadRetries, Writing
  <2> QED BY <2>1, <2>2 DEF ReadRetries
<1> QED BY <1>1, <1>2, SameCounted DEF Missed, chances

LEMMA JobAwaitsCounted ==
  ASSUME TypeOK, Shape, Counted, JobAwaits
  PROVE  Counted'
<1>1. UNCHANGED <<file, closed, content, foreign, accepted, versions, candidate, reading, writeRevision, chances>>
  BY DEF JobAwaits, owned, host, history, requests, read
<1>2. ~Writing /\ ~Writing'
  BY RunPhase DEF JobAwaits, Writing
<1> QED BY <1>1, <1>2, SameCounted DEF Missed, chances

LEMMA CheckTakesCounted ==
  ASSUME TypeOK, Shape, Counted, CheckTakes
  PROVE  Counted'
<1>1. UNCHANGED <<file, closed, content, foreign, accepted, versions, candidate, reading, writeRevision, chances>>
  BY DEF CheckTakes, owned, host, history, requests, read
<1>2. ~Writing /\ ~Writing'
  BY DEF CheckTakes, Writing, TypeOK, Runs
<1> QED BY <1>1, <1>2, SameCounted DEF Missed, chances

(* A job that is given up before it saves. *)
LEMMA RefusedCounted ==
  ASSUME TypeOK, Shape, Counted, Refused, ~Writing \/ closed,
         UNCHANGED <<file, closed, content, foreign, candidate, reading, writeRevision>>, Missed => Missed'
  PROVE  Counted'
<1>1. UNCHANGED <<accepted, versions>> /\ run'.phase = "idle"
  BY NoRunIs DEF Refused, Finish
<1>2. ~Writing'
  BY <1>1 DEF Writing
<1>3. CASE closed
  BY <1>1, <1>3, CountedStays DEF TypeOK, Shape
<1>4. CASE ~Writing
  BY <1>1, <1>2, <1>4, SameCounted
<1> QED BY <1>3, <1>4
(* A read that took whole contents took what the chain ends with. *)
LEMMA ReadTakesCounted ==
  ASSUME TypeOK, Shape, Counted, ReadTakes
  PROVE  Counted'
<1>1. UNCHANGED <<file, closed, content, foreign, accepted, versions, candidate, writeRevision, run, chances>>
  BY DEF ReadTakes, host, owned, write, history, requests
<1>2. ~Taken /\ (Writing' <=> Writing) /\ (Missed => Missed') /\ reading.phase = "asked"
  BY <1>1 DEF ReadTakes, Taken, Writing, Missed, chances
<1>3. CASE ~Taken'
  BY <1>1, <1>2, <1>3, SameCounted
<1>4. CASE Taken'
  <2>1. reading'.raw = content
    <3>1. PICK raw \in {file, None} : reading' = [reading EXCEPT !.phase = "taken", !.raw = raw]
      BY DEF ReadTakes
    <3>2. reading'.raw = raw
      BY <3>1 DEF TypeOK, Readings
    <3> QED BY <1>4, <3>2 DEF Taken, Shape
  <2>2. Whole' = Whole /\ Agreed' = Agreed
    BY <1>1, <1>2 DEF Whole, Agreed
  <2>3. ASSUME NEW k \in Keys
        PROVE  Behind(k)' <= Behind(k)
    <3>1. Expects(k)' = Expects(k)
      BY <1>1, <1>2, <2>2 DEF Expects, Late
    <3>2. ReadsOn(k) = Expects(k)
      BY <1>2 DEF ReadsOn
    <3>3. ReadsOn(k)' \in {Expects(k), Whole[k]}
      BY <1>4, <2>1, <3>1 DEF ReadsOn, News, Whole
    <3> QED BY <2>2, <3>1, <3>2, <3>3 DEF Behind, Differs
  <2> QED BY <1>1, <1>2, <2>3, CountedStays DEF TypeOK, Shape
<1> QED BY <1>3, <1>4

(* What a read found becomes the candidate, or is left to a newer read. *)
LEMMA ReadReturnsCounted ==
  ASSUME TypeOK, Shape, Counted, ReadReturns
  PROVE  Counted'
<1>1. /\ UNCHANGED <<file, closed, content, foreign, accepted, versions, writeRevision, chances>>
      /\ reading.phase = "taken"
  BY DEF ReadReturns, host, owned
<1>2. /\ ~Taken' /\ (Writing' <=> Writing) /\ run'.next = run.next
  <2>1. CASE ReadEnds
    BY <2>1, ReadEndsIs DEF Taken, NewRead
  <2>2. CASE ReadAgain
    <3>1. reading' = Asked(reading.attempt + 1, generation) /\ UNCHANGED run
      BY <2>2 DEF ReadAgain
    <3>2. Asked(reading.attempt + 1, generation).phase = "asked"
      BY DEF Asked
    <3> QED BY <3>1, <3>2 DEF Taken, Writing
  <2>3. CASE reading' = [NoRead EXCEPT !.phase = "waiting", !.attempt = reading.attempt] /\ UNCHANGED run
    BY <2>3, NoReadIs DEF Readings, Taken, Writing
  <2> QED BY <2>1, <2>2, <2>3 DEF ReadReturns
<1>3. (Missed => Missed') /\ Whole' = Whole /\ Agreed' = Agreed
  BY <1>1, <1>2 DEF Missed, chances, Whole, Agreed
<1>4. ASSUME NEW k \in Keys
      PROVE  Behind(k)' = Differs(Agreed[k], Expects(k)') + Differs(Expects(k)', Whole[k])
  <2>1. ReadsOn(k)' = Expects(k)'
    BY <1>2 DEF ReadsOn
  <2> QED BY <1>3, <2>1 DEF Behind, Differs
<1>5. CASE UNCHANGED candidate
  <2>1. ASSUME NEW k \in Keys
        PROVE  Behind(k)' <= Behind(k)
    <3>1. Expects(k)' = Expects(k)
      BY <1>2, <1>3, <1>5 DEF Expects, Late
    <3> QED BY <1>4, <3>1 DEF Behind, Differs
  <2> QED BY <1>1, <1>3, <2>1, CountedStays DEF TypeOK, Shape
<1>6. CASE /\ reading.raw \notin {None, Torn}
           /\ candidate' = [raw |-> reading.raw, snapshot |-> Normalized(reading.raw), base |-> reading.base,
                            overwritten |-> reading.writing \/ Writing \/ reading.revision # writeRevision]
  <2>1. /\ candidate' # None /\ (candidate'.overwritten <=> LateRead)
        /\ candidate'.raw = reading.raw /\ candidate'.snapshot = Normalized(reading.raw) /\ candidate'.base = reading.base
    BY <1>6, ReadCandidate, Apart DEF LateRead
  <2>2. Late' <=> LateRead
    BY <1>2, <2>1 DEF Late, LateRead
  <2>3. Taken
    BY <1>1, <1>6 DEF Taken
  <2>4. ASSUME NEW k \in Keys
        PROVE  Behind(k)' <= Behind(k)
    <3>1. Expects(k)' = News(LateRead, reading.base, Normalized(reading.raw), Agreed[k], k)
      BY <1>3, <2>1, <2>2 DEF Expects, News
    <3>2. ReadsOn(k) = News(LateRead, reading.base, Normalized(reading.raw), Expects(k), k)
      BY <2>3 DEF ReadsOn
    <3>3. CASE LateRead /\ reading.base[k] = Normalized(reading.raw)[k]
      BY <1>4, <3>1, <3>2, <3>3 DEF News, Behind, Differs
    <3>4. CASE ~(LateRead /\ reading.base[k] = Normalized(reading.raw)[k])
      <4>1. Expects(k)' = ReadsOn(k)
        BY <3>1, <3>2, <3>4 DEF News
      <4> QED BY <1>4, <4>1 DEF Behind, Differs
    <3> QED BY <3>3, <3>4
  <2> QED BY <1>1, <1>3, <2>4, CountedStays DEF TypeOK, Shape
<1> QED BY <1>5, <1>6 DEF ReadReturns

LEMMA JobPreparesCounted ==
  ASSUME TypeOK, Shape, Counted, JobPrepares
  PROVE  Counted'
<1>1. /\ UNCHANGED <<file, closed, content, foreign, reading, writeRevision>> /\ ~closed /\ AdoptCandidate
      /\ (Missed => Missed')
  BY DEF JobPrepares, host, Missed
<1>2. ~Writing /\ ~Writing'
  <2>1. run.phase \in {"idle", "awake"} /\ run'.phase \in {"idle", "checking"}
    BY NoRunIs DEF JobPrepares, TypeOK, Runs
  <2> QED BY <2>1 DEF Writing
<1> QED BY <1>1, <1>2, AdoptCandidateCounted

LEMMA JobRepreparesCounted ==
  ASSUME TypeOK, Shape, Counted, JobReprepares
  PROVE  Counted'
<1>1. /\ UNCHANGED <<file, closed, content, foreign, reading, writeRevision>> /\ ~closed /\ AdoptCandidate
      /\ (Missed => Missed')
  BY DEF JobReprepares, host, Missed
<1>2. ~Writing /\ ~Writing'
  <2>1. run.phase = "rewoken" /\ run'.phase \in {"refused", "prepared"}
    BY RunPhase DEF JobReprepares
  <2> QED BY <2>1 DEF Writing
<1> QED BY <1>1, <1>2, AdoptCandidateCounted

(* A step into the window, or within it. *)
LEMMA WindowCounted ==
  ASSUME TypeOK, Shape, Counted, TypeOK', Shape', Stored', AllSettled', InWindow',
         UNCHANGED <<foreign, closed>>, Missed => Missed',
         ~Missed' => \A k \in Keys : \/ versions'[k] = versions[k]
                                     \/ ~closed /\ versions'[k] <= versions[k] + Behind(k)
  PROVE  Counted'
<1> SUFFICES ASSUME ~Missed', NEW k \in Keys
             PROVE  versions'[k] <= foreign[k] /\ Behind(k)' = 0
  BY DEF Counted, TypeOK
<1>1. CaughtUp'
  BY WindowCaughtUpNext
<1>2. Behind(k)' = 0
  BY <1>1 DEF CaughtUp, Behind, Differs
<1>3. /\ versions[k] \in Nat /\ versions'[k] \in Nat /\ foreign[k] \in Nat /\ Behind(k) \in Nat
      /\ versions'[k] = versions[k] \/ (~closed /\ versions'[k] <= versions[k] + Behind(k))
  BY BehindNat DEF TypeOK, Shape
<1>4. versions[k] <= foreign[k] /\ (~closed => versions[k] + Behind(k) <= foreign[k])
  BY DEF Counted
<1> QED BY <1>2, <1>3, <1>4

LEMMA CheckReturnsCounted ==
  ASSUME TypeOK, Shape, Stored, Counted, CheckReturns, TypeOK', Shape', Stored', AllSettled'
  PROVE  Counted'
<1>1. /\ UNCHANGED <<file, closed, content, foreign, candidate, reading, writeRevision>>
      /\ run.phase = "checked" /\ ~Writing /\ (Missed => Missed') /\ ~closed
  <2>1. /\ UNCHANGED <<file, closed, content, foreign, candidate, reading, writeRevision>>
        /\ run.phase = "checked" /\ ~closed /\ UNCHANGED <<raced, overtaken, beside, unverified>>
    BY DEF CheckReturns, host
  <2>2. restored => restored'
    BY Zenon DEF CheckReturns
  <2> QED BY <2>1, <2>2 DEF Missed, Writing
<1>2. CASE Refused
  BY <1>1, <1>2, RefusedCounted
<1>3. CASE /\ UNCHANGED owned
           /\ run' = [NoRun EXCEPT !.phase = IF reading.phase = "idle" THEN "rewoken" ELSE "reawaiting"]
  <2>1. ~Writing' /\ UNCHANGED <<accepted, versions>>
    BY <1>3, RunPhase DEF Writing, owned
  <2> QED BY <1>1, <2>1, SameCounted
<1>4. CASE run' = [NoRun EXCEPT !.phase = "prepared"] /\ UNCHANGED owned
  BY <1>1, <1>4, RunPhase, WindowCounted DEF InWindow, owned
<1>5. CASE /\ run' = [NoRun EXCEPT !.phase = "prepared"] /\ run.raw \notin {None, Torn, expected}
           /\ Adopt([raw |-> run.raw, snapshot |-> Normalized(run.raw), base |-> accepted, overwritten |-> FALSE])
  <2>1. ASSUME ~Missed', NEW k \in Keys
        PROVE  versions'[k] <= versions[k] + Behind(k)
    <3>1. run.raw \in {file, None}
      BY <1>1, <2>1 DEF Stored, CheckRead, Missed
    <3>2. run.raw = content
      BY <1>5, <3>1 DEF Shape
    <3>3. versions'[k] = versions[k] + Differs(Agreed[k], Whole[k])
      <4>1. versions'[k] = IF accepted[k] # Normalized(run.raw)[k] THEN versions[k] + 1 ELSE versions[k]
        BY <1>5, CheckAdopts
      <4>2. Agreed = accepted /\ Whole = Normalized(run.raw) /\ versions[k] \in Nat
        BY <1>1, <3>2 DEF Agreed, Whole, TypeOK
      <4> QED BY <4>1, <4>2 DEF Differs
    <3>4. Behind(k) \in Nat /\ Differs(Agreed[k], Whole[k]) <= Behind(k)
      BY BehindNat
    <3>5. versions[k] \in Nat
      BY DEF TypeOK
    <3>6. Differs(Agreed[k], Whole[k]) \in Nat
      BY DEF Differs
    <3> QED BY <3>3, <3>4, <3>5, <3>6
  <2>2. InWindow'
    BY <1>5, RunPhase DEF InWindow
  <2> QED BY <1>1, <2>1, <2>2, WindowCounted
<1> QED BY <1>2, <1>3, <1>4, <1>5 DEF CheckReturns

LEMMA JobCommitsCounted ==
  ASSUME TypeOK, Shape, Counted, JobCommits, TypeOK', Shape', Stored', AllSettled'
  PROVE  Counted'
<1>1. /\ UNCHANGED <<file, closed, content, foreign, candidate, reading, versions>> /\ (Missed => Missed') /\ ~Writing
  BY DEF JobCommits, host, read, chances, Missed, Refused, owned, Writing
<1>2. CASE Refused /\ UNCHANGED writeRevision
  BY <1>1, <1>2, RefusedCounted
<1>3. CASE run' = [run EXCEPT !.phase = "saving", !.next = Rebased(JobEdits)]
  <2>1. InWindow'
    BY <1>3 DEF InWindow, Writing, TypeOK, Runs
  <2> QED BY <1>1, <2>1, WindowCounted
<1> QED BY <1>2, <1>3 DEF JobCommits

LEMMA SavingCounted ==
  ASSUME TypeOK, Shape, Counted, SaveLands \/ SaveRejected \/ VerifyTakes, TypeOK', Shape', Stored', AllSettled'
  PROVE  Counted'
<1>1. UNCHANGED <<closed, foreign, versions>> /\ (Missed => Missed')
  BY DEF SaveLands, SaveRejected, VerifyTakes, host, owned, history, requests, chances, Missed
<1>2. InWindow'
  BY DEF InWindow, Writing, TypeOK, Runs, SaveLands, SaveRejected, VerifyTakes
<1> QED BY <1>1, <1>2, WindowCounted
LEMMA CaughtUpCounted ==
  ASSUME TypeOK, Shape, Counted, UNCHANGED <<closed, foreign, versions>>, Missed => Missed', ~Missed' => CaughtUp'
  PROVE  Counted'
<1>1. ASSUME ~Missed', NEW k \in Keys
      PROVE  Behind(k)' <= Behind(k)
  <2>1. Behind(k)' = 0
    BY <1>1 DEF CaughtUp, Behind, Differs
  <2> QED BY <2>1, BehindNat
<1> QED BY <1>1, CountedStays DEF TypeOK, Shape

(* A save that was stored: what was read beside it keeps its news, and     *)
(* nothing of the save itself is news.                                     *)
LEMMA SavedCaughtUp ==
  ASSUME TypeOK, Shape, Stored, AllSettled, Revised, Writing, Saved, ~Missed, file = run.next,
         UNCHANGED <<file, content, reading, writeRevision>>
  PROVE  CaughtUp'
<1>1. /\ accepted' = run.next /\ run'.phase = "idle"
      /\ candidate' = IF candidate # None /\ candidate.raw # run.next
                      THEN [candidate EXCEPT !.overwritten = TRUE] ELSE candidate
  BY SavedIs
<1>2. ~Writing' /\ CaughtUp
  BY <1>1, WindowCaughtUp DEF Writing, InWindow
<1>3. Agreed = run.next /\ Agreed' = Agreed /\ Whole' = Whole
  BY <1>1, <1>2 DEF Agreed, Whole
<1>4. ASSUME NEW k \in Keys
      PROVE  Expects(k)' = Expects(k)
  <2>1. CASE candidate = None
    <3>1. candidate' = None
      BY <1>1, <2>1
    <3> QED BY <1>3, <2>1, <3>1 DEF Expects
  <2>2. CASE candidate # None
    <3>1. /\ candidate' # None /\ candidate'.base = candidate.base /\ candidate'.snapshot = candidate.snapshot
          /\ candidate'.overwritten <=> candidate.overwritten \/ candidate.raw # run.next
      BY <1>1, <2>2, Apart DEF TypeOK, Candidates
    <3>2. Late' <=> Late
      BY <1>2, <3>1 DEF Late
    <3> QED BY <1>3, <2>2, <3>1, <3>2 DEF Expects, News
  <2> QED BY <2>1, <2>2
<1>5. ASSUME NEW k \in Keys
      PROVE  ReadsOn(k)' = ReadsOn(k)
  <2>1. Taken' <=> Taken
    BY DEF Taken
  <2>2. Taken => LateRead /\ LateRead'
    BY DEF Taken, Revised, InFlight, LateRead
  <2> QED BY <1>4, <2>1, <2>2 DEF ReadsOn, News
<1> QED BY <1>2, <1>3, <1>4, <1>5 DEF CaughtUp

LEMMA SaveReturnsCaughtUp ==
  ASSUME TypeOK, Shape, Stored, AllSettled, Revised, SaveReturns, ~closed, ~Missed
  PROVE  CaughtUp'
<1>1. UNCHANGED <<file, content, reading, writeRevision>> /\ run.phase = "landed" /\ Saved
  BY DEF SaveReturns, host, history, requests
<1>2. Writing /\ file = run.next
  BY <1>1 DEF Writing, Stored, Window, InWindow
<1> QED BY <1>1, <1>2, SavedCaughtUp

LEMMA SaveReturnsCounted ==
  ASSUME TypeOK, Shape, Stored, AllSettled, Revised, Counted, SaveReturns
  PROVE  Counted'
<1>1. /\ UNCHANGED <<closed, foreign, versions, chances>> /\ (Missed => Missed')
  BY DEF SaveReturns, Saved, Refused, host, history, requests, Missed, chances
<1>2. CASE closed
  BY <1>1, <1>2, CountedStays DEF TypeOK, Shape
<1>3. CASE ~closed
  <2>1. ~Missed' => CaughtUp'
    BY <1>1, <1>3, SaveReturnsCaughtUp
  <2> QED BY <1>1, <2>1, CaughtUpCounted
<1> QED BY <1>2, <1>3

(* A save that was not stored leaves the file as the save's check found it. *)
LEMMA UnsavedCaughtUp ==
  ASSUME TypeOK, Shape, Stored, AllSettled, ~closed, run.phase = "verified", run.raw # run.next, run.raw # None, ~Missed,
         UNCHANGED <<file, content, accepted, reading>>,
         run'.phase = "idle", run.raw = expected => UNCHANGED candidate
  PROVE  CaughtUp'
<1>1. Writing /\ ~Writing' /\ InWindow
  BY DEF Writing, InWindow
<1>2. /\ accepted = Normalized(expected) /\ file \in {expected, run.next}
      /\ candidate # None => candidate.base = accepted /\ candidate.raw \in {expected, file}
                             /\ candidate.snapshot = Normalized(candidate.raw)
      /\ Taken => reading.base = accepted /\ reading.raw \in {expected, file}
  <2>1. Agrees(accepted, expected)
    BY <1>1 DEF Stored, Window
  <2>2. accepted = Normalized(expected)
    BY <2>1, AgreesSettled DEF AllSettled, TypeOK
  <2> QED BY <1>1, <2>2 DEF Stored, Window, Migrated, InFlight, Taken
<1>3. run.raw = file /\ file = expected
  BY <1>1, <1>2 DEF Stored, CheckRead, Missed
<1>4. Agreed = accepted /\ Agreed' = accepted /\ Whole' = Whole /\ \A k \in Keys : Whole[k] = accepted[k]
  BY <1>1, <1>3, WindowCaughtUp DEF Agreed, Whole, CaughtUp
<1>5. UNCHANGED candidate
  BY <1>3
<1>6. ASSUME NEW k \in Keys
      PROVE  Expects(k)' = accepted[k]
  BY <1>2, <1>3, <1>4, <1>5 DEF Expects, News
<1>7. ASSUME NEW k \in Keys
      PROVE  ReadsOn(k)' = accepted[k]
  <2>1. Taken' <=> Taken
    BY DEF Taken
  <2> QED BY <1>2, <1>3, <1>6, <2>1 DEF ReadsOn, News
<1> QED BY <1>4, <1>6, <1>7 DEF CaughtUp

LEMMA VerifyReturnsCaughtUp ==
  ASSUME TypeOK, Shape, Stored, AllSettled, Revised, VerifyReturns, ~closed, ~Missed'
  PROVE  CaughtUp' /\ ~Missed
<1>1. /\ UNCHANGED <<file, content, reading, writeRevision, raced, overtaken, beside, restored>>
      /\ run.phase = "verified" /\ Writing
  BY DEF VerifyReturns, host, Writing
<1>2. ~Missed /\ run.raw # None
  <2>1. (unverified => unverified') /\ (run.raw = None => unverified')
    BY Zenon DEF VerifyReturns
  <2> QED BY <1>1, <2>1 DEF Missed
<1>3. CASE run.raw = run.next /\ Saved
  <2>1. file = run.next
    BY <1>1, <1>2, <1>3 DEF Stored, CheckRead, Missed
  <2> QED BY <1>1, <1>2, <1>3, <2>1, SavedCaughtUp
<1>4. CASE /\ run.raw # run.next /\ Finish(accepted) /\ UNCHANGED accepted
           /\ run.raw = expected => UNCHANGED candidate
  <2>1. run'.phase = "idle"
    BY <1>4, NoRunIs DEF Finish
  <2> QED BY <1>1, <1>2, <1>4, <2>1, UnsavedCaughtUp
<1> QED BY <1>3, <1>4 DEF VerifyReturns

LEMMA VerifyReturnsCounted ==
  ASSUME TypeOK, Shape, Stored, AllSettled, Revised, Counted, VerifyReturns
  PROVE  Counted'
<1>1. UNCHANGED <<closed, foreign, versions, raced, overtaken, beside, restored>> /\ (unverified => unverified')
  <2>1. unverified => unverified'
    BY Zenon DEF VerifyReturns
  <2> QED BY <2>1 DEF VerifyReturns, Saved, host
<1>2. Missed => Missed'
  BY <1>1 DEF Missed
<1>3. CASE closed
  BY <1>1, <1>2, <1>3, CountedStays DEF TypeOK, Shape
<1>4. CASE ~closed
  <2>1. ~Missed' => CaughtUp'
    BY <1>4, VerifyReturnsCaughtUp
  <2> QED BY <1>1, <1>2, <2>1, CaughtUpCounted
<1> QED BY <1>3, <1>4

(* The file is replaced before a check, so the chain grows at its end only. *)
LEMMA ReplacedCounted ==
  ASSUME TypeOK, Shape, Counted, NEW f, Replaced(f), content' \in Snapshots, foreign' \in [Keys -> Nat],
         \A k \in Keys : foreign'[k] = foreign[k] + Differs(Whole[k], Whole'[k])
  PROVE  Counted'
<1>1. UNCHANGED <<closed, accepted, versions, reading, candidate, writeRevision, run>>
  BY DEF Replaced, owned, read, write
<1>2. ~Missed' => ~Missed /\ ~Checked
  BY DEF Replaced, Missed
<1> SUFFICES ASSUME ~Missed', NEW k \in Keys
             PROVE  versions[k] <= foreign'[k] /\ (~closed => versions[k] + Behind(k)' <= foreign'[k])
  BY <1>1 DEF Counted
<1>3. ~Writing /\ ~Writing'
  BY <1>1, <1>2 DEF Checked, Writing
<1>4. Agreed' = Agreed /\ Expects(k)' = Expects(k) /\ ReadsOn(k)' = ReadsOn(k)
  <2>1. Agreed' = Agreed
    BY <1>1, <1>3 DEF Agreed
  <2>2. Expects(k)' = Expects(k)
    BY <1>1, <1>3, <2>1 DEF Expects, Late
  <2> QED BY <1>1, <1>3, <2>1, <2>2 DEF ReadsOn, LateRead, Taken
<1>5. Behind(k)' = Differs(Agreed[k], Expects(k)) + Differs(Expects(k), ReadsOn(k)) + Differs(ReadsOn(k), Whole'[k])
  BY <1>4 DEF Behind, Differs
<1>6. Behind(k)' <= Behind(k) + Differs(Whole[k], Whole'[k])
  BY <1>5 DEF Behind, Differs
<1>7. /\ versions[k] \in Nat /\ foreign[k] \in Nat /\ Behind(k) \in Nat /\ Differs(Whole[k], Whole'[k]) \in Nat
      /\ Behind(k)' \in Nat
  BY <1>5, BehindNat DEF TypeOK, Shape, Differs
<1>8. versions[k] <= foreign[k] /\ (~closed => versions[k] + Behind(k) <= foreign[k])
  BY <1>2 DEF Counted
<1>9. foreign'[k] = foreign[k] + Differs(Whole[k], Whole'[k])
  OBVIOUS
<1> QED BY <1>6, <1>7, <1>8, <1>9
LEMMA OtherWritesCounted ==
  ASSUME TypeOK, Shape, Counted, NEW f \in Incoming, OtherWrites(f)
  PROVE  Counted'
<1>1. Replaced(f) /\ content' = f /\ f \in Snapshots /\ content \in Snapshots
  BY SettingsAssumption DEF OtherWrites, Shape
<1>2. foreign' = [k \in Keys |-> IF Normal[f[k]] # Normal[content[k]] THEN foreign[k] + 1 ELSE foreign[k]]
  BY DEF OtherWrites
<1>3. foreign' \in [Keys -> Nat]
  BY <1>2 DEF Shape
<1>4. ASSUME NEW k \in Keys
      PROVE  foreign'[k] = foreign[k] + Differs(Whole[k], Whole'[k])
  <2>1. Whole[k] = Normal[content[k]] /\ Whole'[k] = Normal[f[k]]
    BY <1>1, NormalizedIs DEF Whole
  <2>2. foreign[k] \in Nat
    BY DEF Shape
  <2> QED BY <1>2, <2>1, <2>2 DEF Differs
<1> QED BY <1>1, <1>3, <1>4, ReplacedCounted

LEMMA FileTornCounted ==
  ASSUME TypeOK, Shape, Counted, FileTorn
  PROVE  Counted'
<1>1. Replaced(Torn) /\ UNCHANGED <<content, foreign>>
  BY DEF FileTorn
<1>2. \A k \in Keys : foreign'[k] = foreign[k] + Differs(Whole[k], Whole'[k])
  BY <1>1 DEF Whole, Differs, Shape
<1> QED BY <1>1, <1>2, ReplacedCounted DEF Shape

LEMMA DisposeCounted ==
  ASSUME TypeOK, Shape, Counted, Dispose
  PROVE  Counted'
<1>1. closed' /\ UNCHANGED <<versions, foreign, chances>>
  BY DEF Dispose, owned, history, requests
<1> QED BY <1>1, CountedStays DEF TypeOK, Shape, Missed, chances

LEMMA NextCounted ==
  ASSUME TypeOK, Shape, Stored, AllSettled, Revised, Counted, [Next]_vars, TypeOK', Shape', Stored', AllSettled'
  PROVE  Counted'
<1>1. CASE UNCHANGED vars
  BY <1>1, SameCounted DEF vars, Writing, Missed
<1>2. ASSUME NEW k \in Keys, NEW v \in Values, UseControl(k, v) \/ SubmitForm(k, v)
      PROVE  Counted'
  BY <1>2, UseControlIs, SubmitFormIs, SubmitsCounted
<1>3. CASE JobMeetsClose
  BY <1>3, RefusedCounted DEF JobMeetsClose, host, read, history, requests, chances, Missed
<1>4. CASE JobIsRefused
  BY <1>4, RefusedCounted DEF JobIsRefused, host, read, history, requests, chances, Missed, Writing
<1> QED
  BY <1>1, <1>2, <1>3, <1>4, NoticeCounted, ReadTakesCounted, ReadReturnsCounted, ReadRetriesCounted, JobAwaitsCounted,
     JobPreparesCounted, CheckTakesCounted, CheckReturnsCounted, JobRepreparesCounted, JobCommitsCounted, SavingCounted,
     SaveReturnsCounted, VerifyReturnsCounted, OtherWritesCounted, FileTornCounted, DisposeCounted
  DEF Next

LEMMA InitCounted ==
  ASSUME Init
  PROVE  Revised /\ Counted
<1>1. reading.phase = "idle" /\ run.phase = "idle" /\ candidate = None
  BY DEF Init, NoRead, NoRun
<1>2. accepted = Whole /\ ~Writing
  BY <1>1 DEF Init, Whole, Writing
<1>3. \A k \in Keys : Behind(k) = 0
  BY <1>1, <1>2 DEF Behind, Differs, Agreed, Expects, ReadsOn, Taken
<1>4. \A k \in Keys : versions[k] = 0 /\ foreign[k] = 0
  BY DEF Init
<1> QED BY <1>1, <1>3, <1>4 DEF Revised, InFlight, Counted

(* A key's remote epoch never runs ahead of the changes other writers made *)
(* to it, so a window's own saves, read back before, during or after they  *)
(* land, retire none of its edits (adopt(), acceptWrite()).                *)
THEOREM SettingsNoSelfConflict == Spec => []NoSelfConflict
<1> DEFINE Kept == AllSettled /\ Revised /\ Counted
           IInv == TypeOK /\ Shape /\ Stored /\ (~rewritten => Kept)
<1>1. Init => IInv
  BY InitTypes, InitStored, InitSettled, InitCounted
<1>2. IInv /\ [Next]_vars => IInv'
  <2> SUFFICES ASSUME IInv, [Next]_vars
               PROVE  IInv'
    OBVIOUS
  <2>1. (TypeOK /\ Shape /\ Stored)'
    BY NextTypes, NextShape, NextStored
  <2>2. ASSUME ~rewritten'
        PROVE  Kept'
    BY <2>1, <2>2, RewrittenStays, NextSettled, NextRevised, NextCounted
  <2> QED BY <2>1, <2>2
<1>3. IInv => NoSelfConflict
  BY DEF Counted, NoSelfConflict
<1> QED BY <1>1, <1>2, <1>3, PTL DEF Spec
(***************************************************************************)
(* Told: what the window does not know yet is on its way to it, as a       *)
(* notice, a read or an adoption in the queue; when none is, the run is    *)
(* up to date.  Learnt: what evidence said of a key is in the candidate    *)
(* that waits, or in the agreed snapshot and what is being written.        *)
(***************************************************************************)
Adopting(jobs) == \E i \in DOMAIN jobs : jobs[i].kind = "adopt"
Awaits == notices > 0 \/ reading.phase # "idle" \/ Adopting(queue)

Told ==
  ~closed /\ ~Awaits =>
    /\ candidate = None
    /\ Checking => generation = run.generation
    /\ run.phase \notin {"reawaiting", "rewoken", "refused"}
    /\ run.phase \in {"checked", "verified"} => run.raw \in {file, None}
    /\ run.phase \in {"prepared", "saving"} => file = expected
    /\ Writing => file \in {expected, run.next}

Learnt ==
  ~beside /\ ~closed =>
    \A k \in Keys : received[k] # None =>
      IF candidate # None THEN candidate.base[k] # candidate.snapshot[k] /\ received[k] = candidate.snapshot[k]
      ELSE accepted[k] = received[k] /\ (Writing => run.next[k] = received[k])

LEMMA AdoptingAppended ==
  ASSUME TypeOK, NEW j \in Jobs
  PROVE  Adopting(Append(queue, j)) <=> Adopting(queue) \/ j.kind = "adopt"
<1>1. queue \in Seq(Jobs) /\ Len(queue) \in Nat /\ DOMAIN queue = 1 .. Len(queue)
  BY LenProperties DEF TypeOK
<1>2. /\ DOMAIN Append(queue, j) = 1 .. Len(queue) + 1
      /\ \A i \in 1 .. Len(queue) : Append(queue, j)[i] = queue[i]
      /\ Append(queue, j)[Len(queue) + 1] = j
  BY <1>1, AppendProperties
<1>3. \A i \in 1 .. Len(queue) + 1 : i \in 1 .. Len(queue) \/ i = Len(queue) + 1
  BY <1>1
<1>4. /\ \A i \in 1 .. Len(queue) : i \in 1 .. Len(queue) + 1
      /\ Len(queue) + 1 \in 1 .. Len(queue) + 1
  BY <1>1
<1> QED BY <1>1, <1>2, <1>3, <1>4 DEF Adopting

LEMMA AdoptingTail ==
  ASSUME TypeOK, queue # <<>>
  PROVE  Adopting(queue) <=> Job.kind = "adopt" \/ Adopting(Tail(queue))
<1>1. queue \in Seq(Jobs) /\ Len(queue) \in Nat /\ Len(queue) > 0 /\ DOMAIN queue = 1 .. Len(queue)
  BY EmptySeq, LenProperties DEF TypeOK
<1>2. /\ Len(Tail(queue)) = Len(queue) - 1 /\ \A i \in 1 .. Len(Tail(queue)) : Tail(queue)[i] = queue[i + 1]
      /\ DOMAIN Tail(queue) = 1 .. Len(Tail(queue)) /\ Head(queue) = queue[1]
  BY <1>1, HeadTailProperties, LenProperties
<1>3. ASSUME NEW i \in DOMAIN Tail(queue)
      PROVE  i + 1 \in DOMAIN queue /\ Tail(queue)[i] = queue[i + 1]
  BY <1>1, <1>2
<1>4. ASSUME NEW i \in DOMAIN queue, i # 1
      PROVE  i - 1 \in DOMAIN Tail(queue) /\ Tail(queue)[i - 1] = queue[i]
  BY <1>1, <1>2, <1>4
<1>5. 1 \in DOMAIN queue
  BY <1>1
<1>6. Adopting(Tail(queue)) => Adopting(queue)
  BY <1>3 DEF Adopting
<1>7. Job.kind = "adopt" => Adopting(queue)
  BY <1>2, <1>5 DEF Adopting, Job
<1>8. Adopting(queue) => Job.kind = "adopt" \/ Adopting(Tail(queue))
  <2> SUFFICES ASSUME NEW i \in DOMAIN queue, queue[i].kind = "adopt", i # 1
               PROVE  Adopting(Tail(queue))
    BY <1>2 DEF Adopting, Job
  <2> QED BY <1>4 DEF Adopting
<1> QED BY <1>6, <1>7, <1>8

LEMMA AdoptingScheduled ==
  ASSUME TypeOK
  PROVE  Adopting(Scheduled)
<1>1. AdoptJob.kind = "adopt"
  BY DEF AdoptJob
<1> QED BY <1>1, AdoptJobIs, AdoptingAppended DEF Scheduled, Adopting

LEMMA SameTold ==
  ASSUME Told, UNCHANGED <<file, closed, expected, generation, candidate, run>>, ~Awaits' => ~Awaits
  PROVE  Told'
BY DEF Told, Checking, Writing

LEMMA AwaitsTold ==
  ASSUME ~closed' => Awaits'
  PROVE  Told'
BY DEF Told

(* A step of a job outside its check, and the end of one that is none of   *)
(* the adoptions.                                                          *)
LEMMA FinishTold ==
  ASSUME TypeOK, Shape, Told, run.phase # "idle", run.phase \notin {"awaiting", "awake"}, Finish(accepted) \/ Finish(run.next),
         UNCHANGED <<notices, closed, reading>>, candidate' # None /\ ~closed => Awaits
  PROVE  Told'
<1>1. run'.phase = "idle" /\ queue' = Tail(queue) /\ queue # <<>> /\ Job.kind # "adopt"
  BY NoRunIs DEF Finish, TypeOK, Shape
<1>2. Adopting(queue') <=> Adopting(queue)
  BY <1>1, AdoptingTail
<1>3. Awaits' <=> Awaits
  BY <1>2 DEF Awaits
<1> QED BY <1>1, <1>3 DEF Told, Checking, Writing

LEMMA ReadsTold ==
  ASSUME TypeOK, Shape, Told, Notice \/ ReadTakes \/ ReadReturns \/ ReadRetries
  PROVE  Told'
<1>1. CASE Notice
  <2>1. CASE closed
    BY <1>1, <2>1, AwaitsTold DEF Notice
  <2>2. CASE ~closed
    <3>1. reading'.phase # "idle"
      BY <1>1, <2>2, NoticeAsks DEF Notice
    <3> QED BY <3>1, AwaitsTold DEF Awaits
  <2> QED BY <2>1, <2>2
<1>2. CASE ReadTakes
  <2>1. reading'.phase # "idle"
    BY <1>2 DEF ReadTakes, TypeOK, Readings
  <2> QED BY <2>1, AwaitsTold DEF Awaits
<1>3. CASE ReadReturns \/ ReadRetries
  <2>1. UNCHANGED closed
    BY <1>3 DEF ReadReturns, ReadRetries, host
  <2>2. CASE ReadEnds
    BY <2>1, <2>2, AdoptingScheduled, AwaitsTold DEF ReadEnds, Awaits
  <2>3. CASE reading.attempt < Attempts /\ ReadAgain
    <3>1. reading'.phase = "asked"
      BY <2>3, ReadAgainIs DEF NewRead
    <3> QED BY <3>1, AwaitsTold DEF Awaits
  <2>4. CASE reading' = [NoRead EXCEPT !.phase = "waiting", !.attempt = reading.attempt]
    <3>1. reading'.phase = "waiting"
      BY <2>4, NoReadIs DEF Readings
    <3> QED BY <3>1, AwaitsTold DEF Awaits
  <2> QED BY <1>3, <2>2, <2>3, <2>4 DEF ReadReturns, ReadRetries, TypeOK
<1> QED BY <1>1, <1>2, <1>3

LEMMA JobPreparesTold ==
  ASSUME TypeOK, Told, JobPrepares
  PROVE  Told'
<1>1. UNCHANGED <<file, closed, notices, generation, reading>> /\ candidate' = None
  BY AdoptCandidateIs DEF JobPrepares, host
<1>2. CASE run' = NoRun
  <2>1. run'.phase = "idle"
    BY <1>2, NoRunIs
  <2> QED BY <1>1, <2>1 DEF Told, Checking, Writing
<1>3. CASE run' = [run EXCEPT !.phase = "checking", !.generation = generation]
  <2>1. run'.phase = "checking" /\ run'.generation = generation
    BY <1>3 DEF TypeOK, Runs
  <2> QED BY <1>1, <2>1 DEF Told, Checking, Writing
<1> QED BY <1>2, <1>3 DEF JobPrepares

LEMMA CheckTakesTold ==
  ASSUME TypeOK, Told, CheckTakes
  PROVE  Told'
<1>1. PICK raw \in {file, None} : run' = [run EXCEPT !.phase = "checked", !.raw = raw]
  BY DEF CheckTakes
<1>2. run'.phase = "checked" /\ run'.raw \in {file, None} /\ run'.generation = run.generation /\ run.phase = "checking"
  BY <1>1 DEF TypeOK, Runs, CheckTakes
<1>3. UNCHANGED <<file, closed, notices, queue, generation, reading, candidate>>
  BY DEF CheckTakes, host, read
<1> QED BY <1>2, <1>3 DEF Told, Awaits, Checking, Writing

LEMMA CheckReturnsTold ==
  ASSUME TypeOK, Shape, Told, CheckReturns
  PROVE  Told'
<1>1. UNCHANGED <<file, closed, notices, generation, reading, candidate>> /\ run.phase = "checked" /\ ~closed
  BY DEF CheckReturns, host
<1>2. CASE Refused
  BY <1>1, <1>2, FinishTold DEF Refused, Told
<1>3. CASE run.generation # generation /\ UNCHANGED queue
  <2>1. Awaits /\ Awaits'
    BY <1>1, <1>3 DEF Told, Checking, Awaits
  <2> QED BY <2>1, AwaitsTold
<1>4. CASE /\ run.raw # None /\ UNCHANGED queue /\ run' = [NoRun EXCEPT !.phase = "prepared"]
           /\ expected' = run.raw
  <2>1. run'.phase = "prepared" /\ (Awaits' <=> Awaits)
    BY <1>1, <1>4, RunPhase DEF Awaits
  <2> QED BY <1>1, <1>4, <2>1 DEF Told, Checking, Writing
<1>5. CASE Adopt([raw |-> run.raw, snapshot |-> Normalized(run.raw), base |-> accepted, overwritten |-> FALSE])
           /\ run.raw \notin {None, Torn, expected} /\ run' = [NoRun EXCEPT !.phase = "prepared"] /\ UNCHANGED queue
  BY <1>4, <1>5, CheckAdopts
<1>6. CASE /\ run.raw = expected /\ UNCHANGED <<owned, queue>> /\ run' = [NoRun EXCEPT !.phase = "prepared"]
  BY <1>4, <1>6, Apart DEF TypeOK, owned
<1> QED BY <1>2, <1>3, <1>5, <1>6 DEF CheckReturns

LEMMA JobCommitsTold ==
  ASSUME TypeOK, Shape, Told, JobCommits
  PROVE  Told'
<1>1. UNCHANGED <<file, closed, notices, generation, reading, candidate>> /\ run.phase = "prepared" /\ ~closed
  BY DEF JobCommits, host, read
<1>2. CASE Refused
  BY <1>1, <1>2, FinishTold DEF Refused, Told
<1>3. CASE run' = [run EXCEPT !.phase = "saving", !.next = Rebased(JobEdits)] /\ UNCHANGED <<owned, queue>>
  <2>1. run'.phase = "saving" /\ (Awaits' <=> Awaits) /\ UNCHANGED expected
    BY <1>1, <1>3 DEF TypeOK, Runs, Awaits, owned
  <2> QED BY <1>1, <2>1 DEF Told, Checking, Writing
<1> QED BY <1>2, <1>3 DEF JobCommits

LEMMA SavingTold ==
  ASSUME TypeOK, Told, SaveLands \/ SaveRejected \/ VerifyTakes
  PROVE  Told'
<1>1. UNCHANGED <<closed, queue, generation, reading, candidate, expected>> /\ (Awaits => Awaits')
  <2>1. UNCHANGED <<closed, queue, generation, reading, candidate, expected>> /\ notices' \in {notices, notices + 1}
    BY DEF SaveLands, SaveRejected, VerifyTakes, host, read, owned
  <2> QED BY <2>1 DEF Awaits, TypeOK
<1>2. CASE SaveLands
  <2>1. run'.phase = "landed" /\ file' = run.next /\ run'.next = run.next
    BY <1>2 DEF SaveLands, TypeOK, Runs
  <2> QED BY <1>1, <2>1 DEF Told, Checking, Writing
<1>3. CASE SaveRejected
  <2>1. run'.phase = "verifying" /\ UNCHANGED file /\ run'.next = run.next /\ Writing
    BY <1>3 DEF SaveRejected, TypeOK, Runs, host, Writing
  <2> QED BY <1>1, <2>1 DEF Told, Checking, Writing
<1>4. CASE VerifyTakes
  <2>1. PICK raw \in {file, None} : run' = [run EXCEPT !.phase = "verified", !.raw = raw]
    BY <1>4 DEF VerifyTakes
  <2>2. run'.phase = "verified" /\ UNCHANGED file /\ run'.next = run.next /\ run'.raw \in {file, None} /\ Writing
    BY <1>4, <2>1 DEF VerifyTakes, TypeOK, Runs, host, Writing
  <2> QED BY <1>1, <2>2 DEF Told, Checking, Writing
<1> QED BY <1>2, <1>3, <1>4

LEMMA SavesTold ==
  ASSUME TypeOK, Shape, Told, SaveReturns \/ VerifyReturns
  PROVE  Told'
<1>1. UNCHANGED <<file, closed, notices, reading>> /\ Writing /\ run.phase \notin {"idle", "awaiting", "awake"}
  BY DEF SaveReturns, VerifyReturns, host, Writing
<1>2. Finish(accepted) \/ Finish(run.next)
  BY DEF SaveReturns, VerifyReturns, Refused, Saved
<1>3. candidate # None /\ ~closed => Awaits
  BY DEF Told
<1>4. candidate' # None /\ ~closed => Awaits
  <2>1. CASE Saved
    BY <1>1, <1>3, <2>1, SavedIs
  <2>2. CASE UNCHANGED candidate
    BY <1>3, <2>2
  <2>3. CASE run.phase = "verified" /\ run.raw # run.next /\ run.raw \notin {None, Torn, expected}
    BY <1>1, <2>3 DEF Told
  <2> QED BY <1>1, <2>1, <2>2, <2>3 DEF SaveReturns, VerifyReturns
<1> QED BY <1>1, <1>2, <1>4, FinishTold

LEMMA NextTold ==
  ASSUME TypeOK, Shape, Told, [Next]_vars
  PROVE  Told'
<1>1. CASE UNCHANGED vars
  BY <1>1, SameTold DEF vars, Awaits
<1>2. ASSUME NEW k \in Keys, NEW v \in Values, UseControl(k, v) \/ SubmitForm(k, v)
      PROVE  Told'
  <2>1. PICK j \in Jobs : Submits(j, k, v)
    BY <1>2, UseControlIs, SubmitFormIs
  <2>2. /\ queue' = Append(queue, j) /\ j.kind \in {"control", "form"}
        /\ UNCHANGED <<file, notices, closed, expected, generation, candidate, reading, run>>
    BY <2>1 DEF Submits, host, read
  <2> QED BY <2>2, AdoptingAppended, SameTold DEF Awaits
<1>3. CASE JobAwaits
  BY <1>3, AwaitsTold DEF JobAwaits, read, Awaits
<1>4. CASE JobMeetsClose \/ Dispose
  BY <1>4, AwaitsTold DEF JobMeetsClose, Dispose, host
<1>5. CASE JobReprepares \/ JobIsRefused
  <2>1. UNCHANGED <<closed, notices, reading>> /\ run.phase \in {"rewoken", "refused"} /\ queue # <<>>
    BY <1>5 DEF JobReprepares, JobIsRefused, host, read, TypeOK
  <2>2. ~closed => Awaits
    BY <2>1 DEF Told
  <2>3. CASE JobReprepares
    BY <2>1, <2>2, <2>3, AwaitsTold DEF JobReprepares, Awaits
  <2>4. CASE JobIsRefused
    BY <2>1, <2>2, <2>4, FinishTold DEF JobIsRefused, Refused, read
  <2> QED BY <1>5, <2>3, <2>4
<1>6. ASSUME NEW f, Replaced(f)
      PROVE  Told'
  <2>1. notices' > 0
    BY <1>6 DEF Replaced, TypeOK
  <2> QED BY <2>1, AwaitsTold DEF Awaits
<1> QED
  BY <1>1, <1>2, <1>3, <1>4, <1>5, <1>6, ReadsTold, JobPreparesTold, CheckTakesTold, CheckReturnsTold, JobCommitsTold,
     SavingTold, SavesTold
  DEF Next, OtherWrites, FileTorn
(* Learnt, one lemma for each group of actions. *)
LEMMA SameLearnt ==
  ASSUME Learnt, UNCHANGED <<closed, accepted, candidate, received>>, beside => beside',
         Writing' => Writing /\ run'.next = run.next
  PROVE  Learnt'
BY DEF Learnt

LEMMA AdoptCandidateLearnt ==
  ASSUME TypeOK, Learnt, AdoptCandidate, UNCHANGED <<closed, received>>, beside => beside', ~Writing'
  PROVE  Learnt'
<1>1. candidate' = None
  BY AdoptCandidateIs
<1> SUFFICES ASSUME ~beside, ~closed, NEW k \in Keys, received[k] # None
             PROVE  accepted'[k] = received[k]
  BY <1>1 DEF Learnt
<1>2. CASE candidate = None
  BY <1>2, AdoptCandidateIs DEF Learnt, owned
<1>3. CASE candidate # None
  <2>1. candidate \in Candidates /\ Adopt(candidate)
    BY <1>3, AdoptCandidateIs
  <2>2. accepted' = Merged(candidate)
    BY <2>1, AdoptIs
  <2>3. candidate.base[k] # candidate.snapshot[k] /\ received[k] = candidate.snapshot[k]
    BY <1>3 DEF Learnt
  <2>4. Merged(candidate)[k] = candidate.snapshot[k]
    BY <2>1, <2>3, MergedAt DEF TypeOK
  <2> QED BY <2>2, <2>3, <2>4
<1> QED BY <1>2, <1>3

(* Evidence that becomes the candidate. *)
LEMMA EvidenceLearnt ==
  ASSUME NEW base, NEW snapshot, Evidence(base, snapshot),
         candidate' # None, candidate'.base = base, candidate'.snapshot = snapshot
  PROVE  Learnt'
BY DEF Learnt, Evidence

LEMMA ReadReturnsLearnt ==
  ASSUME TypeOK, Shape, Learnt, ReadReturns
  PROVE  Learnt'
<1>1. UNCHANGED <<closed, accepted, beside>>
  BY DEF ReadReturns, host, owned, chances
<1>2. (Writing' <=> Writing) /\ run'.next = run.next
  BY ReadEndsIs DEF ReadReturns, ReadAgain, Writing
<1>3. CASE UNCHANGED <<candidate, received>>
  BY <1>1, <1>2, <1>3, SameLearnt
<1>4. CASE /\ reading.raw \notin {None, Torn} /\ Evidence(reading.base, Normalized(reading.raw))
           /\ candidate' = [raw |-> reading.raw, snapshot |-> Normalized(reading.raw), base |-> reading.base,
                            overwritten |-> reading.writing \/ Writing \/ reading.revision # writeRevision]
  <2>1. candidate' # None /\ candidate'.base = reading.base /\ candidate'.snapshot = Normalized(reading.raw)
    BY <1>4, ReadCandidate, Apart
  <2> QED BY <1>4, <2>1, EvidenceLearnt
<1> QED BY <1>3, <1>4 DEF ReadReturns

LEMMA CheckReturnsLearnt ==
  ASSUME TypeOK, Shape, Stored, Learnt, CheckReturns
  PROVE  Learnt'
<1>1. UNCHANGED <<closed, candidate, beside>> /\ run.phase = "checked"
  BY DEF CheckReturns, host
<1>2. CASE Refused /\ UNCHANGED received
  <2>1. ~Writing' /\ UNCHANGED accepted
    BY <1>2, NoRunIs DEF Refused, Finish, Writing
  <2> QED BY <1>1, <1>2, <2>1, SameLearnt
<1>3. CASE /\ UNCHANGED <<owned, received>>
           /\ \E p \in {"rewoken", "reawaiting", "prepared"} : run' = [NoRun EXCEPT !.phase = p]
  <2>1. ~Writing' /\ UNCHANGED accepted
    BY <1>3, RunPhase DEF owned, Writing
  <2> QED BY <1>1, <1>3, <2>1, SameLearnt
<1>4. CASE /\ Adopt([raw |-> run.raw, snapshot |-> Normalized(run.raw), base |-> accepted, overwritten |-> FALSE])
           /\ run.raw \notin {None, Torn, expected} /\ run.generation = generation
           /\ Evidence(accepted, Normalized(run.raw)) /\ run' = [NoRun EXCEPT !.phase = "prepared"]
  <2>1. ~Writing' /\ accepted' = Normalized(run.raw)
    BY <1>4, RunPhase, CheckAdopts DEF Writing
  <2>2. ~beside => candidate = None
    BY <1>1, <1>4 DEF Stored, Undisturbed, Checking
  <2>3. \A k \in Keys : received'[k] # None => received'[k] = accepted'[k]
    BY <1>4, <2>1 DEF Evidence
  <2> QED BY <1>1, <2>1, <2>2, <2>3 DEF Learnt
<1> QED BY <1>2, <1>3, <1>4 DEF CheckReturns

LEMMA JobCommitsLearnt ==
  ASSUME TypeOK, Shape, Learnt, JobCommits
  PROVE  Learnt'
<1>1. UNCHANGED <<closed, candidate, beside, accepted>> /\ run.phase = "prepared" /\ queue # <<>>
  BY DEF JobCommits, host, read, chances, owned, Refused, TypeOK
<1>2. CASE Refused /\ UNCHANGED received
  <2>1. ~Writing'
    BY <1>2, NoRunIs DEF Refused, Finish, Writing
  <2> QED BY <1>1, <1>2, <2>1, SameLearnt
<1>3. CASE /\ run' = [run EXCEPT !.phase = "saving", !.next = Rebased(JobEdits)]
           /\ received' = [k \in Keys |-> IF k \in DOMAIN JobEdits THEN None ELSE received[k]]
  <2>1. run'.next = Rebased(JobEdits)
    BY <1>3 DEF TypeOK, Runs
  <2>2. \A k \in Keys : received'[k] # None => k \notin DOMAIN JobEdits /\ received'[k] = received[k]
    BY <1>3
  <2>3. \A k \in Keys : k \notin DOMAIN JobEdits => Rebased(JobEdits)[k] = accepted[k]
    BY <1>1, JobEditsAre
  <2> QED BY <1>1, <2>1, <2>2, <2>3 DEF Learnt
<1> QED BY <1>2, <1>3 DEF JobCommits

LEMMA SavedLearnt ==
  ASSUME TypeOK, Learnt, Writing, Saved, UNCHANGED <<closed, received, beside>>
  PROVE  Learnt'
<1>1. accepted' = run.next /\ run'.phase = "idle"
  BY SavedIs
<1>2. ~Writing'
  BY <1>1 DEF Writing
<1>3. CASE candidate = None
  <2>1. candidate' = None
    BY <1>3, SavedIs
  <2> QED BY <1>1, <1>2, <1>3, <2>1 DEF Learnt
<1>4. CASE candidate # None
  <2>1. candidate' # None /\ candidate'.base = candidate.base /\ candidate'.snapshot = candidate.snapshot
    BY <1>4, SavedIs, Apart DEF TypeOK, Candidates
  <2> QED BY <1>1, <1>2, <1>4, <2>1 DEF Learnt
<1> QED BY <1>3, <1>4

LEMMA SavesLearnt ==
  ASSUME TypeOK, Learnt, SaveReturns \/ VerifyReturns
  PROVE  Learnt'
<1>1. UNCHANGED <<closed, beside>> /\ Writing
  BY DEF SaveReturns, VerifyReturns, host, history, requests, chances, Writing
<1>2. CASE Saved /\ UNCHANGED received
  BY <1>1, <1>2, SavedLearnt
<1>3. CASE (Refused \/ (Finish(accepted) /\ UNCHANGED accepted)) /\ UNCHANGED <<candidate, received>>
  <2>1. ~Writing' /\ UNCHANGED accepted
    BY <1>3, NoRunIs DEF Refused, Finish, Writing
  <2> QED BY <1>1, <1>3, <2>1, SameLearnt
<1>4. CASE /\ run.raw \notin {None, Torn} /\ Evidence(accepted, Normalized(run.raw))
           /\ candidate' = [raw |-> run.raw, snapshot |-> Normalized(run.raw), base |-> accepted, overwritten |-> FALSE]
  <2>1. candidate' # None /\ candidate'.base = accepted /\ candidate'.snapshot = Normalized(run.raw)
    BY <1>4, CheckedIs, Apart
  <2> QED BY <1>4, <2>1, EvidenceLearnt
<1>5. CASE SaveReturns
  <2>1. UNCHANGED received
    BY <1>5 DEF SaveReturns, history, requests
  <2>2. (Refused /\ UNCHANGED candidate) \/ Saved
    BY <1>5, Zenon DEF SaveReturns
  <2> QED BY <1>2, <1>3, <2>1, <2>2
<1>6. CASE VerifyReturns
  BY <1>2, <1>3, <1>4, <1>6 DEF VerifyReturns
<1> QED BY <1>5, <1>6

LEMMA NextLearnt ==
  ASSUME TypeOK, Shape, Stored, Learnt, [Next]_vars
  PROVE  Learnt'
<1>1. CASE UNCHANGED vars
  BY <1>1, SameLearnt DEF vars, Writing
<1>2. ASSUME NEW k \in Keys, NEW v \in Values, UseControl(k, v) \/ SubmitForm(k, v)
      PROVE  Learnt'
  BY <1>2, UseControlIs, SubmitFormIs, SameLearnt DEF Submits, host, read, chances, Writing
<1>3. CASE Notice \/ ReadTakes
  BY <1>3, SameLearnt DEF Notice, ReadTakes, host, owned, read, write, history, requests, chances, Writing
<1>4. CASE ReadRetries
  <2>1. (Writing' <=> Writing) /\ run'.next = run.next
    BY <1>4, ReadEndsIs DEF ReadRetries, ReadAgain, Writing
  <2> QED BY <1>4, <2>1, SameLearnt DEF ReadRetries, host, owned, history, requests, chances
<1>5. CASE JobAwaits
  <2>1. ~Writing'
    BY <1>5, RunPhase DEF JobAwaits, Writing
  <2> QED BY <1>5, <2>1, SameLearnt DEF JobAwaits, host, owned, read, history, requests, chances
<1>6. CASE JobPrepares
  <2>1. ~Writing'
    BY <1>6, NoRunIs DEF JobPrepares, TypeOK, Runs, Writing
  <2>2. beside => beside'
    BY <1>6, Zenon DEF JobPrepares
  <2> QED BY <1>6, <2>1, <2>2, AdoptCandidateLearnt DEF JobPrepares, host
<1>7. CASE JobReprepares
  <2>1. ~Writing'
    BY <1>7, RunPhase DEF JobReprepares, Writing
  <2>2. beside => beside'
    BY <1>7, Zenon DEF JobReprepares
  <2> QED BY <1>7, <2>1, <2>2, AdoptCandidateLearnt DEF JobReprepares, host
<1>8. CASE JobMeetsClose \/ JobIsRefused
  <2>1. ~Writing'
    BY <1>8, NoRunIs DEF JobMeetsClose, JobIsRefused, Refused, Finish, Writing
  <2> QED BY <1>8, <2>1, SameLearnt DEF JobMeetsClose, JobIsRefused, Refused, host, read, history, requests, chances
<1>9. CASE CheckTakes \/ SaveLands \/ SaveRejected \/ VerifyTakes
  <2>1. Writing' => Writing /\ run'.next = run.next
    BY <1>9 DEF CheckTakes, SaveLands, SaveRejected, VerifyTakes, Writing, TypeOK, Runs
  <2> QED BY <1>9, <2>1, SameLearnt DEF CheckTakes, SaveLands, SaveRejected, VerifyTakes, host, owned, read, history, requests, chances
<1>10. ASSUME NEW f, Replaced(f)
       PROVE  Learnt'
  BY <1>10, SameLearnt DEF Replaced, owned, read, write, Writing
<1>11. CASE Dispose
  BY <1>11 DEF Dispose, Learnt
<1> QED
  BY <1>1, <1>2, <1>3, <1>4, <1>5, <1>6, <1>7, <1>8, <1>9, <1>10, <1>11, ReadReturnsLearnt, CheckReturnsLearnt,
     JobCommitsLearnt, SavesLearnt
  DEF Next, OtherWrites, FileTorn

LEMMA InitTold ==
  ASSUME Init
  PROVE  Told /\ Learnt
BY DEF Init, Told, Learnt, Checking, Writing, NoRun

(* What was learnt from the file stays in the agreed snapshot until a later *)
(* save of its key, also when a save in progress overwrote the file        *)
(* (acceptWrite(), adopt()).                                               *)
THEOREM SettingsReceivedSurvives == Spec => []ReceivedSurvives
<1> DEFINE IInv == TypeOK /\ Shape /\ Stored /\ Told /\ Learnt
<1>1. Init => IInv
  BY InitTypes, InitStored, InitTold
<1>2. IInv /\ [Next]_vars => IInv'
  BY NextTypes, NextShape, NextStored, NextTold, NextLearnt
<1>3. IInv => ReceivedSurvives
  <2> SUFFICES ASSUME IInv, Quiet, ~beside
               PROVE  \A k \in Keys : received[k] # None => accepted[k] = received[k]
    BY DEF ReceivedSurvives
  <2>1. ~Awaits /\ ~closed
    BY DEF Quiet, Awaits, Adopting
  <2> QED BY <2>1 DEF Told, Learnt
<1> QED BY <1>1, <1>2, <1>3, PTL DEF Spec
(***************************************************************************)
(* Fresh: when no notice is outstanding, what the window holds already     *)
(* ends with what the file holds: in the candidate once the reads are      *)
(* over, and in the newest read while it is under way.                     *)
(***************************************************************************)
Newest == reading.generation = generation

Fresh ==
  ~Missed /\ ~closed /\ notices = 0 /\ file # Torn =>
    /\ reading.phase = "idle" /\ ~failedRead => \A k \in Keys : Expects(k) = Whole[k]
    /\ InFlight /\ Newest /\ LateRead => \A k \in Keys : Agreed[k] = Whole[k] /\ Expects(k) = Whole[k]
    /\ Taken /\ Newest =>
         \A k \in Keys : \/ Normalized(reading.raw)[k] = Whole[k]
                         \/ LateRead /\ reading.base[k] = Normalized(reading.raw)[k]

LEMMA CaughtUpFresh ==
  CaughtUp => Fresh
BY DEF CaughtUp, Fresh, ReadsOn, News

LEMMA CaughtUpFreshNext ==
  ASSUME CaughtUp'
  PROVE  Fresh'
BY CaughtUpFresh, PTL

LEMMA WindowFresh ==
  ASSUME TypeOK', Shape', Stored', AllSettled', InWindow'
  PROVE  Fresh'
<1>1. CASE Missed'
  BY <1>1 DEF Fresh
<1>2. CASE ~Missed'
  BY <1>2, WindowCaughtUpNext, CaughtUpFreshNext
<1> QED BY <1>1, <1>2

LEMMA SameFresh ==
  ASSUME Fresh,
         UNCHANGED <<file, content, closed, notices, accepted, candidate, writeRevision, reading, failedRead, generation>>,
         Writing' <=> Writing, Writing => run'.next = run.next, Missed => Missed'
  PROVE  Fresh'
<1>1. Whole' = Whole /\ Agreed' = Agreed /\ (InFlight' <=> InFlight) /\ (Newest' <=> Newest)
      /\ (LateRead' <=> LateRead) /\ (Taken' <=> Taken)
  BY DEF Whole, Agreed, InFlight, Newest, LateRead, Taken
<1>2. ASSUME NEW k \in Keys
      PROVE  Expects(k)' = Expects(k)
  BY <1>1 DEF Expects, Late
<1>3. Whole'=Whole /\ \A k \in Keys : Agreed'[k] = Agreed[k]
  BY <1>1
<1> QED BY <1>1, <1>2, <1>3 DEF Fresh

LEMMA ClosedFresh ==
  ASSUME closed' \/ notices' > 0
  PROVE  Fresh'
BY DEF Fresh

(* A new read has yet to take the file; beside a save nothing is news. *)
LEMMA NewReadFresh ==
  ASSUME TypeOK', Shape', Stored', AllSettled', NewRead, Writing' <=> Writing, UNCHANGED writeRevision
  PROVE  Fresh'
<1>1. CASE Writing'
  BY <1>1, WindowFresh DEF InWindow
<1>2. CASE ~Writing'
  BY <1>2 DEF NewRead, Fresh, InFlight, Taken, LateRead
<1> QED BY <1>1, <1>2

LEMMA NoticeFresh ==
  ASSUME TypeOK, Shape, Notice, TypeOK', Shape', Stored', AllSettled'
  PROVE  Fresh'
<1>1. CASE closed
  BY <1>1, ClosedFresh DEF Notice
<1>2. CASE ~closed
  <2>1. generation' = generation + 1 /\ (Writing' <=> Writing) /\ UNCHANGED writeRevision
    BY <1>2 DEF Notice, write, Writing
  <2>2. CASE reading.phase = "idle"
    <3>1. NewRead
      BY <1>1, <1>2, <2>1, <2>2, NoticeAsks DEF NewRead
    <3> QED BY <2>1, <3>1, NewReadFresh
  <2>3. CASE reading.phase # "idle"
    <3>1. UNCHANGED reading
      BY <1>2, <2>3 DEF Notice
    <3>2. InFlight => reading.generation <= generation /\ reading.generation \in Nat /\ generation \in Nat
      BY DEF InFlight, Shape, TypeOK, Readings
    <3> QED BY <2>1, <2>3, <3>1, <3>2 DEF Fresh, InFlight, Taken, Newest
  <2> QED BY <2>2, <2>3
<1> QED BY <1>1, <1>2

LEMMA ReadTakesFresh ==
  ASSUME TypeOK, Shape, Fresh, ReadTakes
  PROVE  Fresh'
<1>1. /\ UNCHANGED <<file, content, closed, notices, accepted, candidate, writeRevision, failedRead, generation, run, chances>>
      /\ reading.phase = "asked"
  BY DEF ReadTakes, host, owned, write, history, requests
<1>2. PICK raw \in {file, None} : reading' = [reading EXCEPT !.phase = "taken", !.raw = raw]
  BY DEF ReadTakes
<1>3. /\ reading'.phase = "taken" /\ reading'.raw \in {file, None} /\ reading'.generation = reading.generation
      /\ reading'.writing = reading.writing /\ reading'.revision = reading.revision
  BY <1>2 DEF TypeOK, Readings
<1>4. /\ Whole' = Whole /\ Agreed' = Agreed /\ (Newest' <=> Newest) /\ (LateRead' <=> LateRead) /\ InFlight
      /\ Missed' <=> Missed
  BY <1>1, <1>3 DEF Whole, Agreed, Newest, LateRead, InFlight, Writing, Missed, chances
<1>5. ASSUME NEW k \in Keys
      PROVE  Expects(k)' = Expects(k)
  BY <1>1, <1>4 DEF Expects, Late, Writing
<1>6. Taken' => Normalized(reading'.raw) = Whole'
  BY <1>1, <1>3, <1>4 DEF Taken, Shape, Whole
<1> QED BY <1>1, <1>3, <1>4, <1>5, <1>6 DEF Fresh

LEMMA ReadEndsFresh ==
  ASSUME TypeOK, Shape, ReadEnds, UNCHANGED <<closed, writeRevision>>, TypeOK', Shape', Stored', AllSettled',
         closed \/ failedRead' = TRUE \/ attempted # generation
  PROVE  Fresh'
<1>1. CASE closed
  BY <1>1, ClosedFresh
<1>2. CASE ~closed /\ attempted # generation
  BY <1>2, ReadEndsIs, NewReadFresh
<1>3. CASE ~closed /\ attempted = generation
  <2>1. reading'.phase = "idle" /\ failedRead' = TRUE
    BY <1>3, ReadEndsIs
  <2> QED BY <2>1 DEF Fresh, InFlight, Taken
<1> QED BY <1>1, <1>2, <1>3

LEMMA ReadAgainFresh ==
  ASSUME TypeOK, ReadAgain, reading.attempt < Attempts, UNCHANGED writeRevision, TypeOK', Shape', Stored', AllSettled'
  PROVE  Fresh'
BY ReadAgainIs, NewReadFresh DEF Writing

LEMMA ReadReturnsFresh ==
  ASSUME TypeOK, Shape, Fresh, ReadReturns, TypeOK', Shape', Stored', AllSettled'
  PROVE  Fresh'
<1>1. UNCHANGED <<file, content, closed, notices, accepted, writeRevision, chances>> /\ reading.phase = "taken"
  BY DEF ReadReturns, host, owned
<1>2. attempted = reading.generation
  BY <1>1 DEF Shape
<1>3. CASE ReadEnds /\ (closed \/ failedRead' = TRUE \/ reading.generation # generation)
  BY <1>1, <1>2, <1>3, ReadEndsFresh
<1>4. CASE reading.attempt < Attempts /\ ReadAgain
  BY <1>1, <1>4, ReadAgainFresh
<1>5. CASE reading' = [NoRead EXCEPT !.phase = "waiting", !.attempt = reading.attempt]
  BY <1>5, NoReadIs DEF Readings, Fresh, InFlight, Taken
<1>6. CASE /\ ReadEnds /\ ~closed /\ reading.raw \notin {None, Torn} /\ reading.generation = generation
           /\ candidate' = [raw |-> reading.raw, snapshot |-> Normalized(reading.raw), base |-> reading.base,
                            overwritten |-> reading.writing \/ Writing \/ reading.revision # writeRevision]
  <2>1. reading'.phase = "idle" /\ (Writing' <=> Writing) /\ run'.next = run.next
    BY <1>2, <1>6, ReadEndsIs
  <2>2. Whole' = Whole /\ Agreed' = Agreed /\ (Missed' <=> Missed)
    BY <1>1, <2>1 DEF Whole, Agreed, Missed, chances
  <2>3. /\ candidate' # None /\ (candidate'.overwritten <=> LateRead)
        /\ candidate'.raw = reading.raw /\ candidate'.snapshot = Normalized(reading.raw) /\ candidate'.base = reading.base
    BY <1>6, ReadCandidate, Apart DEF LateRead
  <2>4. Late' <=> LateRead
    BY <2>1, <2>3 DEF Late, LateRead
  <2>5. Taken /\ InFlight /\ Newest
    BY <1>1, <1>6 DEF Taken, InFlight, Newest
  <2>6. ASSUME ~Missed, notices = 0, file # Torn, NEW k \in Keys
        PROVE  Expects(k)' = Whole[k]
    <3>1. Expects(k)' = News(LateRead, reading.base, Normalized(reading.raw), Agreed[k], k)
      BY <2>2, <2>3, <2>4 DEF Expects, News
    <3>2. LateRead => Agreed[k] = Whole[k]
      BY <1>6, <2>5, <2>6 DEF Fresh
    <3>3. \/ Normalized(reading.raw)[k] = Whole[k]
          \/ LateRead /\ reading.base[k] = Normalized(reading.raw)[k]
      BY <1>6, <2>5, <2>6 DEF Fresh
    <3> QED BY <3>1, <3>2, <3>3 DEF News
  <2> QED BY <1>1, <2>1, <2>2, <2>6 DEF Fresh, InFlight, Taken
<1> QED BY <1>3, <1>4, <1>5, <1>6 DEF ReadReturns

LEMMA ReadRetriesFresh ==
  ASSUME TypeOK, Shape, ReadRetries, TypeOK', Shape', Stored', AllSettled'
  PROVE  Fresh'
<1>1. UNCHANGED <<closed, writeRevision>> /\ reading.attempt < Attempts
  BY DEF ReadRetries, host, TypeOK
<1> QED BY <1>1, ReadEndsFresh, ReadAgainFresh DEF ReadRetries

(* What is adopted is what was expected. *)
LEMMA AdoptCandidateFresh ==
  ASSUME TypeOK, Fresh, AdoptCandidate, ~Writing, ~Writing', Missed => Missed',
         UNCHANGED <<file, content, closed, notices, reading, failedRead, generation, writeRevision>>
  PROVE  Fresh'
<1>1. candidate' = None /\ \A k \in Keys : accepted'[k] = Expects(k)
  BY AdoptCandidateIs, AdoptExpected
<1>2. \A k \in Keys : Agreed'[k] = Expects(k)
  BY <1>1 DEF Agreed
<1>3. ASSUME NEW k \in Keys
      PROVE  Expects(k)' = Expects(k)
  BY <1>1, <1>2 DEF Expects
<1>4. /\ Whole' = Whole /\ (InFlight' <=> InFlight) /\ (Newest' <=> Newest)
      /\ (LateRead' <=> LateRead) /\ (Taken' <=> Taken)
  BY DEF Whole, InFlight, Newest, LateRead, Taken
<1> QED BY <1>2, <1>3, <1>4 DEF Fresh

LEMMA RefusedFresh ==
  ASSUME Fresh, Refused, ~Writing, Missed => Missed',
         UNCHANGED <<file, content, closed, notices, candidate, reading, failedRead, generation, writeRevision>>
  PROVE  Fresh'
<1>1. ~Writing' /\ UNCHANGED accepted
  BY NoRunIs DEF Refused, Finish, Writing
<1> QED BY <1>1, SameFresh

LEMMA CheckReturnsFresh ==
  ASSUME TypeOK, Shape, Fresh, CheckReturns, TypeOK', Shape', Stored', AllSettled'
  PROVE  Fresh'
<1>1. /\ UNCHANGED <<file, content, closed, notices, generation, candidate, reading, writeRevision>> /\ ~Writing
      /\ UNCHANGED <<raced, overtaken, beside, unverified>> /\ (restored => restored')
  <2>1. restored => restored'
    BY Zenon DEF CheckReturns
  <2> QED BY <2>1 DEF CheckReturns, host, Writing
<1>2. Missed => Missed'
  BY <1>1 DEF Missed
<1>3. CASE Refused /\ UNCHANGED failedRead
  BY <1>1, <1>2, <1>3, RefusedFresh
<1>4. CASE /\ UNCHANGED <<owned, failedRead>>
           /\ \E p \in {"rewoken", "reawaiting"} : run' = [NoRun EXCEPT !.phase = p]
  <2>1. ~Writing' /\ UNCHANGED accepted
    BY <1>4, RunPhase DEF Writing, owned
  <2> QED BY <1>1, <1>2, <1>4, <2>1, SameFresh
<1>5. CASE run' = [NoRun EXCEPT !.phase = "prepared"]
  BY <1>5, RunPhase, WindowFresh DEF InWindow
<1> QED BY <1>3, <1>4, <1>5 DEF CheckReturns

LEMMA NextFresh ==
  ASSUME TypeOK, Shape, Stored, AllSettled, Revised, Fresh, [Next]_vars, TypeOK', Shape', Stored', AllSettled'
  PROVE  Fresh'
<1>1. CASE UNCHANGED vars
  BY <1>1, SameFresh DEF vars, Writing, Missed
<1>2. ASSUME NEW k \in Keys, NEW v \in Values, UseControl(k, v) \/ SubmitForm(k, v)
      PROVE  Fresh'
  BY <1>2, UseControlIs, SubmitFormIs, SameFresh DEF Submits, host, read, chances, Missed, Writing
<1>3. CASE JobAwaits
  <2>1. ~Writing /\ ~Writing'
    BY <1>3, RunPhase DEF JobAwaits, Writing
  <2> QED BY <1>3, <2>1, SameFresh DEF JobAwaits, host, owned, read, history, requests, chances, Missed
<1>4. CASE JobPrepares
  <2>1. ~Writing /\ ~Writing'
    BY <1>4, NoRunIs DEF JobPrepares, TypeOK, Runs, Writing
  <2>2. Missed => Missed'
    BY <1>4 DEF JobPrepares, Missed
  <2> QED BY <1>4, <2>1, <2>2, AdoptCandidateFresh DEF JobPrepares, host
<1>5. CASE JobReprepares
  <2>1. ~Writing /\ ~Writing'
    BY <1>5, RunPhase DEF JobReprepares, Writing
  <2>2. Missed => Missed'
    BY <1>5 DEF JobReprepares, Missed
  <2> QED BY <1>5, <2>1, <2>2, AdoptCandidateFresh DEF JobReprepares, host
<1>6. CASE JobMeetsClose \/ Dispose
  BY <1>6, ClosedFresh DEF JobMeetsClose, Dispose, host
<1>7. CASE JobIsRefused
  BY <1>7, RefusedFresh DEF JobIsRefused, host, read, history, requests, chances, Missed, Writing
<1>8. CASE CheckTakes
  <2>1. ~Writing /\ ~Writing'
    BY <1>8 DEF CheckTakes, Writing, TypeOK, Runs
  <2> QED BY <1>8, <2>1, SameFresh DEF CheckTakes, host, owned, read, history, requests, chances, Missed
<1>9. CASE JobCommits
  <2>1. CASE Refused /\ UNCHANGED writeRevision
    BY <1>9, <2>1, RefusedFresh DEF JobCommits, host, read, chances, Missed, Writing
  <2>2. CASE run' = [run EXCEPT !.phase = "saving", !.next = Rebased(JobEdits)]
    <3>1. InWindow'
      BY <2>2 DEF InWindow, Writing, TypeOK, Runs
    <3> QED BY <3>1, WindowFresh
  <2> QED BY <1>9, <2>1, <2>2 DEF JobCommits
<1>10. CASE SaveLands \/ SaveRejected \/ VerifyTakes
  <2>1. InWindow'
    BY <1>10 DEF InWindow, Writing, TypeOK, Runs, SaveLands, SaveRejected, VerifyTakes
  <2> QED BY <2>1, WindowFresh
<1>11. CASE SaveReturns
  <2>1. closed' = closed /\ (Missed => Missed')
    BY <1>11 DEF SaveReturns, host, history, requests, chances, Missed
  <2>2. ~closed /\ ~Missed' => CaughtUp'
    BY <1>11, <2>1, SaveReturnsCaughtUp
  <2> QED BY <2>1, <2>2, CaughtUpFreshNext DEF Fresh
<1>12. CASE VerifyReturns
  <2>1. closed' = closed
    BY <1>12 DEF VerifyReturns, host
  <2>2. ~closed /\ ~Missed' => CaughtUp'
    BY <1>12, VerifyReturnsCaughtUp
  <2> QED BY <2>1, <2>2, CaughtUpFreshNext DEF Fresh
<1>13. ASSUME NEW f, Replaced(f)
       PROVE  Fresh'
  <2>1. notices' > 0
    BY <1>13 DEF Replaced, TypeOK
  <2> QED BY <2>1, ClosedFresh
<1> QED
  BY <1>1, <1>2, <1>3, <1>4, <1>5, <1>6, <1>7, <1>8, <1>9, <1>10, <1>11, <1>12, <1>13, NoticeFresh, ReadTakesFresh,
     ReadReturnsFresh, ReadRetriesFresh, CheckReturnsFresh
  DEF Next, OtherWrites, FileTorn

LEMMA InitFresh ==
  ASSUME Init
  PROVE  Fresh
<1>1. reading.phase = "idle" /\ run.phase = "idle" /\ candidate = None
  BY DEF Init, NoRead, NoRun
<1>2. accepted = Whole /\ ~Writing
  BY <1>1 DEF Init, Whole, Writing
<1> QED BY <1>1, <1>2 DEF Fresh, InFlight, Taken, Agreed, Expects
(***************************************************************************)
(* Shown: while nothing fails, the window shows the agreed snapshot with   *)
(* the intents that wait, and compares the next submission with just that. *)
(***************************************************************************)
FailFree ==
  /\ failures \in Nat
  /\ failures = 0 =>
       /\ file # Torn /\ ~failedRead
       /\ reading.phase # "waiting" /\ (reading.phase = "taken" => reading.raw \notin {None, Torn})
       /\ run.phase \notin {"refused", "verifying", "verified"}
       /\ run.phase = "checked" => run.raw \notin {None, Torn}

LEMMA TakeIs ==
  ASSUME TypeOK, FailFree, NEW raw \in {file, None}, Take(raw)
  PROVE  failures' \in Nat /\ (failures' = 0 => failures = 0 /\ raw \notin {None, Torn})
<1>1. file # None /\ failures \in Nat
  BY Apart DEF TypeOK, FailFree
<1>2. CASE raw = file /\ UNCHANGED failures
  BY <1>1, <1>2 DEF FailFree
<1>3. CASE failures' = failures + 1
  BY <1>1, <1>3
<1> QED BY <1>2, <1>3 DEF Take

LEMMA FailFreeStays ==
  ASSUME FailFree, UNCHANGED <<failures, file>>, failures = 0 /\ ~failedRead => ~failedRead',
         \/ UNCHANGED reading
         \/ reading'.phase \in {"idle", "asked"},
         \/ run'.phase = run.phase /\ run'.raw = run.raw
         \/ run'.phase \notin {"refused", "verifying", "verified", "checked"}
  PROVE  FailFree'
BY DEF FailFree

LEMMA NextFailFree ==
  ASSUME TypeOK, Shape, FailFree, [Next]_vars
  PROVE  FailFree'
<1>0. failures \in Nat
  BY DEF FailFree
<1>1. CASE UNCHANGED vars
  BY <1>1, FailFreeStays DEF vars
<1>2. ASSUME NEW k \in Keys, NEW v \in Values, UseControl(k, v) \/ SubmitForm(k, v)
      PROVE  FailFree'
  BY <1>2, UseControlIs, SubmitFormIs, FailFreeStays DEF Submits, host, read
<1>3. CASE Notice
  <2>1. UNCHANGED reading \/ reading'.phase = "asked"
    <3>1. Asked(1, generation + 1).phase = "asked"
      BY DEF Asked
    <3> QED BY <1>3, <3>1 DEF Notice, read
  <2> QED BY <1>3, <2>1, FailFreeStays DEF Notice, read, write, bounds
<1>4. CASE ReadTakes
  <2>1. PICK raw \in {file, None} : Take(raw) /\ reading' = [reading EXCEPT !.phase = "taken", !.raw = raw]
    BY <1>4 DEF ReadTakes
  <2>2. reading'.phase = "taken" /\ reading'.raw = raw
    BY <2>1 DEF TypeOK, Readings
  <2>3. failures' \in Nat /\ (failures' = 0 => failures = 0 /\ raw \notin {None, Torn})
    BY <2>1, TakeIs
  <2> QED BY <1>4, <2>2, <2>3 DEF FailFree, ReadTakes, host, write
<1>5. ASSUME ReadEnds, UNCHANGED <<failures, file>>, failures = 0 /\ ~failedRead => ~failedRead'
      PROVE  FailFree'
  <2>1. reading'.phase \in {"idle", "asked"} /\ (run.phase = "checked" => run'.phase = "checked") /\ run'.raw = run.raw
    BY <1>5, ReadEndsIs DEF NewRead
  <2>2. run'.phase = run.phase \/ run'.phase \in {"awake", "rewoken"}
    BY <1>5, WokenIs DEF ReadEnds
  <2> QED BY <1>5, <2>1, <2>2, FailFreeStays
<1>6. ASSUME ReadAgain, reading.attempt < Attempts, UNCHANGED <<failures, file, failedRead>>
      PROVE  FailFree'
  <2>1. reading'.phase = "asked" /\ UNCHANGED run
    BY <1>6, ReadAgainIs DEF NewRead
  <2> QED BY <1>6, <2>1, FailFreeStays
<1>7. CASE ReadReturns
  <2>1. UNCHANGED <<failures, file>> /\ reading.phase = "taken"
    BY <1>7 DEF ReadReturns, host, bounds
  <2>2. failures = 0 => reading.raw \notin {None, Torn}
    BY <2>1 DEF FailFree
  <2>3. CASE reading.raw \in {None, Torn}
    BY <2>1, <2>2, <2>3 DEF FailFree
  <2>4. CASE reading.raw \notin {None, Torn}
    <3>1. ReadEnds \/ (ReadAgain /\ reading.attempt < Attempts)
      BY <1>7, <2>4 DEF ReadReturns
    <3>2. UNCHANGED failedRead \/ (failedRead' = FALSE /\ ReadEnds)
      BY <1>7, <2>4 DEF ReadReturns
    <3>3. CASE ReadEnds
      BY <1>5, <2>1, <3>2, <3>3
    <3>4. CASE ~ReadEnds
      BY <1>6, <2>1, <3>1, <3>2, <3>4
    <3> QED BY <3>3, <3>4
  <2> QED BY <2>3, <2>4
<1>8. CASE ReadRetries
  BY <1>5, <1>6, <1>8 DEF ReadRetries, host, bounds, TypeOK
<1>9. ASSUME run'.phase = "idle", UNCHANGED <<failures, file, reading>>, failures = 0 /\ ~failedRead => ~failedRead'
      PROVE  FailFree'
  BY <1>9, FailFreeStays
<1>10. CASE JobAwaits
  <2>1. run'.phase = "awaiting"
    BY <1>10, RunPhase DEF JobAwaits
  <2> QED BY <1>10, <2>1, FailFreeStays DEF JobAwaits, host, read, bounds
<1>11. CASE JobPrepares
  <2>1. run'.phase \in {"idle", "checking"}
    BY <1>11, NoRunIs DEF JobPrepares, TypeOK, Runs
  <2> QED BY <1>11, <2>1, FailFreeStays DEF JobPrepares, host, bounds
<1>12. CASE JobMeetsClose \/ JobIsRefused
  BY <1>9, <1>12, NoRunIs DEF JobMeetsClose, JobIsRefused, Refused, Finish, host, read, bounds
<1>13. CASE CheckTakes
  <2>1. PICK raw \in {file, None} : Take(raw) /\ run' = [run EXCEPT !.phase = "checked", !.raw = raw]
    BY <1>13 DEF CheckTakes
  <2>2. run'.phase = "checked" /\ run'.raw = raw
    BY <2>1 DEF TypeOK, Runs
  <2>3. failures' \in Nat /\ (failures' = 0 => failures = 0 /\ raw \notin {None, Torn})
    BY <2>1, TakeIs
  <2> QED BY <1>13, <2>2, <2>3 DEF FailFree, CheckTakes, host, read
<1>14. CASE CheckReturns
  <2>1. UNCHANGED <<failures, file, reading>>
    BY <1>14 DEF CheckReturns, host, bounds
  <2>2. failures = 0 /\ ~failedRead => ~failedRead'
    <3>1. UNCHANGED failedRead \/ failedRead' = FALSE
      BY <1>14 DEF CheckReturns
    <3> QED BY <3>1
  <2>3. run'.phase \in {"idle", "rewoken", "reawaiting", "prepared"}
    <3>1. CASE Refused
      BY <3>1, NoRunIs DEF Refused, Finish
    <3>2. CASE run' = [NoRun EXCEPT !.phase = IF reading.phase = "idle" THEN "rewoken" ELSE "reawaiting"]
      BY <3>2, RunPhase
    <3>3. CASE run' = [NoRun EXCEPT !.phase = "prepared"]
      BY <3>3, RunPhase
    <3> QED BY <1>14, <3>1, <3>2, <3>3 DEF CheckReturns
  <2> QED BY <2>1, <2>2, <2>3, FailFreeStays
<1>15. CASE JobReprepares
  <2>1. UNCHANGED <<failures, file, reading, failedRead>> /\ run'.phase = IF failedRead THEN "refused" ELSE "prepared"
    BY <1>15, RunPhase DEF JobReprepares, host, bounds
  <2> QED BY <2>1 DEF FailFree
<1>16. CASE JobCommits
  <2>1. UNCHANGED <<failures, file, reading, failedRead>>
    BY <1>16 DEF JobCommits, host, read, bounds
  <2>2. run'.phase \in {"idle", "saving"}
    BY <1>16, NoRunIs DEF JobCommits, Refused, Finish, TypeOK, Runs
  <2> QED BY <2>1, <2>2, FailFreeStays
<1>17. CASE SaveLands
  <2>1. /\ UNCHANGED <<failures, reading, failedRead>> /\ run'.phase = "landed" /\ run.phase = "saving" /\ file' = run.next
        /\ run.next \in Snapshots
    BY <1>17 DEF SaveLands, read, bounds, TypeOK, Runs, Writing
  <2>2. file' # Torn
    BY <2>1, Apart
  <2> QED BY <2>1, <2>2 DEF FailFree
<1>18. CASE SaveReturns
  <2>1. run'.phase = "idle"
    BY <1>18, NoRunIs DEF SaveReturns, Refused, Saved, Finish
  <2> QED BY <1>9, <1>18, <2>1 DEF SaveReturns, host, bounds
<1>19. CASE SaveRejected
  BY <1>0, <1>19 DEF SaveRejected, FailFree
<1>20. CASE VerifyTakes \/ VerifyReturns
  <2>1. failures # 0
    BY <1>20 DEF VerifyTakes, VerifyReturns, FailFree
  <2>2. failures' \in {failures, failures + 1}
    BY <1>20 DEF VerifyTakes, VerifyReturns, Take, bounds
  <2> QED BY <1>0, <2>1, <2>2 DEF FailFree
<1>21. ASSUME NEW f \in Incoming, OtherWrites(f)
       PROVE  FailFree'
  <2>1. f # Torn
    BY SettingsAssumption, Apart
  <2> QED BY <1>21, <2>1 DEF OtherWrites, Replaced, FailFree, read, write
<1>22. CASE FileTorn
  BY <1>0, <1>22 DEF FileTorn, FailFree
<1>23. CASE Dispose
  BY <1>23, FailFreeStays DEF Dispose, write, bounds
<1> QED
  BY <1>1, <1>2, <1>3, <1>4, <1>7, <1>8, <1>10, <1>11, <1>12, <1>13, <1>14, <1>15, <1>16, <1>17, <1>18, <1>19, <1>20,
     <1>21, <1>22, <1>23
  DEF Next

(* How the shown settings follow the queue. *)
LEMMA VisibleTail ==
  ASSUME TypeOK, queue # <<>>, NEW s \in Snapshots, NEW t \in Snapshots, NEW epochs \in [Keys -> Nat], NEW k \in Keys,
         t[k] = IF k \in Current(Job, epochs) THEN Job.edits[k] ELSE s[k]
  PROVE  Visible(t, epochs, Tail(queue))[k] = Visible(s, epochs, queue)[k]
<1> DEFINE tail == Tail(queue)
           mine == Owning(epochs, queue, k)
           theirs == Owning(epochs, tail, k)
<1>1. queue \in Seq(Jobs) /\ Len(queue) \in Nat /\ Len(queue) > 0 /\ DOMAIN queue = 1 .. Len(queue)
  BY EmptySeq, LenProperties DEF TypeOK
<1>2. /\ tail \in Seq(Jobs) /\ Len(tail) = Len(queue) - 1 /\ DOMAIN tail = 1 .. Len(tail)
      /\ \A i \in 1 .. Len(tail) : tail[i] = queue[i + 1]
      /\ Job = queue[1]
  BY <1>1, HeadTailProperties, LenProperties DEF Job
<1>3. ASSUME NEW i \in theirs
      PROVE  i + 1 \in mine /\ tail[i] = queue[i + 1] /\ i \in Nat /\ i >= 1
  <2>1. i \in DOMAIN tail /\ k \in Current(tail[i], epochs)
    BY DEF Owning
  <2>2. i + 1 \in DOMAIN queue /\ tail[i] = queue[i + 1] /\ i \in Nat /\ i >= 1
    BY <1>1, <1>2, <2>1
  <2> QED BY <2>1, <2>2 DEF Owning
<1>4. ASSUME NEW i \in mine, i # 1
      PROVE  i - 1 \in theirs /\ i \in Nat
  <2>1. i \in DOMAIN queue /\ k \in Current(queue[i], epochs)
    BY DEF Owning
  <2>2. i - 1 \in DOMAIN tail /\ tail[i - 1] = queue[i] /\ i \in Nat
    BY <1>1, <1>2, <1>4, <2>1
  <2> QED BY <2>1, <2>2 DEF Owning
<1>5. 1 \in mine <=> k \in Current(Job, epochs)
  BY <1>1, <1>2 DEF Owning
<1>6. \/ mine = {} /\ Visible(s, epochs, queue)[k] = s[k]
      \/ \E i \in mine : (\A j \in mine : j <= i) /\ Visible(s, epochs, queue)[k] = queue[i].edits[k]
  BY <1>1, VisibleIs
<1>7. \/ theirs = {} /\ Visible(t, epochs, tail)[k] = t[k]
      \/ \E i \in theirs : (\A j \in theirs : j <= i) /\ Visible(t, epochs, tail)[k] = tail[i].edits[k]
  <2> HIDE DEF tail
  <2>1. tail \in Seq(Jobs)
    BY <1>2
  <2>2. \A l \in Keys :
          \/ Owning(epochs, tail, l) = {} /\ Visible(t, epochs, tail)[l] = t[l]
          \/ \E i \in Owning(epochs, tail, l) :
               /\ \A j \in Owning(epochs, tail, l) : j <= i
               /\ Visible(t, epochs, tail)[l] = tail[i].edits[l]
    BY <2>1, VisibleIs
  <2> QED BY <2>2
<1> HIDE DEF tail, mine, theirs
<1>8. CASE theirs = {}
  <2>1. \A i \in mine : i = 1
    BY <1>4, <1>8
  <2>2. CASE k \in Current(Job, epochs)
    BY <1>2, <1>5, <1>6, <1>7, <1>8, <2>1, <2>2 DEF tail
  <2>3. CASE k \notin Current(Job, epochs)
    BY <1>5, <1>6, <1>7, <1>8, <2>1, <2>3 DEF tail
  <2> QED BY <2>2, <2>3
<1>9. CASE theirs # {}
  <2>1. PICK i \in theirs : (\A j \in theirs : j <= i) /\ Visible(t, epochs, tail)[k] = tail[i].edits[k]
    BY <1>7, <1>9
  <2>2. i + 1 \in mine /\ tail[i] = queue[i + 1] /\ i \in Nat /\ i >= 1
    BY <1>3
  <2>3. PICK j \in mine : (\A l \in mine : l <= j) /\ Visible(s, epochs, queue)[k] = queue[j].edits[k]
    BY <1>6, <2>2
  <2>4. i + 1 <= j
    BY <2>2, <2>3
  <2>5. j # 1
    BY <2>2, <2>4
  <2>6. j - 1 \in theirs /\ j \in Nat
    BY <1>4, <2>5
  <2>7. j - 1 <= i
    BY <2>1, <2>6
  <2>8. j = i + 1
    BY <2>2, <2>4, <2>6, <2>7
  <2> QED BY <2>1, <2>2, <2>3, <2>8 DEF tail
<1> QED BY <1>8, <1>9

LEMMA VisibleAppended ==
  ASSUME TypeOK, NEW j \in Jobs, NEW s \in Snapshots, NEW epochs \in [Keys -> Nat], NEW k \in Keys
  PROVE  Visible(s, epochs, Append(queue, j))[k] =
           IF k \in Current(j, epochs) THEN j.edits[k] ELSE Visible(s, epochs, queue)[k]
<1> DEFINE jobs == Append(queue, j)
           mine == Owning(epochs, queue, k)
           theirs == Owning(epochs, jobs, k)
           n == Len(queue)
<1>1. queue \in Seq(Jobs) /\ n \in Nat /\ DOMAIN queue = 1 .. n
  BY LenProperties DEF TypeOK
<1>2. /\ jobs \in Seq(Jobs) /\ DOMAIN jobs = 1 .. n + 1
      /\ \A i \in 1 .. n : jobs[i] = queue[i]
      /\ jobs[n + 1] = j
  BY <1>1, AppendProperties
<1> HIDE DEF jobs, n
<1>3. ASSUME NEW i \in mine
      PROVE  i \in theirs /\ jobs[i] = queue[i] /\ i <= n /\ i \in Nat
  <2>1. i \in DOMAIN queue /\ k \in Current(queue[i], epochs)
    BY DEF Owning
  <2>2. i \in DOMAIN jobs /\ jobs[i] = queue[i] /\ i <= n /\ i \in Nat
    BY <1>1, <1>2, <2>1
  <2> QED BY <2>1, <2>2 DEF Owning
<1>4. ASSUME NEW i \in theirs
      PROVE  (i = n + 1 /\ k \in Current(j, epochs)) \/ (i \in mine /\ jobs[i] = queue[i])
  <2>1. i \in DOMAIN jobs /\ k \in Current(jobs[i], epochs)
    BY DEF Owning
  <2>2. i = n + 1 \/ i \in 1 .. n
    BY <1>1, <1>2, <2>1
  <2> QED BY <1>1, <1>2, <2>1, <2>2 DEF Owning
<1>5. k \in Current(j, epochs) => n + 1 \in theirs
  BY <1>1, <1>2 DEF Owning
<1>6. \/ mine = {} /\ Visible(s, epochs, queue)[k] = s[k]
      \/ \E i \in mine : (\A l \in mine : l <= i) /\ Visible(s, epochs, queue)[k] = queue[i].edits[k]
  BY <1>1, VisibleIs
<1>7. \/ theirs = {} /\ Visible(s, epochs, jobs)[k] = s[k]
      \/ \E i \in theirs : (\A l \in theirs : l <= i) /\ Visible(s, epochs, jobs)[k] = jobs[i].edits[k]
  BY <1>2, VisibleIs
<1> HIDE DEF mine, theirs
<1>8. CASE k \in Current(j, epochs)
  <2>1. PICK i \in theirs : (\A l \in theirs : l <= i) /\ Visible(s, epochs, jobs)[k] = jobs[i].edits[k]
    BY <1>5, <1>7, <1>8
  <2>2. n + 1 <= i
    BY <1>5, <1>8, <2>1
  <2>3. i = n + 1
    BY <1>1, <1>3, <1>4, <2>2
  <2> QED BY <1>2, <1>8, <2>1, <2>3 DEF jobs
<1>9. CASE k \notin Current(j, epochs)
  <2>1. theirs = mine
    BY <1>3, <1>4, <1>9
  <2>2. CASE mine = {}
    BY <1>6, <1>7, <1>9, <2>1, <2>2 DEF jobs
  <2>3. CASE mine # {}
    <3>1. PICK i \in mine : (\A l \in mine : l <= i) /\ Visible(s, epochs, queue)[k] = queue[i].edits[k]
      BY <1>6, <2>3
    <3>2. PICK m \in theirs : (\A l \in theirs : l <= m) /\ Visible(s, epochs, jobs)[k] = jobs[m].edits[k]
      BY <1>7, <2>1, <2>3
    <3>3. i <= m /\ m <= i /\ i \in Nat /\ m \in Nat
      BY <1>3, <2>1, <3>1, <3>2
    <3>4. i = m /\ jobs[i] = queue[i]
      BY <1>3, <3>1, <3>3
    <3> QED BY <1>9, <3>1, <3>2, <3>4 DEF jobs
  <2> QED BY <2>2, <2>3
<1> QED BY <1>8, <1>9
(* The intents of the controls and the forms: one key each, and never a    *)
(* form's key among what is shown before it is saved.                      *)
OneKey(job) ==
  /\ DOMAIN job.edits \cap Forms = {} /\ DOMAIN job.entry \subseteq Forms
  /\ \A k, l \in DOMAIN job.edits \cup DOMAIN job.entry : k = l
  /\ job.kind = "control" => DOMAIN job.edits # {}
  /\ job.kind # "control" => DOMAIN job.edits = {}
  /\ job.kind # "form" => DOMAIN job.entry = {}

Plain(jobs) == \A i \in DOMAIN jobs : OneKey(jobs[i])

Shown ==
  ~closed /\ failures = 0 => Plain(queue) /\ live = cursor /\ cursor = Visible(accepted, versions, queue)

LEMMA TailElements ==
  ASSUME TypeOK, queue # <<>>
  PROVE  /\ \A i \in DOMAIN Tail(queue) : i + 1 \in DOMAIN queue /\ Tail(queue)[i] = queue[i + 1]
         /\ 1 \in DOMAIN queue /\ Job = queue[1]
<1>1. queue \in Seq(Jobs) /\ Len(queue) \in Nat /\ Len(queue) > 0 /\ DOMAIN queue = 1 .. Len(queue)
  BY EmptySeq, LenProperties DEF TypeOK
<1>2. /\ Len(Tail(queue)) = Len(queue) - 1 /\ \A i \in 1 .. Len(Tail(queue)) : Tail(queue)[i] = queue[i + 1]
      /\ DOMAIN Tail(queue) = 1 .. Len(Tail(queue)) /\ Head(queue) = queue[1]
  BY <1>1, HeadTailProperties, LenProperties
<1> QED BY <1>1, <1>2 DEF Job

LEMMA AppendElements ==
  ASSUME TypeOK, NEW j \in Jobs, NEW i \in DOMAIN Append(queue, j)
  PROVE  (i \in DOMAIN queue /\ Append(queue, j)[i] = queue[i]) \/ Append(queue, j)[i] = j
<1>1. queue \in Seq(Jobs) /\ Len(queue) \in Nat /\ DOMAIN queue = 1 .. Len(queue)
  BY LenProperties DEF TypeOK
<1>2. /\ DOMAIN Append(queue, j) = 1 .. Len(queue) + 1
      /\ \A l \in 1 .. Len(queue) : Append(queue, j)[l] = queue[l]
      /\ Append(queue, j)[Len(queue) + 1] = j
  BY <1>1, AppendProperties
<1> QED BY <1>1, <1>2

LEMMA PlainTail ==
  ASSUME TypeOK, queue # <<>>, Plain(queue)
  PROVE  Plain(Tail(queue)) /\ OneKey(Job)
BY TailElements DEF Plain

LEMMA PlainAppended ==
  ASSUME TypeOK, NEW j \in Jobs, Plain(queue), OneKey(j)
  PROVE  Plain(Append(queue, j))
<1> SUFFICES ASSUME NEW i \in DOMAIN Append(queue, j)
             PROVE  OneKey(Append(queue, j)[i])
  BY DEF Plain
<1> QED BY AppendElements DEF Plain

LEMMA AdoptJobPlain ==
  OneKey(AdoptJob) /\ \A epochs : Current(AdoptJob, epochs) = {}
BY NoEditsAre DEF AdoptJob, OneKey, Current

LEMMA VisibleTyped ==
  ASSUME TypeOK, NEW s \in Snapshots
  PROVE  Visible(s, versions, queue) \in Snapshots
BY VisibleIs DEF TypeOK

LEMMA ScheduledShown ==
  ASSUME TypeOK, Plain(queue), NEW s \in Snapshots, NEW epochs \in [Keys -> Nat]
  PROVE  Plain(Scheduled) /\ Visible(s, epochs, Scheduled) = Visible(s, epochs, queue)
<1>1. Plain(Append(queue, AdoptJob))
  BY AdoptJobIs, AdoptJobPlain, PlainAppended
<1>2. \A k \in Keys : Visible(s, epochs, Append(queue, AdoptJob))[k] = Visible(s, epochs, queue)[k]
  BY AdoptJobIs, AdoptJobPlain, VisibleAppended
<1>3. queue \in Seq(Jobs) /\ Append(queue, AdoptJob) \in Seq(Jobs)
  BY AdoptJobIs, AppendProperties DEF TypeOK
<1>4. Visible(s, epochs, Append(queue, AdoptJob)) \in Snapshots /\ Visible(s, epochs, queue) \in Snapshots
  BY <1>3, VisibleIs
<1>5. Visible(s, epochs, Append(queue, AdoptJob)) = Visible(s, epochs, queue)
  BY <1>2, <1>4, SameSnapshot
<1> QED BY <1>1, <1>5 DEF Scheduled

(* What a form or a control submits when the cursor is what is shown. *)
LEMMA SubmittedIs ==
  ASSUME TypeOK, live = cursor, NEW j, NEW k \in Keys, NEW v \in Values, Submits(j, k, v)
  PROVE  /\ OneKey(j) /\ j.versions = versions
         /\ \/ DOMAIN j.edits = {k} /\ j.edits[k] = v /\ DOMAIN j.entry = {} /\ live' = [live EXCEPT ![k] = v]
            \/ DOMAIN j.edits = {} /\ DOMAIN j.entry = {k} /\ j.entry[k] = v /\ live' = live
<1>1. /\ live' \in Snapshots /\ cursor \in Snapshots /\ DOMAIN live = Keys
      /\ j.edits = EditsBetween(cursor, live') /\ v # live[k] /\ j.versions = versions
  BY SnapshotDomain DEF TypeOK, Submits
<1>2. /\ DOMAIN j.edits = {l \in Keys : cursor[l] # live'[l]}
      /\ \A l \in DOMAIN j.edits : j.edits[l] = live'[l]
  <2>1. /\ DOMAIN EditsBetween(cursor, live') = {l \in Keys : cursor[l] # live'[l]}
        /\ \A l \in DOMAIN EditsBetween(cursor, live') : EditsBetween(cursor, live')[l] = live'[l]
    BY <1>1, BetweenIs
  <2> QED BY <1>1, <2>1
<1>3. CASE j.kind = "control" /\ k \notin Forms /\ live' = [live EXCEPT ![k] = v] /\ j.entry = NoEdits
  <2>1. DOMAIN j.edits = {k} /\ j.edits[k] = v
    BY <1>1, <1>2, <1>3
  <2> QED BY <1>1, <1>3, <2>1, NoEditsAre DEF OneKey
<1>4. CASE j.kind = "form" /\ k \in Forms /\ live' = live /\ j.entry = [key \in {k} |-> v]
  <2>1. DOMAIN j.edits = {}
    BY <1>2, <1>4
  <2>2. DOMAIN j.entry = {k} /\ j.entry[k] = v
    BY <1>4
  <2> QED BY <1>1, <1>4, <2>1, <2>2 DEF OneKey
<1> QED BY <1>3, <1>4 DEF Submits

LEMMA SubmitsShown ==
  ASSUME TypeOK, Shown, NEW j, NEW k \in Keys, NEW v \in Values, Submits(j, k, v)
  PROVE  Shown'
<1>1. /\ UNCHANGED <<closed, failures, accepted, versions>> /\ j \in Jobs /\ queue' = Append(queue, j)
      /\ cursor' = live' /\ live' \in Snapshots
  BY DEF Submits, host
<1> SUFFICES ASSUME ~closed, failures = 0
             PROVE  Plain(queue') /\ cursor' = Visible(accepted, versions, queue')
  BY <1>1 DEF Shown
<1>2. Plain(queue) /\ live = cursor /\ cursor = Visible(accepted, versions, queue)
  BY DEF Shown
<1>3. Plain(queue')
  BY <1>1, <1>2, SubmittedIs, PlainAppended
<1>4. accepted \in Snapshots /\ versions \in [Keys -> Nat] /\ queue \in Seq(Jobs) /\ queue' \in Seq(Jobs) /\ live \in Snapshots
  BY <1>1, AppendProperties DEF TypeOK
<1>5. ASSUME NEW l \in Keys
      PROVE  Visible(accepted, versions, queue')[l] = live'[l]
  <2>1. Visible(accepted, versions, queue')[l] =
          IF l \in Current(j, versions) THEN j.edits[l] ELSE live[l]
    BY <1>1, <1>2, <1>4, VisibleAppended
  <2>2. Current(j, versions) = DOMAIN j.edits
    BY <1>2, SubmittedIs DEF Current
  <2>3. /\ DOMAIN live = Keys
        /\ \/ DOMAIN j.edits = {k} /\ j.edits[k] = v /\ live' = [live EXCEPT ![k] = v]
           \/ DOMAIN j.edits = {} /\ live' = live
    BY <1>2, <1>4, SubmittedIs, SnapshotDomain
  <2> QED BY <2>1, <2>2, <2>3
<1>6. Visible(accepted, versions, queue') \in Snapshots
  BY <1>4, VisibleIs
<1> QED BY <1>1, <1>3, <1>5, <1>6, SameSnapshot

LEMMA SameShown ==
  ASSUME Shown, UNCHANGED <<live, cursor, accepted, versions, queue>>, ~closed' /\ failures' = 0 => ~closed /\ failures = 0
  PROVE  Shown'
BY DEF Shown

LEMMA ReadEndsShown ==
  ASSUME TypeOK, Shown, ReadEnds, UNCHANGED <<live, cursor, accepted, versions, closed, failures>>
  PROVE  Shown'
<1>1. closed \/ queue' = Scheduled
  BY DEF ReadEnds
<1> QED BY <1>1, ScheduledShown DEF Shown, TypeOK

LEMMA AdoptCandidateShown ==
  ASSUME TypeOK, Settled(cursor'), live = cursor, cursor = Visible(accepted, versions, queue), AdoptCandidate
  PROVE  live' = cursor' /\ cursor' = Visible(accepted', versions', queue)
<1>1. CASE candidate = None
  BY <1>1, AdoptCandidateIs DEF owned
<1>2. CASE candidate # None
  <2>1. candidate \in Candidates /\ Adopt(candidate)
    BY <1>2, AdoptCandidateIs
  <2>2. cursor' \in Snapshots
    BY AdoptCandidateIs
  <2>3. Normalized(cursor') = cursor'
    BY <2>2, SettledStays
  <2> QED BY <2>1, <2>3, AdoptIs
<1> QED BY <1>1, <1>2

(* A job that has nothing shown of its own leaves without a trace. *)
LEMMA TailShown ==
  ASSUME TypeOK, queue # <<>>, NEW s \in Snapshots, NEW epochs \in [Keys -> Nat], Current(Job, epochs) = {}
  PROVE  Visible(s, epochs, Tail(queue)) = Visible(s, epochs, queue)
<1>1. \A k \in Keys : Visible(s, epochs, Tail(queue))[k] = Visible(s, epochs, queue)[k]
  BY VisibleTail
<1>2. Visible(s, epochs, Tail(queue)) \in Snapshots /\ Visible(s, epochs, queue) \in Snapshots
  BY JobIs, VisibleIs DEF TypeOK
<1> QED BY <1>1, <1>2, SameSnapshot

LEMMA RefusedShown ==
  ASSUME TypeOK, Shown, queue # <<>>, Refused, UNCHANGED <<closed, failures>>,
         ~closed /\ failures = 0 => Current(Job, versions) = {}
  PROVE  Shown'
<1>1. /\ queue' = Tail(queue) /\ cursor' = Visible(accepted, versions, Tail(queue))
      /\ UNCHANGED <<live, accepted, versions>>
  BY DEF Refused, Finish
<1> QED BY <1>1, TailShown, PlainTail DEF Shown, TypeOK

LEMMA JobPreparesShown ==
  ASSUME TypeOK, Shown, JobPrepares, AllSettled'
  PROVE  Shown'
<1>1. UNCHANGED <<closed, failures>> /\ AdoptCandidate /\ queue # <<>>
  BY DEF JobPrepares, host, bounds, TypeOK
<1> SUFFICES ASSUME ~closed, failures = 0
             PROVE  Plain(queue') /\ live' = cursor' /\ cursor' = Visible(accepted', versions', queue')
  BY <1>1 DEF Shown
<1>2. Plain(queue) /\ live' = cursor' /\ cursor' = Visible(accepted', versions', queue)
  BY <1>1, AdoptCandidateShown DEF Shown, AllSettled
<1>3. CASE UNCHANGED queue
  BY <1>2, <1>3
<1>4. CASE Job.kind = "adopt" /\ queue' = Tail(queue)
  <2>1. Plain(queue') /\ Current(Job, versions') = {}
    BY <1>1, <1>2, <1>4, PlainTail DEF OneKey, Current
  <2>2. accepted' \in Snapshots /\ versions' \in [Keys -> Nat]
    BY <1>1, AdoptCandidateIs
  <2> QED BY <1>1, <1>2, <1>4, <2>1, <2>2, TailShown
<1> QED BY <1>3, <1>4 DEF JobPrepares

LEMMA CheckReturnsShown ==
  ASSUME TypeOK, Shown, FailFree, CheckReturns, AllSettled'
  PROVE  Shown'
<1>1. UNCHANGED <<closed, failures>> /\ run.phase = "checked"
  BY DEF CheckReturns, host, bounds
<1> SUFFICES ASSUME ~closed, failures = 0
             PROVE  Shown'
  BY <1>1 DEF Shown
<1>2. run.raw \notin {None, Torn} /\ ~failedRead
  BY <1>1 DEF FailFree
<1>3. CASE UNCHANGED <<owned, queue>>
  BY <1>1, <1>3, SameShown DEF owned
<1>4. CASE /\ Adopt([raw |-> run.raw, snapshot |-> Normalized(run.raw), base |-> accepted, overwritten |-> FALSE])
           /\ UNCHANGED queue
  <2>1. Normalized(cursor') = cursor'
    BY <1>2, <1>4, CheckAdopts, SettledStays DEF AllSettled
  <2> QED BY <1>1, <1>2, <1>4, <2>1, CheckAdopts DEF Shown
<1>5. UNCHANGED <<owned, queue>> \/
      (/\ Adopt([raw |-> run.raw, snapshot |-> Normalized(run.raw), base |-> accepted, overwritten |-> FALSE])
       /\ UNCHANGED queue)
  BY <1>2, Zenon DEF CheckReturns
<1> QED BY <1>3, <1>4, <1>5

(* A save that is not stored was asked nothing that is shown: its key is   *)
(* another writer's now, or it is a form's.                                *)
LEMMA JobCommitsShown ==
  ASSUME TypeOK, Shape, Shown, JobCommits
  PROVE  Shown'
<1>1. UNCHANGED <<closed, failures>> /\ queue # <<>> /\ run.phase = "prepared"
  BY DEF JobCommits, host, bounds, TypeOK
<1>2. CASE UNCHANGED <<owned, queue>>
  BY <1>1, <1>2, SameShown DEF owned
<1>3. CASE /\ Refused
           /\ DOMAIN JobEdits = {} \/ Unchanged \/ \E k \in DOMAIN JobEdits : Job.versions[k] # versions[k]
  <2> SUFFICES ASSUME ~closed, failures = 0, DOMAIN Job.edits # {}
               PROVE  Current(Job, versions) = {}
    BY <1>1, <1>3, RefusedShown DEF Current
  <2>1. OneKey(Job)
    BY <1>1, PlainTail DEF Shown
  <2>2. Job.kind = "control" /\ DOMAIN Job.entry = {}
    BY <2>1 DEF OneKey
  <2>3. DOMAIN JobEdits = DOMAIN Job.edits
    BY <1>1, <2>2, JobEditsAre
  <2>4. \E k \in DOMAIN Job.edits : Job.versions[k] # versions[k]
    BY <1>3, <2>2, <2>3 DEF Unchanged
  <2> QED BY <2>1, <2>4 DEF OneKey, Current
<1> QED BY <1>2, <1>3 DEF JobCommits

(* A save that was stored shows what was shown, and the entry of a form.   *)
LEMMA SavedShown ==
  ASSUME TypeOK, Shape, AllSettled, Shown, Writing, Saved, UNCHANGED <<closed, failures>>
  PROVE  Shown'
<1>1. /\ accepted' = run.next /\ UNCHANGED versions /\ live' = Applied(live, Job.entry) /\ live' \in Snapshots
      /\ queue' = Tail(queue) /\ cursor' = Visible(run.next, versions, Tail(queue)) /\ cursor' \in Snapshots
      /\ queue # <<>> /\ run.next \in Snapshots /\ run.next = Rebased(JobEdits)
      /\ \A k \in DOMAIN JobEdits : Job.versions[k] = versions[k]
  BY SavedIs DEF TypeOK, Shape, Writing
<1> SUFFICES ASSUME ~closed, failures = 0
             PROVE  Plain(Tail(queue)) /\ live' = cursor'
  BY <1>1 DEF Shown
<1>2. Plain(queue) /\ live = cursor /\ cursor = Visible(accepted, versions, queue)
  BY DEF Shown
<1>3. Plain(Tail(queue)) /\ OneKey(Job)
  BY <1>1, <1>2, PlainTail
<1>4. accepted \in Snapshots /\ live \in Snapshots /\ versions \in [Keys -> Nat] /\ queue \in Seq(Jobs)
  BY DEF TypeOK
<1>5. ASSUME NEW k \in Keys
      PROVE  cursor'[k] = live'[k]
  <2>1. run.next[k] = IF k \in DOMAIN Job.entry THEN Job.entry[k]
                      ELSE IF k \in DOMAIN Job.edits THEN Job.edits[k] ELSE accepted[k]
    BY <1>1, SettledEditsAre
  <2>2. live'[k] = IF k \in DOMAIN Job.entry THEN Job.entry[k] ELSE Visible(accepted, versions, queue)[k]
    BY <1>1, <1>2, <1>4, JobIs, AppliedIs
  <2>3. CASE k \notin DOMAIN Job.entry
    <3>1. k \in Current(Job, versions) <=> k \in DOMAIN Job.edits
      BY <1>1, JobEditsAre DEF Current
    <3>2. run.next[k] = IF k \in Current(Job, versions) THEN Job.edits[k] ELSE accepted[k]
      BY <2>1, <2>3, <3>1
    <3>3. Visible(run.next, versions, Tail(queue))[k] = Visible(accepted, versions, queue)[k]
      BY <1>1, <1>4, <3>2, VisibleTail
    <3> QED BY <1>1, <2>2, <2>3, <3>3
  <2>4. CASE k \in DOMAIN Job.entry
    <3>1. k \in Forms
      BY <1>3, <2>4 DEF OneKey
    <3>2. Owning(versions, Tail(queue), k) = {}
      BY <1>3, <3>1 DEF Owning, Current, Plain, OneKey
    <3>3. Visible(run.next, versions, Tail(queue))[k] = run.next[k]
      BY <1>1, <1>4, <3>2, JobIs, VisibleIs
    <3> QED BY <1>1, <2>1, <2>2, <2>4, <3>3
  <2> QED BY <2>3, <2>4
<1> QED BY <1>1, <1>3, <1>5, SameSnapshot

LEMMA NextShown ==
  ASSUME TypeOK, Shape, AllSettled, FailFree, Shown, [Next]_vars, FailFree', AllSettled'
  PROVE  Shown'
<1>0. failures \in Nat /\ failures' \in Nat
  BY DEF FailFree
<1>1. CASE UNCHANGED vars
  BY <1>1, SameShown DEF vars
<1>2. ASSUME NEW k \in Keys, NEW v \in Values, UseControl(k, v) \/ SubmitForm(k, v)
      PROVE  Shown'
  BY <1>2, UseControlIs, SubmitFormIs, SubmitsShown
<1>3. CASE Notice \/ JobAwaits
  BY <1>3, SameShown DEF Notice, JobAwaits, host, owned, write, bounds
<1>4. CASE ReadTakes \/ CheckTakes \/ VerifyTakes
  <2>1. failures' = failures \/ failures' = failures + 1
    BY <1>4 DEF ReadTakes, CheckTakes, VerifyTakes, Take
  <2> QED BY <1>0, <1>4, <2>1, SameShown DEF ReadTakes, CheckTakes, VerifyTakes, host, owned, write
<1>5. CASE ReadReturns
  <2>1. UNCHANGED <<live, cursor, accepted, versions, closed, failures>>
    BY <1>5 DEF ReadReturns, host, owned, bounds
  <2>2. ReadEnds \/ UNCHANGED queue
    BY <1>5 DEF ReadReturns, ReadAgain
  <2> QED BY <2>1, <2>2, SameShown, ReadEndsShown
<1>6. CASE ReadRetries
  <2>1. UNCHANGED <<live, cursor, accepted, versions, closed, failures>>
    BY <1>6 DEF ReadRetries, host, owned, bounds
  <2>2. ReadEnds \/ UNCHANGED queue
    BY <1>6 DEF ReadRetries, ReadAgain
  <2> QED BY <2>1, <2>2, SameShown, ReadEndsShown
<1>7. CASE JobMeetsClose \/ Dispose
  BY <1>7 DEF JobMeetsClose, Dispose, host, Shown
<1>8. CASE JobIsRefused
  <2>1. failures # 0 /\ UNCHANGED failures
    BY <1>8 DEF JobIsRefused, FailFree, bounds
  <2> QED BY <2>1 DEF Shown
<1>9. CASE JobReprepares
  <2>1. UNCHANGED <<queue, closed, failures>> /\ AdoptCandidate
    BY <1>9 DEF JobReprepares, host, bounds
  <2> QED BY <2>1, AdoptCandidateShown DEF Shown, AllSettled
<1>10. CASE SaveLands
  BY <1>10, SameShown DEF SaveLands, owned, bounds
<1>11. CASE SaveReturns
  <2>1. UNCHANGED <<closed, failures>> /\ Writing /\ (closed \/ Saved)
    BY <1>11 DEF SaveReturns, host, bounds, Writing
  <2>2. CASE closed
    BY <2>1, <2>2 DEF Shown
  <2> QED BY <2>1, <2>2, SavedShown
<1>12. CASE SaveRejected
  <2>1. failures' # 0
    BY <1>0, <1>12 DEF SaveRejected
  <2> QED BY <2>1 DEF Shown
<1>13. CASE VerifyReturns
  <2>1. failures' # 0
    BY <1>13 DEF VerifyReturns, FailFree, bounds
  <2> QED BY <2>1 DEF Shown
<1>14. ASSUME NEW f \in Incoming, OtherWrites(f)
       PROVE  Shown'
  BY <1>14, SameShown DEF OtherWrites, Replaced, owned, write
<1>15. CASE FileTorn
  <2>1. failures' # 0
    BY <1>0, <1>15 DEF FileTorn
  <2> QED BY <2>1 DEF Shown
<1> QED
  BY <1>1, <1>2, <1>3, <1>4, <1>5, <1>6, <1>7, <1>8, <1>9, <1>10, <1>11, <1>12, <1>13, <1>14, <1>15, JobPreparesShown,
     CheckReturnsShown, JobCommitsShown
  DEF Next

LEMMA EmptyShown ==
  ASSUME NEW s \in Snapshots, NEW epochs \in [Keys -> Nat]
  PROVE  Visible(s, epochs, <<>>) = s
<1>1. \A k \in Keys : Owning(epochs, <<>>, k) = {}
  BY DEF Owning
<1>2. <<>> \in Seq(Jobs)
  BY EmptySeq
<1>3. /\ Visible(s, epochs, <<>>) \in Snapshots
      /\ \A k \in Keys : Owning(epochs, <<>>, k) = {} => Visible(s, epochs, <<>>)[k] = s[k]
  BY <1>2, VisibleIs
<1> QED BY <1>1, <1>3, SameSnapshot

LEMMA InitShown ==
  ASSUME Init
  PROVE  FailFree /\ Shown
<1>1. reading.phase = "idle" /\ run.phase = "idle" /\ InitialFile \in Snapshots
  BY SettingsAssumption DEF Init, NoRead, NoRun
<1>2. FailFree
  BY <1>1, Apart DEF Init, FailFree
<1>3. Normalized(InitialFile) \in Snapshots /\ [k \in Keys |-> 0] \in [Keys -> Nat]
  BY <1>1, NormalizedIs
<1>4. accepted \in Snapshots /\ versions \in [Keys -> Nat]
  BY <1>3 DEF Init
<1>5. Visible(accepted, versions, <<>>) = accepted
  BY <1>4, EmptyShown
<1> QED BY <1>2, <1>5 DEF Init, Shown, Plain

(* In the end the window and the file agree, in whatever order             *)
(* replacements, notices, reads and saves came (notice(), adopt(),         *)
(* finish()).                                                              *)
THEOREM SettingsConverged == Spec => []Converged
<1> DEFINE Kept == AllSettled /\ Revised /\ Told /\ Fresh /\ FailFree /\ Shown
           IInv == TypeOK /\ Shape /\ Stored /\ (~rewritten => Kept)
<1>1. Init => IInv
  BY InitTypes, InitStored, InitSettled, InitCounted, InitTold, InitFresh, InitShown
<1>2. IInv /\ [Next]_vars => IInv'
  <2> SUFFICES ASSUME IInv, [Next]_vars
               PROVE  IInv'
    OBVIOUS
  <2>1. (TypeOK /\ Shape /\ Stored)'
    BY NextTypes, NextShape, NextStored
  <2>2. ASSUME ~rewritten'
        PROVE  Kept'
    BY <2>1, <2>2, RewrittenStays, NextSettled, NextRevised, NextTold, NextFresh, NextFailFree, NextShown
  <2> QED BY <2>1, <2>2
<1>3. IInv => Converged
  <2> SUFFICES ASSUME IInv, Quiet, ~Missed, ~rewritten, ~failedRead, file # Torn
               PROVE  accepted = Normalized(file) /\ (failures = 0 => live = accepted /\ cursor = accepted)
    BY DEF Converged
  <2>1. candidate = None /\ ~closed /\ run.phase = "idle"
    BY DEF Quiet, Told, Awaits, Adopting, TypeOK
  <2>2. \A k \in Keys : accepted[k] = Whole[k]
    BY <2>1 DEF Quiet, Fresh, Expects, Agreed, Writing
  <2>3. file = content /\ file \in Snapshots /\ accepted \in Snapshots /\ versions \in [Keys -> Nat]
    BY DEF Shape, TypeOK
  <2>4. accepted = Normalized(file)
    BY <2>2, <2>3, NormalizedIs, SameSnapshot DEF Whole
  <2>5. failures = 0 => live = accepted /\ cursor = accepted
    BY <2>1, <2>3, EmptyShown DEF Quiet, Shown
  <2> QED BY <2>4, <2>5
<1> QED BY <1>1, <1>2, <1>3, PTL DEF Spec
-----------------------------------------------------------------------------
(***************************************************************************)
(* Wanted: the last submission of a key that no other writer changed is    *)
(* what the last intent in the queue asks for, or else what is stored.  No *)
(* intent is newer than the epochs (Dated), so an epoch of zero retires    *)
(* none.                                                                   *)
(***************************************************************************)
Asking(jobs, k) == {i \in DOMAIN jobs : k \in DOMAIN jobs[i].edits \cup DOMAIN jobs[i].entry}
Wish(job, k) == IF k \in DOMAIN job.entry THEN job.entry[k] ELSE job.edits[k]
Ends(jobs, k, stored, value) ==
  IF Asking(jobs, k) = {} THEN value = stored
  ELSE \E i \in Asking(jobs, k) : (\A m \in Asking(jobs, k) : m <= i) /\ value = Wish(jobs[i], k)

Dated == \A i \in DOMAIN queue : \A k \in Keys : queue[i].versions[k] <= versions[k]
Calm == ~Missed /\ ~closed /\ failures = 0
Wanted ==
  /\ wanted \in [Keys -> Values]
  /\ Calm => \A k \in Keys : foreign[k] = 0 => Ends(queue, k, Whole[k], wanted[k])

(* What is asked after the head is what the tail asks; a head that asks    *)
(* last leaves what it stored.                                             *)
LEMMA EndsTail ==
  ASSUME TypeOK, queue # <<>>, NEW k \in Keys, NEW stored, NEW after, NEW value, Ends(queue, k, stored, value),
         after = IF k \in DOMAIN Job.edits \cup DOMAIN Job.entry THEN Wish(Job, k) ELSE stored
  PROVE  Ends(Tail(queue), k, after, value)
<1> DEFINE rest == Asking(Tail(queue), k)
           all == Asking(queue, k)
<1>1. /\ queue \in Seq(Jobs) /\ Len(queue) \in Nat /\ Len(queue) > 0 /\ DOMAIN queue = 1 .. Len(queue)
      /\ Len(Tail(queue)) = Len(queue) - 1 /\ \A i \in 1 .. Len(Tail(queue)) : Tail(queue)[i] = queue[i + 1]
      /\ DOMAIN Tail(queue) = 1 .. Len(Tail(queue)) /\ Job = queue[1]
  BY EmptySeq, LenProperties, HeadTailProperties DEF TypeOK, Job
<1>2. all \subseteq 1 .. Len(queue) /\ rest \subseteq 1 .. Len(Tail(queue))
  BY <1>1 DEF Asking
<1>3. \A i \in 1 .. Len(Tail(queue)) : i \in rest <=> i + 1 \in all
  BY <1>1 DEF Asking
<1>4. \A i \in all : i = 1 \/ i - 1 \in rest
  BY <1>1, <1>2, <1>3
<1>5. 1 \in all <=> k \in DOMAIN Job.edits \cup DOMAIN Job.entry
  BY <1>1 DEF Asking
<1>6. CASE all = {}
  <2>1. rest = {}
    BY <1>2, <1>3, <1>6
  <2> QED BY <1>5, <1>6, <2>1 DEF Ends
<1>7. CASE all # {}
  <2>1. PICK i \in all : (\A m \in all : m <= i) /\ value = Wish(queue[i], k)
    BY <1>7 DEF Ends
  <2> HIDE DEF all, rest
  <2>2. CASE rest = {}
    <3>1. i = 1
      BY <1>4, <2>2
    <3> QED BY <1>1, <1>5, <2>1, <2>2, <3>1 DEF Ends, rest
  <2>3. CASE rest # {}
    <3>0. PICK l \in rest : l \in 1 .. Len(Tail(queue)) /\ l + 1 \in all
      BY <1>2, <1>3, <2>3
    <3>1. i > 1 /\ i \in Nat
      BY <1>1, <1>2, <2>1, <3>0
    <3>2. i - 1 \in rest /\ Tail(queue)[i - 1] = queue[i]
      BY <1>1, <1>2, <1>4, <3>1
    <3>3. \A m \in rest : m <= i - 1
      BY <1>1, <1>2, <1>3, <2>1, <3>1
    <3> QED BY <2>1, <2>3, <3>2, <3>3 DEF Ends, rest
  <2> QED BY <2>2, <2>3
<1> QED BY <1>6, <1>7

LEMMA EndsAppended ==
  ASSUME TypeOK, NEW j \in Jobs, NEW k \in Keys, NEW stored, NEW value, Ends(queue, k, stored, value)
  PROVE  IF k \in DOMAIN j.edits \cup DOMAIN j.entry THEN Ends(Append(queue, j), k, stored, Wish(j, k))
         ELSE Ends(Append(queue, j), k, stored, value)
<1> DEFINE jobs == Append(queue, j)
           last == Len(queue) + 1
<1>1. queue \in Seq(Jobs) /\ Len(queue) \in Nat /\ DOMAIN queue = 1 .. Len(queue)
  BY LenProperties DEF TypeOK
<1>2. /\ DOMAIN jobs = 1 .. last
      /\ \A l \in 1 .. Len(queue) : jobs[l] = queue[l]
      /\ jobs[last] = j
  BY <1>1, AppendProperties
<1> HIDE DEF jobs
<1>3. CASE k \in DOMAIN j.edits \cup DOMAIN j.entry
  <2>1. last \in Asking(jobs, k) /\ \A m \in Asking(jobs, k) : m <= last
    BY <1>1, <1>2, <1>3 DEF Asking
  <2>2. Wish(jobs[last], k) = Wish(j, k)
    BY <1>2
  <2>3. Ends(jobs, k, stored, Wish(j, k))
    BY <2>1, <2>2 DEF Ends
  <2> QED BY <1>3, <2>3 DEF jobs
<1>4. CASE k \notin DOMAIN j.edits \cup DOMAIN j.entry
  <2>1. Asking(jobs, k) = Asking(queue, k)
    <3>1. \A i \in DOMAIN queue : i \in DOMAIN jobs /\ jobs[i] = queue[i]
      BY <1>1, <1>2
    <3>2. \A i \in DOMAIN jobs : i \in DOMAIN queue \/ i = last
      BY <1>1, <1>2
    <3> QED BY <1>2, <1>4, <3>1, <3>2 DEF Asking
  <2>2. \A i \in Asking(queue, k) : jobs[i] = queue[i]
    BY <1>1, <1>2 DEF Asking
  <2>3. Ends(jobs, k, stored, value)
    BY <2>1, <2>2 DEF Ends
  <2> QED BY <1>4, <2>3 DEF jobs
<1> QED BY <1>3, <1>4

LEMMA EndsScheduled ==
  ASSUME TypeOK, NEW k \in Keys, NEW stored, NEW value, Ends(queue, k, stored, value)
  PROVE  Ends(Scheduled, k, stored, value)
<1>1. k \notin DOMAIN AdoptJob.edits \cup DOMAIN AdoptJob.entry
  BY NoEditsAre DEF AdoptJob
<1>2. Ends(Append(queue, AdoptJob), k, stored, value)
  BY <1>1, AdoptJobIs, EndsAppended
<1> QED BY <1>2 DEF Scheduled

(* Dated. *)
LEMMA DatedTail ==
  ASSUME TypeOK, Dated, queue # <<>>, queue' = Tail(queue), \A k \in Keys : versions[k] <= versions'[k],
         versions' \in [Keys -> Nat]
  PROVE  Dated'
<1> SUFFICES ASSUME NEW i \in DOMAIN Tail(queue), NEW k \in Keys
             PROVE  Tail(queue)[i].versions[k] <= versions'[k]
  BY DEF Dated
<1>1. i + 1 \in DOMAIN queue /\ Tail(queue)[i] = queue[i + 1]
  BY TailElements
<1>2. queue[i + 1] \in Jobs
  BY <1>1 DEF TypeOK
<1>3. queue[i + 1].versions[k] \in Nat /\ versions[k] \in Nat /\ versions'[k] \in Nat
  BY <1>2 DEF Jobs, TypeOK
<1>4. queue[i + 1].versions[k] <= versions[k] /\ versions[k] <= versions'[k]
  BY <1>1 DEF Dated
<1> QED BY <1>1, <1>3, <1>4

LEMMA DatedGrows ==
  ASSUME TypeOK, Dated, queue' = queue, \A k \in Keys : versions[k] <= versions'[k], versions' \in [Keys -> Nat]
  PROVE  Dated'
<1> SUFFICES ASSUME NEW i \in DOMAIN queue, NEW k \in Keys
             PROVE  queue[i].versions[k] <= versions'[k]
  BY DEF Dated
<1>1. queue[i] \in Jobs
  BY DEF TypeOK
<1>2. queue[i].versions[k] \in Nat /\ versions[k] \in Nat /\ versions'[k] \in Nat
  BY <1>1 DEF Jobs, TypeOK
<1>3. queue[i].versions[k] <= versions[k] /\ versions[k] <= versions'[k]
  BY DEF Dated
<1> QED BY <1>2, <1>3

LEMMA DatedAppended ==
  ASSUME TypeOK, Dated, NEW j \in Jobs, \A k \in Keys : j.versions[k] <= versions[k],
         queue' = Append(queue, j), UNCHANGED versions
  PROVE  Dated'
<1> SUFFICES ASSUME NEW i \in DOMAIN Append(queue, j), NEW k \in Keys
             PROVE  Append(queue, j)[i].versions[k] <= versions[k]
  BY DEF Dated
<1>1. (i \in DOMAIN queue /\ Append(queue, j)[i] = queue[i]) \/ Append(queue, j)[i] = j
  BY AppendElements
<1>2. CASE i \in DOMAIN queue /\ Append(queue, j)[i] = queue[i]
  BY <1>2 DEF Dated
<1>3. CASE Append(queue, j)[i] = j
  BY <1>3
<1> QED BY <1>1, <1>2, <1>3

LEMMA ReadEndsDated ==
  ASSUME TypeOK, Dated, ReadEnds, UNCHANGED versions
  PROVE  Dated'
<1>1. versions \in [Keys -> Nat]
  BY DEF TypeOK
<1>2. CASE queue' = queue
  BY <1>2 DEF Dated
<1>3. CASE queue' = Append(queue, AdoptJob)
  <2>1. \A k \in Keys : AdoptJob.versions[k] <= versions[k]
    BY <1>1 DEF AdoptJob
  <2> QED BY <1>3, <2>1, AdoptJobIs, DatedAppended
<1> QED BY <1>2, <1>3 DEF ReadEnds, Scheduled

LEMMA EpochsGrow ==
  ASSUME TypeOK, AdoptCandidate
  PROVE  versions' \in [Keys -> Nat] /\ \A k \in Keys : versions[k] <= versions'[k]
<1>1. versions \in [Keys -> Nat] /\ versions' \in [Keys -> Nat]
  BY AdoptCandidateIs DEF TypeOK
<1>2. CASE candidate = None
  BY <1>1, <1>2, AdoptCandidateIs DEF owned
<1>3. CASE candidate # None
  <2>1. \A k \in Keys : versions'[k] = versions[k] + 1 \/ versions'[k] = versions[k]
    BY <1>3, AdoptCandidateIs, AdoptIs
  <2> QED BY <1>1, <2>1
<1> QED BY <1>2, <1>3

LEMMA NextDated ==
  ASSUME TypeOK, Dated, [Next]_vars
  PROVE  Dated'
<1>0. versions \in [Keys -> Nat] /\ \A k \in Keys : versions[k] <= versions[k]
  BY DEF TypeOK
<1>1. ASSUME UNCHANGED <<queue, versions>>
      PROVE  Dated'
  BY <1>1 DEF Dated
<1>2. ASSUME queue # <<>>, queue' = Tail(queue), UNCHANGED versions
      PROVE  Dated'
  BY <1>0, <1>2, DatedTail
<1>3. CASE UNCHANGED vars
  BY <1>1, <1>3 DEF vars
<1>4. ASSUME NEW k \in Keys, NEW v \in Values, UseControl(k, v) \/ SubmitForm(k, v)
      PROVE  Dated'
  <2>1. PICK j \in Jobs : Submits(j, k, v)
    BY <1>4, UseControlIs, SubmitFormIs
  <2> QED BY <1>0, <2>1, DatedAppended DEF Submits
<1>5. CASE ReadReturns
  BY <1>1, <1>5, ReadEndsDated DEF ReadReturns, ReadAgain, owned
<1>6. CASE ReadRetries
  BY <1>1, <1>6, ReadEndsDated DEF ReadRetries, ReadAgain, owned
<1>7. CASE JobPrepares
  <2>1. queue # <<>> /\ AdoptCandidate /\ (queue' = queue \/ queue' = Tail(queue))
    BY <1>7 DEF JobPrepares, TypeOK
  <2> QED BY <2>1, EpochsGrow, DatedTail, DatedGrows
<1>8. CASE JobReprepares
  BY <1>8, EpochsGrow, DatedGrows DEF JobReprepares
<1>9. CASE JobMeetsClose \/ JobIsRefused
  BY <1>2, <1>9 DEF JobMeetsClose, JobIsRefused, Refused, Finish, TypeOK
<1>10. CASE CheckReturns
  <2>1. CASE Refused
    BY <1>2, <1>10, <2>1 DEF CheckReturns, Refused, Finish, TypeOK
  <2>2. CASE UNCHANGED <<owned, queue>>
    BY <1>1, <2>2 DEF owned
  <2>3. CASE /\ run.raw \notin {None, Torn}
             /\ Adopt([raw |-> run.raw, snapshot |-> Normalized(run.raw), base |-> accepted, overwritten |-> FALSE])
             /\ UNCHANGED queue
    <3>1. /\ versions' \in [Keys -> Nat]
          /\ \A k \in Keys : versions'[k] = versions[k] + 1 \/ versions'[k] = versions[k]
      BY <2>3, CheckAdopts
    <3>2. \A k \in Keys : versions[k] <= versions'[k]
      BY <1>0, <3>1
    <3> QED BY <2>3, <3>1, <3>2, DatedGrows
  <2> QED BY <1>10, <2>1, <2>2, <2>3 DEF CheckReturns
<1>11. CASE JobCommits
  BY <1>1, <1>2, <1>11 DEF JobCommits, Refused, Finish, TypeOK, owned
<1>12. CASE SaveReturns
  BY <1>2, <1>12 DEF SaveReturns, Saved, Refused, Finish, TypeOK
<1>13. CASE VerifyReturns
  BY <1>2, <1>13 DEF VerifyReturns, Saved, Finish, TypeOK
<1>14. CASE Notice \/ ReadTakes \/ JobAwaits \/ CheckTakes \/ SaveLands \/ SaveRejected \/ VerifyTakes \/ FileTorn \/ Dispose
  BY <1>1, <1>14 DEF Notice, ReadTakes, JobAwaits, CheckTakes, SaveLands, SaveRejected, VerifyTakes, FileTorn, Replaced,
                     Dispose, owned, write
<1>15. ASSUME NEW f \in Incoming, OtherWrites(f)
       PROVE  Dated'
  BY <1>1, <1>15 DEF OtherWrites, Replaced, owned, write
<1> QED BY <1>3, <1>4, <1>5, <1>6, <1>7, <1>8, <1>9, <1>10, <1>11, <1>12, <1>13, <1>14, <1>15 DEF Next
(* Wanted. *)
LEMMA CalmStays ==
  ASSUME TypeOK, FailFree, [Next]_vars, Calm'
  PROVE  Calm
<1>0. failures \in Nat
  BY DEF FailFree
<1> SUFFICES /\ Missed => Missed'
             /\ closed => closed'
             /\ failures # 0 => failures' # 0
  BY DEF Calm
<1>1. ASSUME UNCHANGED <<chances, closed>>, failures' = failures \/ failures' = failures + 1
      PROVE  (Missed => Missed') /\ (closed => closed') /\ (failures # 0 => failures' # 0)
  BY <1>0, <1>1 DEF Missed, chances
<1>2. ASSUME NEW k \in Keys, NEW v \in Values, UseControl(k, v) \/ SubmitForm(k, v)
      PROVE  UNCHANGED <<chances, closed, failures>>
  BY <1>2, UseControlIs, SubmitFormIs DEF Submits, host
<1>3. CASE ReadTakes \/ CheckTakes \/ VerifyTakes \/ SaveRejected
  <2>1. failures' = failures \/ failures' = failures + 1
    BY <1>3 DEF ReadTakes, CheckTakes, VerifyTakes, SaveRejected, Take
  <2>2. UNCHANGED <<chances, closed>>
    BY <1>3 DEF ReadTakes, CheckTakes, VerifyTakes, SaveRejected, host, history, requests
  <2> QED BY <1>1, <2>1, <2>2
<1>4. CASE Notice \/ ReadReturns \/ ReadRetries \/ JobAwaits \/ JobMeetsClose \/ JobIsRefused \/ JobCommits \/ SaveLands
           \/ SaveReturns
  <2>1. UNCHANGED <<chances, closed, failures>>
    BY <1>4 DEF Notice, ReadReturns, ReadRetries, JobAwaits, JobMeetsClose, JobIsRefused, JobCommits, SaveLands,
                SaveReturns, host, bounds, history, requests
  <2> QED BY <1>1, <2>1
<1>5. CASE JobPrepares \/ JobReprepares
  <2>1. UNCHANGED <<raced, overtaken, restored, unverified, closed, failures>> /\ (beside => beside')
    BY <1>5, Zenon DEF JobPrepares, JobReprepares, host, bounds
  <2> QED BY <2>1 DEF Missed
<1>6. CASE CheckReturns
  <2>1. restored => restored'
    BY <1>6, Zenon DEF CheckReturns
  <2>2. UNCHANGED <<raced, overtaken, beside, unverified, closed, failures>>
    BY <1>6 DEF CheckReturns, host, bounds
  <2> QED BY <2>1, <2>2 DEF Missed
<1>7. CASE VerifyReturns
  <2>1. unverified => unverified'
    BY <1>7, Zenon DEF VerifyReturns
  <2>2. UNCHANGED <<raced, overtaken, beside, restored, closed, failures>>
    BY <1>7 DEF VerifyReturns, host, bounds
  <2> QED BY <2>1, <2>2 DEF Missed
<1>8. ASSUME NEW f, Replaced(f)
      PROVE  (Missed => Missed') /\ (closed => closed')
  <2>1. (raced => raced') /\ (overtaken => overtaken') /\ UNCHANGED <<beside, restored, unverified, closed>>
    BY <1>8, Zenon DEF Replaced
  <2> QED BY <2>1 DEF Missed
<1>9. ASSUME NEW f \in Incoming, OtherWrites(f)
      PROVE  (Missed => Missed') /\ (closed => closed') /\ (failures # 0 => failures' # 0)
  BY <1>8, <1>9 DEF OtherWrites
<1>10. CASE FileTorn
  BY <1>0, <1>8, <1>10 DEF FileTorn
<1>11. CASE Dispose
  <2>1. UNCHANGED <<chances, failures>> /\ closed'
    BY <1>11 DEF Dispose, bounds, history, requests
  <2> QED BY <2>1 DEF Missed, chances
<1>12. CASE UNCHANGED vars
  BY <1>12 DEF vars, Missed
<1> QED
  BY <1>1, <1>2, <1>3, <1>4, <1>5, <1>6, <1>7, <1>9, <1>10, <1>11, <1>12 DEF Next

LEMMA SameWanted ==
  ASSUME Wanted, UNCHANGED <<queue, content, foreign, wanted>>, Calm' => Calm
  PROVE  Wanted'
BY DEF Wanted, Whole

LEMMA SubmitsWanted ==
  ASSUME TypeOK, Shown, Wanted, NEW j, NEW k \in Keys, NEW v \in Values, Submits(j, k, v), Calm' => Calm
  PROVE  Wanted'
<1>1. /\ j \in Jobs /\ queue' = Append(queue, j) /\ wanted' = [wanted EXCEPT ![k] = v]
      /\ UNCHANGED <<content, foreign>> /\ Whole' = Whole
  BY DEF Submits, Whole
<1>2. wanted' \in [Keys -> Values] /\ wanted'[k] = v /\ \A l \in Keys \ {k} : wanted'[l] = wanted[l]
  BY <1>1, SettingsAssumption DEF Wanted
<1> SUFFICES ASSUME Calm', NEW l \in Keys, foreign[l] = 0
             PROVE  Ends(queue', l, Whole[l], wanted'[l])
  BY <1>1, <1>2 DEF Wanted
<1>3. Ends(queue, l, Whole[l], wanted[l]) /\ live = cursor
  BY DEF Wanted, Calm, Shown
<1>4. /\ DOMAIN j.edits \cup DOMAIN j.entry = {k} /\ Wish(j, k) = v
  <2>1. \/ DOMAIN j.edits = {k} /\ j.edits[k] = v /\ DOMAIN j.entry = {}
        \/ DOMAIN j.edits = {} /\ DOMAIN j.entry = {k} /\ j.entry[k] = v
    BY <1>3, SubmittedIs
  <2> QED BY <2>1 DEF Wish
<1> QED BY <1>1, <1>2, <1>3, <1>4, EndsAppended

LEMMA ReadEndsWanted ==
  ASSUME TypeOK, Wanted, ReadEnds, UNCHANGED <<content, foreign, wanted>>, Calm' => Calm
  PROVE  Wanted'
<1>1. (Calm => queue' = Scheduled) /\ Whole' = Whole
  BY DEF ReadEnds, Calm, Whole
<1> QED BY <1>1, EndsScheduled DEF Wanted

LEMMA JobPreparesWanted ==
  ASSUME TypeOK, Shown, Wanted, JobPrepares, Calm' => Calm
  PROVE  Wanted'
<1>1. UNCHANGED <<content, foreign, wanted>> /\ Whole' = Whole /\ queue # <<>>
  BY DEF JobPrepares, Whole, TypeOK, requests
<1>2. CASE UNCHANGED queue
  BY <1>1, <1>2, SameWanted
<1>3. CASE Job.kind = "adopt" /\ queue' = Tail(queue)
  <2>1. Calm => DOMAIN Job.edits \cup DOMAIN Job.entry = {}
    BY <1>1, <1>3, PlainTail DEF Calm, Shown, OneKey
  <2> QED BY <1>1, <1>3, <2>1, EndsTail DEF Wanted
<1> QED BY <1>2, <1>3 DEF JobPrepares

(* An intent whose key no other writer changed is refused only when it     *)
(* asks for what is stored.                                                *)
LEMMA JobCommitsWanted ==
  ASSUME TypeOK, Shape, Stored, AllSettled, Counted, Shown, Dated, Wanted, JobCommits, Calm' => Calm
  PROVE  Wanted'
<1>1. /\ UNCHANGED <<content, foreign, wanted, file>> /\ Whole' = Whole /\ queue # <<>> /\ run.phase = "prepared"
      /\ accepted \in Snapshots /\ versions \in [Keys -> Nat] /\ foreign \in [Keys -> Nat]
  BY DEF JobCommits, Whole, TypeOK, Shape, host, requests
<1>2. CASE UNCHANGED queue
  BY <1>1, <1>2, SameWanted
<1>3. CASE /\ queue' = Tail(queue)
           /\ DOMAIN JobEdits = {} \/ Unchanged \/ \E k \in DOMAIN JobEdits : Job.versions[k] # versions[k]
  <2> SUFFICES ASSUME Calm, NEW k \in Keys, foreign[k] = 0, k \in DOMAIN Job.edits \cup DOMAIN Job.entry
               PROVE  Wish(Job, k) = Whole[k]
    BY <1>1, <1>3, EndsTail DEF Wanted
  <2>1. accepted = Whole
    BY <1>1, WindowAccepted DEF Calm
  <2>2. OneKey(Job) /\ Job.edits \in Edits /\ Job.entry \in Edits /\ Job.versions \in [Keys -> Nat]
    BY <1>1, PlainTail, JobIs DEF Calm, Shown
  <2>3. Job.versions[k] = versions[k]
    <3>1. Job.versions[k] <= versions[k]
      BY <1>1, TailElements DEF Dated
    <3>2. versions[k] <= foreign[k]
      BY DEF Calm, Counted
    <3> QED BY <1>1, <2>2, <3>1, <3>2
  <2>4. \A l \in DOMAIN JobEdits : l = k
    BY <1>1, <2>2, JobEditsAre DEF OneKey
  <2>5. CASE DOMAIN JobEdits = {}
    <3>1. k \notin DOMAIN Job.edits /\ k \in DOMAIN Job.entry
      BY <1>1, <2>5, JobEditsAre
    <3>2. Rebased(JobEdits)[k] = Job.entry[k] /\ Rebased(JobEdits)[k] = accepted[k]
      BY <1>1, <2>5, <3>1, JobEditsAre, SettledEditsAre
    <3> QED BY <2>1, <3>1, <3>2 DEF Wish
  <2>6. CASE Unchanged
    <3>1. Job.kind = "form" /\ Applied(View, Job.entry) = View
      BY <2>6 DEF Unchanged
    <3>2. k \notin DOMAIN Job.edits /\ k \in DOMAIN Job.entry
      BY <2>2, <3>1 DEF OneKey
    <3>3. View \in Snapshots /\ View[k] = Normal[accepted[k]]
      BY <1>1, <3>2, ViewIs
    <3>4. Applied(View, Job.entry)[k] = Job.entry[k]
      BY <2>2, <3>2, <3>3, AppliedIs
    <3>5. Normal[accepted[k]] = accepted[k]
      BY <1>1, SnapshotDomain DEF AllSettled, Settled
    <3> QED BY <2>1, <3>1, <3>2, <3>3, <3>4, <3>5 DEF Wish
  <2> QED BY <1>3, <2>3, <2>4, <2>5, <2>6
<1> QED BY <1>2, <1>3 DEF JobCommits, Refused, Finish

(* What a save stores is what its intent asks for, and else what was       *)
(* stored.                                                                 *)
LEMMA SavesAsked ==
  ASSUME TypeOK, Shape, AllSettled, Writing, content' = run.next, NEW k \in Keys
  PROVE  Whole'[k] = IF k \in DOMAIN Job.edits \cup DOMAIN Job.entry THEN Wish(Job, k) ELSE accepted[k]
<1>1. run.next \in Snapshots /\ queue # <<>> /\ run.next = Rebased(JobEdits)
  BY DEF TypeOK, Shape, Writing
<1>2. Settled(run.next) /\ Normalized(run.next) = run.next
  BY <1>1, RebasedSettled, SettledStays
<1>3. Whole' = run.next
  BY <1>2 DEF Whole
<1>4. run.next[k] = IF k \in DOMAIN Job.entry THEN Job.entry[k]
                    ELSE IF k \in DOMAIN Job.edits THEN Job.edits[k] ELSE accepted[k]
  BY <1>1, SettledEditsAre
<1> QED BY <1>3, <1>4 DEF Wish

LEMMA SaveLandsWanted ==
  ASSUME TypeOK, Shape, Stored, AllSettled, Wanted, SaveLands, Calm' => Calm
  PROVE  Wanted'
<1>1. UNCHANGED <<queue, foreign, wanted>> /\ content' = run.next /\ run.phase = "saving" /\ queue # <<>>
  BY DEF SaveLands, TypeOK, requests
<1> SUFFICES ASSUME Calm, NEW k \in Keys, Ends(queue, k, Whole[k], wanted[k])
             PROVE  Ends(queue, k, Whole'[k], wanted[k])
  BY <1>1 DEF Wanted
<1>2. accepted = Whole
  BY <1>1, WindowAccepted DEF Calm
<1>3. CASE k \in DOMAIN Job.edits \cup DOMAIN Job.entry
  <2>1. 1 \in Asking(queue, k)
    BY <1>1, <1>3, TailElements DEF Asking
  <2> QED BY <2>1 DEF Ends
<1>4. CASE k \notin DOMAIN Job.edits \cup DOMAIN Job.entry
  <2>1. Whole'[k] = Whole[k]
    BY <1>1, <1>2, <1>4, SavesAsked DEF Writing
  <2> QED BY <2>1
<1> QED BY <1>3, <1>4

LEMMA SaveReturnsWanted ==
  ASSUME TypeOK, Shape, Stored, AllSettled, Wanted, SaveReturns, Calm' => Calm
  PROVE  Wanted'
<1>1. UNCHANGED <<content, foreign, wanted, closed>> /\ Whole' = Whole /\ run.phase = "landed" /\ queue # <<>>
  BY DEF SaveReturns, Whole, TypeOK, history, requests, host
<1> SUFFICES ASSUME Calm, NEW k \in Keys, Ends(queue, k, Whole[k], wanted[k])
             PROVE  Ends(queue', k, Whole[k], wanted[k])
  BY <1>1 DEF Wanted
<1>2. queue' = Tail(queue)
  BY DEF SaveReturns, Calm, Saved, Finish
<1>3. content = run.next
  <2>1. file = run.next /\ run.next \in Snapshots
    BY <1>1 DEF Calm, Stored, Window, InWindow, Writing, TypeOK
  <2> QED BY <2>1, Apart DEF Shape
<1>4. CASE k \in DOMAIN Job.edits \cup DOMAIN Job.entry
  <2>1. Whole'[k] = Wish(Job, k)
    BY <1>1, <1>3, <1>4, SavesAsked DEF Writing
  <2> QED BY <1>1, <1>2, <1>4, <2>1, EndsTail
<1>5. CASE k \notin DOMAIN Job.edits \cup DOMAIN Job.entry
  BY <1>1, <1>2, <1>5, EndsTail
<1> QED BY <1>4, <1>5

LEMMA NextWanted ==
  ASSUME TypeOK, Shape, Stored, AllSettled, Counted, FailFree, Shown, Dated, Wanted, [Next]_vars
  PROVE  Wanted'
<1>0. /\ Calm' => Calm
      /\ wanted \in [Keys -> Values]
  BY CalmStays DEF Wanted
<1>1. ASSUME UNCHANGED <<queue, content, foreign, wanted>>
      PROVE  Wanted'
  BY <1>0, <1>1, SameWanted
<1>2. CASE UNCHANGED vars
  BY <1>1, <1>2 DEF vars
<1>3. ASSUME NEW k \in Keys, NEW v \in Values, UseControl(k, v) \/ SubmitForm(k, v)
      PROVE  Wanted'
  BY <1>0, <1>3, UseControlIs, SubmitFormIs, SubmitsWanted
<1>4. CASE ReadReturns
  BY <1>0, <1>1, <1>4, ReadEndsWanted DEF ReadReturns, ReadAgain, requests
<1>5. CASE ReadRetries
  BY <1>0, <1>1, <1>5, ReadEndsWanted DEF ReadRetries, ReadAgain, history, requests
<1>6. CASE JobMeetsClose \/ Dispose
  <2>1. closed' /\ UNCHANGED wanted
    BY <1>6 DEF JobMeetsClose, Dispose, host, history, requests
  <2> QED BY <1>0, <2>1 DEF Wanted, Calm
<1>7. CASE JobIsRefused
  <2>1. failures' # 0 /\ UNCHANGED wanted
    BY <1>7 DEF JobIsRefused, FailFree, bounds, history, requests
  <2> QED BY <1>0, <2>1 DEF Wanted, Calm
<1>8. CASE CheckReturns
  <2>1. UNCHANGED <<content, foreign, wanted, failures>> /\ run.phase = "checked"
    BY <1>8 DEF CheckReturns, bounds, requests
  <2>2. failures = 0 => UNCHANGED queue
    <3>1. failures = 0 => run.raw \notin {None, Torn} /\ ~failedRead
      BY <2>1 DEF FailFree
    <3> QED BY <1>8, <3>1, Zenon DEF CheckReturns
  <2> QED BY <1>0, <1>1, <2>1, <2>2 DEF Wanted, Calm
<1>9. CASE JobPrepares
  BY <1>0, <1>9, JobPreparesWanted
<1>10. CASE JobReprepares
  BY <1>1, <1>10 DEF JobReprepares, requests
<1>11. CASE JobCommits
  BY <1>0, <1>11, JobCommitsWanted
<1>12. CASE SaveLands
  BY <1>0, <1>12, SaveLandsWanted
<1>13. CASE SaveReturns
  BY <1>0, <1>13, SaveReturnsWanted
<1>14. CASE VerifyReturns
  <2>1. failures' # 0 /\ UNCHANGED wanted
    BY <1>14 DEF VerifyReturns, FailFree, bounds, requests
  <2> QED BY <1>0, <2>1 DEF Wanted, Calm
<1>15. CASE Notice \/ ReadTakes \/ JobAwaits \/ CheckTakes \/ SaveRejected \/ VerifyTakes \/ FileTorn
  BY <1>1, <1>15 DEF Notice, ReadTakes, JobAwaits, CheckTakes, SaveRejected, VerifyTakes, FileTorn, Replaced,
                     write, history, requests
<1>16. ASSUME NEW f \in Incoming, OtherWrites(f)
       PROVE  Wanted'
  <2>1. /\ UNCHANGED <<queue, wanted>> /\ content' = f /\ foreign \in [Keys -> Nat]
        /\ \A k \in Keys : foreign'[k] = IF Normal[f[k]] # Normal[content[k]] THEN foreign[k] + 1 ELSE foreign[k]
    BY <1>16 DEF OtherWrites, Replaced, write, Shape, requests
  <2>2. ASSUME NEW k \in Keys, foreign'[k] = 0
        PROVE  foreign[k] = 0 /\ Whole'[k] = Whole[k]
    BY <2>1, <2>2 DEF Whole, Normalized
  <2> QED BY <1>0, <2>1, <2>2 DEF Wanted
<1> QED
  BY <1>2, <1>3, <1>4, <1>5, <1>6, <1>7, <1>8, <1>9, <1>10, <1>11, <1>12, <1>13, <1>14, <1>15, <1>16 DEF Next

LEMMA InitWanted ==
  ASSUME Init
  PROVE  Dated /\ Wanted
<1>1. InitialFile \in Snapshots
  BY SettingsAssumption
<1>2. Normalized(InitialFile) \in Snapshots
  BY <1>1, NormalizedIs
<1>3. \A k : Asking(queue, k) = {}
  BY DEF Init, Asking
<1> QED BY <1>2, <1>3 DEF Init, Dated, Wanted, Ends, Whole, Snapshots

(* Every submission reaches the file in its order, an undo as well as the  *)
(* edit it undoes, unless another writer changed its key (capture()).      *)
THEOREM SettingsSubmissionsKept == Spec => []SubmissionsKept
<1> DEFINE Kept == AllSettled /\ Revised /\ Counted /\ FailFree /\ Shown /\ Dated /\ Wanted
           IInv == TypeOK /\ Shape /\ Stored /\ (~rewritten => Kept)
<1>1. Init => IInv
  BY InitTypes, InitStored, InitSettled, InitCounted, InitShown, InitWanted
<1>2. IInv /\ [Next]_vars => IInv'
  <2> SUFFICES ASSUME IInv, [Next]_vars
               PROVE  IInv'
    OBVIOUS
  <2>1. (TypeOK /\ Shape /\ Stored)'
    BY NextTypes, NextShape, NextStored
  <2>2. ASSUME ~rewritten'
        PROVE  Kept'
    BY <2>1, <2>2, RewrittenStays, NextSettled, NextRevised, NextCounted, NextFailFree, NextShown, NextDated, NextWanted
  <2> QED BY <2>1, <2>2
<1>3. IInv => SubmissionsKept
  <2> SUFFICES ASSUME IInv, Quiet, ~Missed, ~rewritten, failures = 0, NEW k \in Keys, foreign[k] = 0
               PROVE  Normal[file[k]] = wanted[k]
    BY DEF SubmissionsKept
  <2>1. file = content
    BY DEF Shape, FailFree
  <2>2. Ends(<<>>, k, Whole[k], wanted[k])
    BY DEF Quiet, Wanted, Calm
  <2>3. wanted[k] = Whole[k]
    BY <2>2 DEF Ends, Asking
  <2> QED BY <2>1, <2>3 DEF Whole, Normalized
<1> QED BY <1>1, <1>2, <1>3, PTL DEF Spec
-----------------------------------------------------------------------------
=============================================================================
