----------------------------- MODULE VersionedStore -----------------------------
(***************************************************************************)
(* What the users of the source repository may rely on, without revisions  *)
(* on disk, staging, leases, fences, reclamation or crashes.               *)
(*                                                                         *)
(* A source has a value, a set of whole contents, and a value changes at   *)
(* once: a replacement brings one content nobody has seen and may keep     *)
(* some of the current ones, a deletion keeps some of them.  A reader that *)
(* looks at a source gets its whole value, and sees just that until it     *)
(* closes, whatever becomes of the source.                                 *)
(***************************************************************************)
CONSTANTS Sources, Contents, Readers

VARIABLES
  value, \* the contents of each source
  seen   \* what each reader has before it

storeVars == <<value, seen>>

Init ==
  /\ value = [s \in Sources |-> {}]
  /\ seen = [o \in Readers |-> {}]

Fresh(c) ==
  /\ \A s \in Sources : c \notin value[s]
  /\ \A o \in Readers : c \notin seen[o]

Replace(s, c, kept) ==
  /\ Fresh(c)
  /\ value' = [value EXCEPT ![s] = {c} \cup kept]
  /\ UNCHANGED seen

Retire(s, kept) ==
  /\ value' = [value EXCEPT ![s] = kept]
  /\ UNCHANGED seen

Look(o, s) ==
  /\ seen[o] = {}
  /\ seen' = [seen EXCEPT ![o] = value[s]]
  /\ UNCHANGED value

(* Readers are done, or their window died. *)
Close(gone) ==
  /\ seen' = [o \in Readers |-> IF o \in gone THEN {} ELSE seen[o]]
  /\ UNCHANGED value

Next ==
  \/ \E gone \in SUBSET Readers : Close(gone)
  \/ \E o \in Readers, s \in Sources : Look(o, s)
  \/ \E s \in Sources : \E kept \in SUBSET value[s] :
       Retire(s, kept) \/ \E c \in Contents : Replace(s, c, kept)

Spec == Init /\ [][Next]_storeVars
=============================================================================
