-------------------------- MODULE MCSourceRevisions --------------------------
(* Two windows on one database.  Window a runs two operations at a time,   *)
(* window b one.                                                           *)
EXTENDS SourceRevisions, TLC

CONSTANTS a, b, a1, a2, b1

MCConnections == {a, b}
MCOps == {a1, a2, b1}
MCHome == (a1 :> a) @@ (a2 :> a) @@ (b1 :> b)

(* Revision ids are opaque, and a's two slots are alike. *)
MCSymmetry == Permutations(Revisions) \cup Permutations({a1, a2})
=============================================================================
