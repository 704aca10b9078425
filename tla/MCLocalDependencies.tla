------------------------- MODULE MCLocalDependencies -------------------------
(* Two windows, one operation each, on sources that share a key.           *)
EXTENDS LocalDependencies, TLC

CONSTANTS a, b, a1, b1, k1, k2

MCHome == (a1 :> a) @@ (b1 :> b)
MCContents == {<<k1>>, <<k1, k2, k1>>}

MCSymmetry == Permutations(Revisions) \cup Permutations(Sources)
=============================================================================
