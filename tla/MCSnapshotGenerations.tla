------------------------- MODULE MCSnapshotGenerations -------------------------
(* Graphs of four pages and one evidence chunk, in three generations.      *)
EXTENDS SnapshotGenerations

CONSTANTS g1, g2, g3

MCGenerations == {g1, g2, g3}
=============================================================================
