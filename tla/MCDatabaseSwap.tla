--------------------------- MODULE MCDatabaseSwap ---------------------------
(* DatabaseSwap with three database contents, for TLC. *)
EXTENDS DatabaseSwap, TLC

CONSTANTS x, y, z

MCContents == {x, y, z}
Alike == Permutations(MCContents)
=============================================================================
