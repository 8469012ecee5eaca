----------------------------- MODULE MCGridMap -----------------------------
(* An instance of GridMap for TLC. *)
EXTENDS GridMap, TLC

CONSTANTS hero, foe, door   \* entity ids
CONSTANT ref                \* a shared_ptr

\* Cells -1, 0 and 1, with positions that are two apart across their borders.
MCCoordinates == {-3, -1, 0, 2}

Symmetry == Permutations(Ids)
=============================================================================
