--------------------------- MODULE MCMultiplayer ---------------------------
(* Instances of Multiplayer for TLC. *)
EXTENDS Multiplayer

CONSTANTS ann, bob   \* programs that connect
CONSTANTS m1, quit    \* messages they write
=============================================================================
