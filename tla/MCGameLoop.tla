----------------------------- MODULE MCGameLoop -----------------------------
(* Instances of GameLoop for TLC. *)
EXTENDS GameLoop

CONSTANTS game, menu   \* two EventLoop objects
=============================================================================
