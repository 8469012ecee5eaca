---------------------------- MODULE MCDevConsole ----------------------------
(* An instance of DevConsole for TLC: one letter fits the width. *)
EXTENDS DevConsole
=============================================================================
