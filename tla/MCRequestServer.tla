-------------------------- MODULE MCRequestServer --------------------------
(* An instance of RequestServer for TLC. *)
EXTENDS RequestServer

CONSTANTS ann, bob   \* clients

\* One of them streams.
MCMaxMessages == [c \in Clients |-> IF c = ann THEN 2 ELSE 0]
=============================================================================
