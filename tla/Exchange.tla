------------------------------ MODULE Exchange ------------------------------
(***************************************************************************)
(* What the multiplayer protocol promises of the messages its clients      *)
(* write: first in, first out for each client, handled at most once,       *)
(* answered at most once and only after that.  A connection may be lost    *)
(* with what it carries, and an answer may never come.                     *)
(***************************************************************************)
EXTENDS Integers, Sequences, SequencesExt

CONSTANTS Clients, Messages

VARIABLES
    queue,      \* client -> the messages on their way to the server
    sent,       \* the messages that have been written
    handled,    \* the messages handled, in order
    answered    \* the messages whose callback has been called, in order

Init ==
    /\ queue = [c \in Clients |-> <<>>]
    /\ sent = {}
    /\ handled = <<>>
    /\ answered = <<>>

\* A message written to a connection that is closed is lost at once.
Send(c, m) ==
    /\ m \notin sent
    /\ sent' = sent \cup {m}
    /\ queue' \in {queue, [queue EXCEPT ![c] = Append(@, m)]}
    /\ UNCHANGED <<handled, answered>>

Lose(c) ==
    /\ queue' = [queue EXCEPT ![c] = <<>>]
    /\ UNCHANGED <<sent, handled, answered>>

Shutdown ==
    /\ queue' = [c \in Clients |-> <<>>]
    /\ UNCHANGED <<sent, handled, answered>>

Serve(c) ==
    /\ queue[c] # <<>> /\ Head(queue[c]) \notin ToSet(handled)
    /\ queue' = [queue EXCEPT ![c] = Tail(@)]
    /\ handled' = Append(handled, Head(queue[c]))
    /\ UNCHANGED <<sent, answered>>

Answer(m) ==
    /\ m \in ToSet(handled) \ ToSet(answered)
    /\ answered' = Append(answered, m)
    /\ UNCHANGED <<queue, sent, handled>>

Next ==
    \/ Shutdown
    \/ \E c \in Clients : Lose(c) \/ Serve(c) \/ \E m \in Messages : Send(c, m)
    \/ \E m \in Messages : Answer(m)

Spec == Init /\ [][Next]_<<queue, sent, handled, answered>>
=============================================================================
