---------------------------- MODULE Multiplayer ----------------------------
(***************************************************************************)
(* The multiplayer server and its clients: GameServer::run and             *)
(* ServerConnection of src/lib/bin/src/server.cpp, with the message        *)
(* handler of src/scripts/src/server.cc.                                   *)
(*                                                                         *)
(* The server is one thread.  A client is two: one writes messages, one    *)
(* polls.  A stream is the sequence of protocol messages written to it; a  *)
(* read returns a prefix of it.  Assumed: a read ends between two          *)
(* messages, g_mkid() never returns an id twice, and the memory behind a   *)
(* client's read buffer is neither a command of the protocol nor a reply.  *)
(***************************************************************************)
EXTENDS Integers, Sequences, SequencesExt, FiniteSets

CONSTANTS
    Clients,      \* the programs that connect, one connection each
    Messages,     \* the messages they may write, each with an id of its own
    Stops,        \* those whose content is "stop"
    Awaited,      \* those written with an on_response callback
    Capacities,   \* the values max_clients may be constructed with
    None

ASSUME ConstantsAssumption ==
    /\ None \notin Clients \cup Messages
    /\ Stops \subseteq Messages /\ Awaited \subseteq Messages
    /\ Capacities \subseteq Nat

\* What the server sends.  Only a reply is written without the splitter.
Unit == [kind : {"set_id", "server_full", "disconnect"}, of : {None}]
        \cup [kind : {"reply"}, of : Messages]
Command(k) == [kind |-> k, of |-> None]
Reply(m) == [kind |-> "reply", of |-> m]

Terminated(u) == u.kind # "reply"

VARIABLES
    (* the server *)
    max_clients,  \* never assigned after construction
    active,       \* GameServer::active
    pc,           \* where run() is
    table,        \* the clients in the order of their ids, GameServer::clients
    it,           \* the iterator over it
    batch,        \* all_messages: what the last read returned and is not handled
    fate,         \* "undefined" once an end iterator has been dereferenced
    (* the connections *)
    link,         \* client -> the server's end of the connection
    up, down,     \* client -> what it, what the server has written, not yet read
    (* the clients *)
    end,          \* client -> its own end of the connection
    hasId,        \* the clients whose client_id has been set
    writing,      \* client -> the message written whose callback is not registered
    callbacks,    \* client -> the messages with a response callback
    inbox,        \* client -> what its last read returned and is not handled
    (* history *)
    sender,       \* message -> the client that wrote it
    handled,      \* the messages handled, each with the client it was passed with
    answered      \* the messages whose callback has been called

server  == <<max_clients, active, pc, table, it, batch, fate>>
streams == <<link, up, down>>
clients == <<end, hasId, writing, callbacks, inbox>>
history == <<sender, handled, answered>>
vars == <<server, streams, clients, history>>

-----------------------------------------------------------------------------
Init ==
    /\ max_clients \in Capacities
    /\ active = TRUE
    /\ pc = "accept"
    /\ table = <<>>
    /\ it = 1
    /\ batch = <<>>
    /\ fate = "alive"
    /\ link = [c \in Clients |-> "none"]
    /\ up = [c \in Clients |-> <<>>]
    /\ down = [c \in Clients |-> <<>>]
    /\ end = [c \in Clients |-> "new"]
    /\ hasId = {}
    /\ writing = [c \in Clients |-> None]
    /\ callbacks = [c \in Clients |-> {}]
    /\ inbox = [c \in Clients |-> <<>>]
    /\ sender = [m \in Messages |-> None]
    /\ handled = <<>>
    /\ answered = <<>>

\* send_message: what is sent to a client that has closed its end is lost.
Sent(c, u) == IF end[c] = "closed" THEN down
              ELSE [down EXCEPT ![c] = Append(@, u)]

-----------------------------------------------------------------------------
(* GameServer::run. *)

At(label) == fate = "alive" /\ pc = label
BeginPoll == pc' = "poll" /\ it' = 1 /\ UNCHANGED <<max_clients, active, batch, fate>>

NobodyJoins ==
    /\ At("accept")
    /\ \A c \in Clients : link[c] # "queued"
    /\ BeginPoll
    /\ UNCHANGED <<max_clients, table, streams, clients, history>>

\* Mutant: the id is not sent.
AcceptSilently(c) ==
    /\ At("accept") /\ link[c] = "queued" /\ Len(table) < max_clients
    /\ \E i \in 1..(Len(table) + 1) : table' = InsertAt(table, i, c)
    /\ link' = [link EXCEPT ![c] = "accepted"]
    /\ BeginPoll
    /\ UNCHANGED <<max_clients, up, down, clients, history>>

\* The new client's id is random: it may come anywhere in the map.
Accept(c) ==
    /\ At("accept") /\ link[c] = "queued" /\ Len(table) < max_clients
    /\ \E i \in 1..(Len(table) + 1) : table' = InsertAt(table, i, c)
    /\ link' = [link EXCEPT ![c] = "accepted"]
    /\ down' = Sent(c, Command("set_id"))
    /\ BeginPoll
    /\ UNCHANGED <<max_clients, up, clients, history>>

Refuse(c) ==
    /\ At("accept") /\ link[c] = "queued" /\ Len(table) >= max_clients
    /\ link' = [link EXCEPT ![c] = "closed"]
    /\ up' = [up EXCEPT ![c] = <<>>]
    /\ down' = Sent(c, Command("server_full"))
    /\ BeginPoll
    /\ UNCHANGED <<max_clients, table, clients, history>>

\* The loop over the clients, between two of them.
Polling == At("poll") /\ batch = <<>> /\ it <= Len(table)
Polled == table[it]

WouldBlock ==
    /\ Polling /\ end[Polled] = "connected" /\ up[Polled] = <<>>
    /\ it' = it + 1
    /\ UNCHANGED <<max_clients, active, pc, table, batch, fate, streams, clients, history>>

\* Mutant: the entry stays in the table.
LoseKeepEntry ==
    /\ Polling /\ end[Polled] = "closed"
    /\ link' = [link EXCEPT ![Polled] = "closed"]
    /\ up' = [up EXCEPT ![Polled] = <<>>]
    /\ it' = it + 1
    /\ UNCHANGED <<max_clients, active, pc, table, batch, fate, down, clients, history>>

\* The end of the stream, or an error: a connection that is reset loses what
\* it has not delivered.
Lose ==
    /\ Polling /\ end[Polled] = "closed"
    /\ link' = [link EXCEPT ![Polled] = "closed"]
    /\ up' = [up EXCEPT ![Polled] = <<>>]
    /\ table' = RemoveAt(table, it)
    /\ UNCHANGED <<max_clients, active, pc, it, batch, fate, down, clients, history>>

Receive ==
    /\ Polling
    /\ \E n \in 1..Len(up[Polled]) :
          /\ batch' = SubSeq(up[Polled], 1, n)
          /\ up' = [up EXCEPT ![Polled] = SubSeq(@, n + 1, Len(@))]
    /\ UNCHANGED <<max_clients, active, pc, table, it, fate, link, down, clients, history>>

\* Mutant: the message stays in the buffer.
DeliverKeep ==
    /\ At("poll") /\ batch # <<>> /\ it <= Len(table)
    /\ handled' = Append(handled, [msg |-> Head(batch), client |-> Polled])
    /\ down' = Sent(Polled, Reply(Head(batch)))
    /\ active' = (active /\ Head(batch) \notin Stops)
    /\ it' = it + 1
    /\ UNCHANGED <<max_clients, pc, table, batch, fate, link, up, clients, sender, answered>>

\* Mutant: "stop" is not heeded.
DeliverStop ==
    /\ At("poll") /\ batch # <<>> /\ it <= Len(table)
    /\ handled' = Append(handled, [msg |-> Head(batch), client |-> Polled])
    /\ down' = Sent(Polled, Reply(Head(batch)))
    /\ batch' = Tail(batch)
    /\ it' = it + 1
    /\ UNCHANGED <<max_clients, active, pc, table, fate, link, up, clients, sender, answered>>

\* Mutant: only the first message of a buffer is run.
DeliverFirst ==
    /\ At("poll") /\ batch # <<>> /\ it <= Len(table)
    /\ handled' = Append(handled, [msg |-> Head(batch), client |-> Polled])
    /\ down' = Sent(Polled, Reply(Head(batch)))
    /\ active' = (active /\ Head(batch) \notin Stops)
    /\ batch' = <<>>
    /\ it' = it + 1
    /\ UNCHANGED <<max_clients, pc, table, fate, link, up, clients, sender, answered>>

\* user_callback and `++it`, once per message: a message is passed with the
\* client the iterator has come to, which is replied to.
Deliver ==
    /\ At("poll") /\ batch # <<>> /\ it <= Len(table)
    /\ handled' = Append(handled, [msg |-> Head(batch), client |-> Polled])
    /\ down' = Sent(Polled, Reply(Head(batch)))
    /\ active' = (active /\ Head(batch) \notin Stops)
    /\ batch' = Tail(batch)
    /\ it' = it + 1
    /\ UNCHANGED <<max_clients, pc, table, fate, link, up, clients, sender, answered>>

\* The same past the last client: `it->second` of the end iterator.
DeliverPastEnd ==
    /\ At("poll") /\ batch # <<>> /\ it > Len(table)
    /\ fate' = "undefined"
    /\ UNCHANGED <<max_clients, active, pc, table, it, batch, streams, clients, history>>

PollEnds ==
    /\ At("poll") /\ batch = <<>> /\ it > Len(table)
    /\ pc' = IF active THEN "accept" ELSE "closing"
    /\ it' = 1
    /\ UNCHANGED <<max_clients, active, table, batch, fate, streams, clients, history>>

SayGoodbye ==
    /\ At("closing") /\ it <= Len(table)
    /\ down' = Sent(Polled, Command("disconnect"))
    /\ it' = it + 1
    /\ UNCHANGED <<max_clients, active, pc, table, batch, fate, link, up, clients, history>>

\* run() returns, and the object with its sockets is destroyed.
Stop ==
    /\ At("closing") /\ it > Len(table)
    /\ pc' = "stopped"
    /\ link' = [c \in Clients |-> IF link[c] = "none" THEN "none" ELSE "closed"]
    /\ up' = [c \in Clients |-> <<>>]
    /\ UNCHANGED <<max_clients, active, table, it, batch, fate, down, clients, history>>

ServerStep ==
    \/ NobodyJoins
    \/ \E c \in Clients : Accept(c) \/ Refuse(c)
    \/ WouldBlock \/ Lose \/ Receive
    \/ Deliver \/ DeliverPastEnd \/ PollEnds
    \/ SayGoodbye \/ Stop

-----------------------------------------------------------------------------
(* GameClient::connect and ServerConnection. *)

Connect(c) ==
    /\ end[c] = "new" /\ fate = "alive" /\ pc # "stopped"
    /\ end' = [end EXCEPT ![c] = "connected"]
    /\ link' = [link EXCEPT ![c] = "queued"]
    /\ UNCHANGED <<server, up, down, hasId, writing, callbacks, inbox, history>>

Closed(c) ==
    /\ end' = [end EXCEPT ![c] = "closed"]
    /\ down' = [down EXCEPT ![c] = <<>>]

\* disconnect() by the program, or its end, an uncaught exception included.
Quit(c) ==
    /\ end[c] = "connected"
    /\ Closed(c)
    /\ UNCHANGED <<server, link, up, hasId, writing, callbacks, inbox, history>>

\* write(), up to asio::write: the server may read the message from here on.
Write(c, m) ==
    /\ end[c] = "connected" /\ writing[c] = None /\ sender[m] = None
    /\ sender' = [sender EXCEPT ![m] = c]
    /\ up' = IF link[c] = "closed" THEN up ELSE [up EXCEPT ![c] = Append(@, m)]
    /\ writing' = [writing EXCEPT ![c] = m]
    /\ UNCHANGED <<server, link, down, end, hasId, callbacks, inbox, handled, answered>>

\* The rest of write(): the callback, if there is one, is registered.
Register(c) ==
    /\ writing[c] # None
    /\ writing' = [writing EXCEPT ![c] = None]
    /\ callbacks' = [callbacks EXCEPT ![c] = @ \cup ({writing[c]} \cap Awaited)]
    /\ UNCHANGED <<server, streams, end, hasId, inbox, history>>

PollRead(c) ==
    /\ end[c] = "connected" /\ inbox[c] = <<>>
    /\ \E n \in 1..Len(down[c]) :
          /\ inbox' = [inbox EXCEPT ![c] = SubSeq(down[c], 1, n)]
          /\ down' = [down EXCEPT ![c] = SubSeq(@, n + 1, Len(@))]
    /\ UNCHANGED <<server, link, up, end, hasId, writing, callbacks, history>>

\* What follows the first piece between two splitters of a buffer that is not
\* empty: a reply swallows all that comes before the next splitter.
AfterFirst(s) ==
    LET ends == {i \in 1..Len(s) : Terminated(s[i])}
        last == IF ends = {} THEN Len(s)
                ELSE CHOOSE i \in ends : \A j \in ends : i <= j
    IN  SubSeq(s, last + 1, Len(s))

\* Mutant: response_callbacks is not searched first.
FireUnsought(c, u) ==
    /\ answered' = Append(answered, u.of)
    /\ callbacks' = [callbacks EXCEPT ![c] = @ \ {u.of}]

Fire(c, u) ==
    IF u.of \in callbacks[c]
    THEN /\ answered' = Append(answered, u.of)
         /\ callbacks' = [callbacks EXCEPT ![c] = @ \ {u.of}]
    ELSE UNCHANGED <<answered, callbacks>>

\* read_buffer becomes a string without its length, up to the next zero byte
\* in memory.  What it takes from behind the buffer lengthens a reply, which has
\* no splitter, and is a piece of its own after anything else: that piece is no
\* message anybody awaits, or network_parse_message throws and the program ends.
ThrowsBeyondBuffer(c) ==
    /\ Terminated(inbox[c][Len(inbox[c])]) /\ AfterFirst(inbox[c]) = <<>>
    /\ Closed(c)

\* One round of poll()'s loop over all_messages: handle_protocol, and the
\* callback.  The loop goes on after "disconnect".  The last round includes the
\* piece from behind the buffer.
Handle(c) ==
    /\ inbox[c] # <<>>
    /\ LET u == Head(inbox[c]) IN
          /\ hasId' = IF u.kind = "set_id" THEN hasId \cup {c} ELSE hasId
          /\ IF u.kind = "disconnect" THEN Closed(c)
             ELSE UNCHANGED <<end, down>> \/ ThrowsBeyondBuffer(c)
          /\ Fire(c, u)
    /\ inbox' = [inbox EXCEPT ![c] = AfterFirst(@)]
    /\ UNCHANGED <<server, link, up, writing, sender, handled>>

Next ==
    \/ ServerStep
    \/ \E c \in Clients :
          \/ Connect(c) \/ Quit(c) \/ Register(c) \/ PollRead(c) \/ Handle(c)
          \/ \E m \in Messages : Write(c, m)

Spec == Init /\ [][Next]_vars

\* The server's thread and the clients' polling threads are scheduled.
FairSpec ==
    /\ Spec
    /\ WF_vars(ServerStep)
    /\ \A c \in Clients : WF_vars(PollRead(c)) /\ WF_vars(Handle(c))

-----------------------------------------------------------------------------
TypeOK ==
    /\ max_clients \in Capacities
    /\ active \in BOOLEAN
    /\ pc \in {"accept", "poll", "closing", "stopped"}
    /\ table \in Seq(Clients)
    /\ it \in Nat \ {0}
    /\ batch \in Seq(Messages)
    /\ fate \in {"alive", "undefined"}
    /\ link \in [Clients -> {"none", "queued", "accepted", "closed"}]
    /\ up \in [Clients -> Seq(Messages)]
    /\ down \in [Clients -> Seq(Unit)]
    /\ end \in [Clients -> {"new", "connected", "closed"}]
    /\ hasId \subseteq Clients
    /\ writing \in [Clients -> Messages \cup {None}]
    /\ callbacks \in [Clients -> SUBSET Messages]
    /\ inbox \in [Clients -> Seq(Unit)]
    /\ sender \in [Messages -> Clients \cup {None}]
    /\ handled \in Seq([msg : Messages, client : Clients])
    /\ answered \in Seq(Messages)

\* The table holds every accepted client once, no other, and never more than
\* max_clients.  It is why line 239's `continue`, which does not advance the
\* iterator, is never reached (server.cpp:214, 226, 254).
TableHoldsAccepted ==
    pc # "stopped" =>
        /\ Len(table) <= max_clients
        /\ \A i, j \in 1..Len(table) : table[i] = table[j] => i = j
        /\ \A c \in Clients :
               link[c] = "accepted" <=> \E i \in 1..Len(table) : table[i] = c

\* What a client still has to read of a connection begins with set_id, or it
\* has its id, or it was refused: no reply, whoever it was meant for, and no
\* disconnect overtakes the id (server.cpp:225-228, 284, 397).
IdComesFirst ==
    \A c \in Clients :
        LET unread == inbox[c] \o down[c] IN
        unread # <<>> =>
            \/ unread[1].kind = "server_full" /\ Len(unread) = 1
            \/ (unread[1].kind = "set_id") # (c \in hasId)

\* The iterator has gone on to another client, or will, while messages of one
\* read are still to be handled: the clients it goes past are not read.
PassesOver ==
    batch # <<>> /\ (Len(batch) > 1 \/ it > Len(table) \/ sender[Head(batch)] # Polled)

\* A message that an open connection has delivered is handled unless the client
\* leaves, the server stops or its loop runs past the table, or reads of several
\* messages pass clients over again and again: a steady flow of them starves a
\* neighbour, since `++it` is executed once per message (server.cpp:236-277).
HandledUnlessPassedOver ==
    \A m \in Messages :
        (\E c \in Clients : link[c] = "accepted" /\ m \in ToSet(up[c])) ~>
            \/ \E i \in 1..Len(handled) : handled[i].msg = m
            \/ \E c \in Clients : sender[m] = c /\ end[c] = "closed"
            \/ pc = "stopped" \/ fate = "undefined"
            \/ []<>PassesOver

\* Once "stop" has been handled, run() returns.
StopEndsRun ==
    (\E i \in 1..Len(handled) : handled[i].msg \in Stops)
        ~> (pc = "stopped" \/ fate = "undefined")

-----------------------------------------------------------------------------
(* The message exchange that server and clients implement. *)

\* The messages of client c that the server may still handle, in order: a batch is
\* what one read of one client has returned.
Queue(c) == IF batch # <<>> /\ sender[Head(batch)] = c THEN batch \o up[c] ELSE up[c]

Channel == INSTANCE Exchange
    WITH queue <- [c \in Clients |-> Queue(c)],
         sent <- {m \in Messages : sender[m] # None},
         handled <- [i \in 1..Len(handled) |-> handled[i].msg]

\* The messages of a client are handled in the order it wrote them, each at
\* most once, and a callback is called once, for a message that was handled
\* (server.cpp:265-277, 397-420).
ExchangesMessages == Channel!Spec

-----------------------------------------------------------------------------
(* What the comments say and the code does not do. *)

\* server.cpp:124 replies to "a valid message sent by the client": each
\* message is passed with the client that sent it.
Attributed ==
    \A i \in 1..Len(handled) : handled[i].client = sender[handled[i].msg]
=============================================================================
