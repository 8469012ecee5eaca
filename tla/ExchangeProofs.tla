--------------------------- MODULE ExchangeProofs ---------------------------
(***************************************************************************)
(* Proof that Multiplayer implements Exchange, for any clients, messages   *)
(* and capacities, what follows for messages and answers, and when a       *)
(* message is passed with the client that sent it.                         *)
(***************************************************************************)
EXTENDS MultiplayerProofs

\* The messages that have been handled, and those whose callback has run.
Handled == {handled[i].msg : i \in 1..Len(handled)}
Answered == {answered[i] : i \in 1..Len(answered)}

\* What waits for the server was written by the client it waits for, once, and has
\* not been handled; so was what has been handled, by some client.  A batch is
\* held only while the server polls.
Waits(c) ==
    \A i \in 1..Len(Queue(c)) :
        /\ sender[Queue(c)[i]] = c /\ Queue(c)[i] \notin Handled
        /\ \A j \in 1..Len(Queue(c)) : Queue(c)[i] = Queue(c)[j] => i = j
BatchIsSent == batch # <<>> => pc = "poll" /\ sender[batch[1]] \in Clients
HandledAreSent == \A m \in Messages : m \in Handled => sender[m] \in Clients
QueueInv == BatchIsSent /\ HandledAreSent /\ \A c \in Clients : Waits(c)

\* What a step does to the queues, the senders and the messages handled.
NoMove ==
    /\ \A c \in Clients : Queue(c)' = Queue(c)
    /\ UNCHANGED <<sender, handled>>
Sends(c, m) ==
    /\ sender[m] = None /\ sender' = [sender EXCEPT ![m] = c]
    /\ Queue(c)' \in {Queue(c), Append(Queue(c), m)}
    /\ \A d \in Clients \ {c} : Queue(d)' = Queue(d)
    /\ UNCHANGED handled
Drops(c) ==
    /\ Queue(c)' = <<>>
    /\ \A d \in Clients \ {c} : Queue(d)' = Queue(d)
    /\ UNCHANGED <<sender, handled>>
DropsAll ==
    /\ \A c \in Clients : Queue(c)' = <<>>
    /\ UNCHANGED <<sender, handled>>
Serves(c) ==
    /\ Queue(c) # <<>>
    /\ Queue(c)' = Tail(Queue(c))
    /\ \A d \in Clients \ {c} : Queue(d)' = Queue(d)
    /\ \E d \in Clients : handled' = Append(handled, [msg |-> Head(Queue(c)), client |-> d])
    /\ UNCHANGED sender
QueueMoves ==
    \/ NoMove \/ DropsAll
    \/ \E c \in Clients : Drops(c) \/ Serves(c) \/ \E m \in Messages : Sends(c, m)

\* A queue is a sequence of messages: the batch, if it is the client's, and what
\* follows it in the stream.
LEMMA QueueIs ==
    ASSUME TypeOK, NEW c \in Clients
    PROVE  /\ Queue(c) \in Seq(Messages)
           /\ batch = <<>> \/ sender[batch[1]] # c => Queue(c) = up[c]
           /\ batch # <<>> /\ sender[batch[1]] = c => Queue(c) = batch \o up[c]
<1>1. batch \in Seq(Messages) /\ up[c] \in Seq(Messages)
  BY DEF TypeOK
<1>2. batch # <<>> => Head(batch) = batch[1]
  BY <1>1
<1>3. batch \o up[c] \in Seq(Messages)
  BY <1>1, ConcatProperties
<1>. QED  BY <1>1, <1>2, <1>3 DEF Queue

\* A step that leaves the streams to the server alone moves no queue.
LEMMA QueueRests ==
    ASSUME UNCHANGED <<batch, up, sender, handled>>
    PROVE  NoMove
  BY DEF NoMove, Queue

\* Moving the front of a stream into the batch moves nothing.
LEMMA ReceiveMoves == TypeOK /\ QueueInv /\ Receive => NoMove
<1> SUFFICES ASSUME TypeOK, QueueInv, Receive PROVE NoMove
  OBVIOUS
<1>0. table[it] \in Clients
  BY DEF Receive, Polling, TypeOK
<1> PICK p \in Clients : table[it] = p
  BY <1>0
<1> DEFINE s == up[p]
<1>1. batch = <<>> /\ s \in Seq(Messages) /\ UNCHANGED <<sender, handled>>
  BY DEF Receive, Polling, TypeOK, history, clients
<1>2. PICK n \in 1..Len(s) : /\ batch' = SubSeq(s, 1, n)
                             /\ up' = [up EXCEPT ![p] = SubSeq(s, n + 1, Len(s))]
  BY DEF Receive, Polled
<1>3. /\ batch' # <<>> /\ Head(batch') = s[1] /\ 1 \in 1..Len(s)
      /\ SubSeq(s, 1, n) \o SubSeq(s, n + 1, Len(s)) = s
  BY <1>1, <1>2
<1>4. sender[s[1]] = p
  BY <1>1, <1>3, QueueIs DEF QueueInv, Waits
<1>5. sender'[Head(batch')] = p
  BY <1>1, <1>3, <1>4
<1>6. Queue(p)' = Queue(p)
  <2>1. Queue(p) = s
    BY <1>1 DEF Queue
  <2>2. Queue(p)' = batch' \o up'[p]
    BY <1>3, <1>5 DEF Queue
  <2>3. up'[p] = SubSeq(s, n + 1, Len(s))
    BY <1>1, <1>2 DEF TypeOK
  <2>. QED  BY <1>2, <1>3, <2>1, <2>2, <2>3
<1>7. ASSUME NEW c \in Clients PROVE Queue(c)' = Queue(c)
  <2>1. ASSUME c # p PROVE Queue(c)' = Queue(c)
    <3>1. Queue(c) = up[c] /\ Queue(c)' = up'[c]
      BY <1>1, <1>5, <2>1 DEF Queue
    <3>2. up'[c] = up[c]
      BY <1>1, <1>2, <2>1 DEF TypeOK
    <3>. QED  BY <3>1, <3>2
  <2>. QED  BY <1>6, <2>1
<1>. QED  BY <1>1, <1>7 DEF NoMove

\* Handling the first message of the batch takes it from the queue of its client.
LEMMA DeliverMoves == TypeOK /\ QueueInv /\ Deliver => \E c \in Clients : Serves(c)
<1> SUFFICES ASSUME TypeOK, QueueInv, Deliver PROVE \E c \in Clients : Serves(c)
  OBVIOUS
<1>1. /\ batch # <<>> /\ batch \in Seq(Messages) /\ Head(batch) = batch[1]
      /\ batch' = Tail(batch) /\ UNCHANGED <<up, sender>>
  BY DEF Deliver, TypeOK
<1>0. sender[batch[1]] \in Clients
  BY <1>1 DEF QueueInv, BatchIsSent
<1> PICK b \in Clients : sender[batch[1]] = b
  BY <1>0
<1>2. up[b] \in Seq(Messages)
  BY DEF TypeOK
<1>3. Queue(b) = batch \o up[b]
  BY <1>1, <1>2, QueueIs
<1>4. /\ Queue(b) # <<>> /\ Head(Queue(b)) = Head(batch)
      /\ Tail(Queue(b)) = Tail(batch) \o up[b]
  BY <1>1, <1>2, <1>3
<1>5. ASSUME Tail(batch) # <<>> PROVE sender[Head(Tail(batch))] = b
  <2>1. Len(batch) \in Nat /\ 2 \in 1..Len(batch) /\ Head(Tail(batch)) = batch[2]
    BY <1>1, <1>5
  <2>2. 2 \in 1..Len(Queue(b)) /\ Queue(b)[2] = batch[2]
    BY <1>1, <1>2, <1>3, <2>1, ConcatProperties
  <2>. QED  BY <1>2, <2>1, <2>2 DEF QueueInv, Waits
<1>6. Queue(b)' = Tail(Queue(b))
  <2>1. CASE Tail(batch) = <<>>
    <3>1. Queue(b)' = up[b]
      BY <1>1, <2>1 DEF Queue
    <3>2. <<>> \o up[b] = up[b]
      BY <1>2
    <3>. QED  BY <1>4, <2>1, <3>1, <3>2
  <2>2. CASE Tail(batch) # <<>>
    <3>1. Queue(b)' = Tail(batch) \o up[b]
      BY <1>1, <1>5, <2>2 DEF Queue
    <3>. QED  BY <1>4, <3>1
  <2>. QED  BY <2>1, <2>2
<1>7. ASSUME NEW d \in Clients \ {b} PROVE Queue(d)' = Queue(d)
  <2>1. Queue(d) = up[d]
    BY <1>1 DEF Queue
  <2>2. Queue(d)' = up[d]
    BY <1>1, <1>5 DEF Queue
  <2>. QED  BY <2>1, <2>2
<1>8. table[it] \in Clients /\ handled' = Append(handled, [msg |-> Head(batch), client |-> table[it]])
  BY DEF Deliver, Polled, TypeOK
<1>9. Serves(b)
  BY <1>1, <1>4, <1>6, <1>7, <1>8 DEF Serves
<1>. QED  BY <1>9

\* A message that is written joins the queue of its client, or is lost.
LEMMA WriteMoves ==
    ASSUME TypeOK, QueueInv, NEW c \in Clients, NEW m \in Messages, Write(c, m)
    PROVE  Sends(c, m)
<1>1. /\ sender[m] = None /\ sender' = [sender EXCEPT ![m] = c]
      /\ up' = IF link[c] = "closed" THEN up ELSE [up EXCEPT ![c] = Append(up[c], m)]
      /\ UNCHANGED <<batch, handled>>
  BY DEF Write, server
<1>2. batch \in Seq(Messages) /\ up \in [Clients -> Seq(Messages)]
  BY DEF TypeOK
<1>3. ASSUME batch # <<>> PROVE sender'[Head(batch)] = sender[Head(batch)]
  <2>1. Head(batch) = batch[1] /\ Head(batch) \in Messages
    BY <1>2, <1>3
  <2>2. sender[Head(batch)] # None
    BY <1>3, <2>1, ConstantsAssumption DEF QueueInv, BatchIsSent
  <2>. QED  BY <1>1, <2>1, <2>2 DEF TypeOK
<1>4. ASSUME NEW d \in Clients, up'[d] = up[d] PROVE Queue(d)' = Queue(d)
  BY <1>1, <1>3, <1>4 DEF Queue
<1>5. ASSUME NEW d \in Clients \ {c} PROVE Queue(d)' = Queue(d)
  BY <1>1, <1>2, <1>4
<1>6. Queue(c)' \in {Queue(c), Append(Queue(c), m)}
  <2>1. CASE up'[c] = up[c]
    BY <1>4, <2>1
  <2>2. CASE up'[c] = Append(up[c], m)
    <3>1. batch \o Append(up[c], m) = Append(batch \o up[c], m)
      BY <1>2
    <3>. QED  BY <1>1, <1>3, <2>2, <3>1 DEF Queue
  <2>. QED  BY <1>1, <1>2, <2>1, <2>2
<1>. QED  BY <1>1, <1>5, <1>6 DEF Sends

\* Every step of Multiplayer moves the queues in one of these ways.
LEMMA StepMoves == TypeOK /\ QueueInv /\ [Next]_vars => QueueMoves
<1> SUFFICES ASSUME TypeOK, QueueInv, [Next]_vars PROVE QueueMoves
  OBVIOUS
<1> USE DEF server, streams, clients, history, vars
<1>1. CASE NobodyJoins \/ WouldBlock \/ DeliverPastEnd \/ PollEnds \/ SayGoodbye
  BY <1>1, QueueRests
  DEF NobodyJoins, WouldBlock, DeliverPastEnd, PollEnds, SayGoodbye, BeginPoll, QueueMoves
<1>2. ASSUME NEW c \in Clients, Accept(c) PROVE QueueMoves
  BY <1>2, QueueRests DEF Accept, BeginPoll, QueueMoves
<1>3. ASSUME NEW c \in Clients, batch = <<>>, up' = [up EXCEPT ![c] = <<>>],
             UNCHANGED <<batch, sender, handled>>
      PROVE  QueueMoves
  <2>1. Drops(c)
    BY <1>3 DEF Drops, Queue, TypeOK
  <2>. QED  BY <2>1 DEF QueueMoves
<1>4. ASSUME NEW c \in Clients, Refuse(c) PROVE QueueMoves
  <2>1. batch = <<>>
    BY <1>4 DEF Refuse, At, QueueInv, BatchIsSent
  <2>. QED  BY <1>3, <1>4, <2>1 DEF Refuse, BeginPoll
<1>5. CASE Lose
  <2>1. Polled \in Clients
    BY <1>5 DEF Lose, Polling, Polled, TypeOK
  <2>. QED  BY <1>3, <1>5, <2>1 DEF Lose, Polling
<1>6. CASE Stop
  <2>1. batch = <<>>
    BY <1>6 DEF Stop, At, QueueInv, BatchIsSent
  <2>2. DropsAll
    BY <1>6, <2>1 DEF Stop, DropsAll, Queue
  <2>. QED  BY <2>2 DEF QueueMoves
<1>7. CASE Receive \/ Deliver
  BY <1>7, ReceiveMoves, DeliverMoves DEF QueueMoves
<1>8. ASSUME NEW c \in Clients,
             Connect(c) \/ Quit(c) \/ Register(c) \/ PollRead(c) \/ Handle(c)
      PROVE  QueueMoves
  BY <1>8, QueueRests DEF Connect, Quit, Register, PollRead, Handle, QueueMoves
<1>9. ASSUME NEW c \in Clients, NEW m \in Messages, Write(c, m) PROVE QueueMoves
  BY <1>9, WriteMoves DEF QueueMoves
<1>10. CASE UNCHANGED vars
  BY <1>10, QueueRests DEF QueueMoves
<1>. QED  BY <1>1, <1>2, <1>4, <1>5, <1>6, <1>7, <1>8, <1>9, <1>10 DEF Next, ServerStep

-----------------------------------------------------------------------------
\* What a step makes handled.
LEMMA HandledGrows ==
    ASSUME TypeOK, NEW m \in Messages, NEW d \in Clients,
           handled' = Append(handled, [msg |-> m, client |-> d])
    PROVE  \A n : n \in Handled' <=> n \in Handled \/ n = m
<1>1. /\ Len(handled) \in Nat /\ Len(handled') = Len(handled) + 1
      /\ \A i \in 1..Len(handled) : handled'[i] = handled[i]
      /\ handled'[Len(handled) + 1] = [msg |-> m, client |-> d]
  <2>1. /\ handled \in Seq([msg : Messages, client : Clients])
        /\ [msg |-> m, client |-> d] \in [msg : Messages, client : Clients]
    BY DEF TypeOK
  <2>. QED  BY <2>1, AppendProperties
<1> SUFFICES ASSUME NEW n PROVE n \in Handled' <=> n \in Handled \/ n = m
  OBVIOUS
<1>2. ASSUME n \in Handled PROVE n \in Handled'
  <2>1. PICK i \in 1..Len(handled) : handled[i].msg = n
    BY <1>2 DEF Handled
  <2>2. i \in 1..Len(handled') /\ handled'[i].msg = n
    BY <1>1, <2>1
  <2>. QED  BY <2>2 DEF Handled
<1>3. ASSUME n = m PROVE n \in Handled'
  <2>1. Len(handled) + 1 \in 1..Len(handled') /\ handled'[Len(handled) + 1].msg = n
    BY <1>1, <1>3
  <2>. QED  BY <2>1 DEF Handled
<1>4. ASSUME n \in Handled', n # m PROVE n \in Handled
  <2>1. PICK i \in 1..Len(handled') : handled'[i].msg = n
    BY <1>4 DEF Handled
  <2>2. i \in 1..Len(handled)
    BY <1>1, <1>4, <2>1
  <2>. QED  BY <1>1, <2>1, <2>2 DEF Handled
<1>. QED  BY <1>2, <1>3, <1>4

\* The first of a queue is a message, and it is the only one of it there.
LEMMA HeadIs ==
    ASSUME TypeOK, NEW c \in Clients, Queue(c) # <<>>
    PROVE  /\ Head(Queue(c)) \in Messages /\ Head(Queue(c)) = Queue(c)[1]
           /\ 1 \in 1..Len(Queue(c))
           /\ Len(Tail(Queue(c))) = Len(Queue(c)) - 1
           /\ \A i \in 1..Len(Tail(Queue(c))) :
                 i + 1 \in 1..Len(Queue(c)) /\ Tail(Queue(c))[i] = Queue(c)[i + 1]
<1>1. Queue(c) \in Seq(Messages)
  BY QueueIs
<1>. QED  BY <1>1, HeadTailProperties

\* A queue stays what it is, as far as its messages keep their sender and are not
\* the one handled.
LEMMA StillWaits ==
    ASSUME NEW c \in Clients, Waits(c), NEW n \in Nat, Len(Queue(c)) \in Nat,
           Len(Queue(c)') \in Nat, Len(Queue(c)') + n <= Len(Queue(c)),
           \A i \in 1..Len(Queue(c)') :
               /\ Queue(c)'[i] = Queue(c)[i + n]
               /\ sender'[Queue(c)'[i]] = c /\ Queue(c)'[i] \notin Handled'
    PROVE  Waits(c)'
<1>1. \A i \in 1..Len(Queue(c)') : i + n \in 1..Len(Queue(c))
  OBVIOUS
<1>2. ASSUME NEW i \in 1..Len(Queue(c)'), NEW j \in 1..Len(Queue(c)'),
             Queue(c)'[i] = Queue(c)'[j]
      PROVE  i = j
  <2>1. Queue(c)[i + n] = Queue(c)[j + n]
    BY <1>2
  <2>2. i + n = j + n
    BY <1>1, <2>1 DEF Waits
  <2>. QED  BY <2>2
<1>. QED  BY <1>2 DEF Waits

\* The batch comes from one client and is held while the server polls.
LEMMA BatchStep == TypeOK /\ QueueInv /\ [Next]_vars => BatchIsSent'
<1> SUFFICES ASSUME TypeOK, QueueInv, [Next]_vars PROVE BatchIsSent'
  OBVIOUS
<1> USE DEF server, streams, clients, history, vars
<1>0. BatchIsSent /\ batch \in Seq(Messages)
  BY DEF QueueInv, TypeOK
<1>1. ASSUME UNCHANGED <<batch, sender>>, pc' = pc \/ batch = <<>> PROVE BatchIsSent'
  BY <1>0, <1>1 DEF BatchIsSent
<1>2. CASE WouldBlock \/ DeliverPastEnd \/ PollEnds \/ SayGoodbye \/ Lose
  BY <1>1, <1>2 DEF WouldBlock, DeliverPastEnd, PollEnds, SayGoodbye, Lose
<1>3. CASE NobodyJoins \/ Stop \/ \E c \in Clients : Accept(c) \/ Refuse(c)
  <2>1. pc # "poll" /\ UNCHANGED <<batch, sender>>
    BY <1>3 DEF NobodyJoins, Stop, Accept, Refuse, BeginPoll, At
  <2>. QED  BY <1>0, <1>1, <2>1 DEF BatchIsSent
<1>4. CASE Receive
  <2>0. table[it] \in Clients
    BY <1>4 DEF Receive, Polling, TypeOK
  <2> PICK p \in Clients : table[it] = p
    BY <2>0
  <2>1. batch = <<>> /\ pc = "poll" /\ UNCHANGED <<pc, sender>> /\ up[p] \in Seq(Messages)
    BY <1>4 DEF Receive, Polling, At, TypeOK
  <2>2. PICK n \in 1..Len(up[p]) : batch' = SubSeq(up[p], 1, n)
    BY <1>4 DEF Receive, Polled
  <2>3. batch'[1] = up[p][1] /\ 1 \in 1..Len(up[p])
    BY <2>1, <2>2
  <2>4. sender[up[p][1]] = p
    BY <2>1, <2>3, QueueIs DEF QueueInv, Waits
  <2>. QED  BY <2>1, <2>3, <2>4 DEF BatchIsSent
<1>5. CASE Deliver
  <2>1. pc = "poll" /\ UNCHANGED <<pc, sender>> /\ batch # <<>> /\ batch' = Tail(batch)
    BY <1>5 DEF Deliver, At
  <2>2. ASSUME Tail(batch) # <<>> PROVE sender[Tail(batch)[1]] \in Clients
    <3>1. PICK b \in Clients : sender[batch[1]] = b
      BY <1>0, <2>1 DEF BatchIsSent
    <3>2. Len(batch) \in Nat /\ 2 \in 1..Len(batch) /\ Tail(batch)[1] = batch[2]
      BY <1>0, <2>1, <2>2
    <3>3. Queue(b) = batch \o up[b] /\ up[b] \in Seq(Messages)
      BY <2>1, <3>1, QueueIs DEF TypeOK
    <3>4. 2 \in 1..Len(Queue(b)) /\ Queue(b)[2] = batch[2]
      BY <1>0, <3>2, <3>3, ConcatProperties
    <3>. QED  BY <3>2, <3>4 DEF QueueInv, Waits
  <2>. QED  BY <2>1, <2>2 DEF BatchIsSent
<1>6. ASSUME NEW c \in Clients, NEW m \in Messages, Write(c, m) PROVE BatchIsSent'
  <2>1. /\ sender[m] = None /\ sender' = [sender EXCEPT ![m] = c]
        /\ UNCHANGED <<batch, pc>>
    BY <1>6 DEF Write
  <2>2. ASSUME batch # <<>> PROVE sender'[batch[1]] = sender[batch[1]]
    <3>1. batch[1] \in Messages /\ batch[1] # m
      BY <1>0, <2>1, <2>2, ConstantsAssumption DEF BatchIsSent
    <3>. QED  BY <2>1, <3>1 DEF TypeOK
  <2>. QED  BY <1>0, <2>1, <2>2 DEF BatchIsSent
<1>7. ASSUME NEW c \in Clients,
             Connect(c) \/ Quit(c) \/ Register(c) \/ PollRead(c) \/ Handle(c)
      PROVE  BatchIsSent'
  BY <1>1, <1>7 DEF Connect, Quit, Register, PollRead, Handle
<1>8. CASE UNCHANGED vars
  BY <1>1, <1>8
<1>. QED  BY <1>2, <1>3, <1>4, <1>5, <1>6, <1>7, <1>8 DEF Next, ServerStep

\* Every step keeps what QueueInv says of the queues.
LEMMA QueueStep == TypeOK /\ TypeOK' /\ QueueInv /\ [Next]_vars => QueueInv'
<1> SUFFICES ASSUME TypeOK, TypeOK', QueueInv, [Next]_vars PROVE QueueInv'
  OBVIOUS
<1>0. /\ BatchIsSent' /\ HandledAreSent
      /\ \A c \in Clients : Waits(c) /\ Queue(c) \in Seq(Messages) /\ Len(Queue(c)) \in Nat
  <2>1. \A c \in Clients : Queue(c) \in Seq(Messages)
    BY QueueIs
  <2>. QED  BY <2>1, BatchStep DEF QueueInv
<1>1. CASE NoMove
  <2>1. \A n : n \in Handled' <=> n \in Handled
    BY <1>1 DEF NoMove, Handled
  <2>2. HandledAreSent'
    BY <1>0, <1>1, <2>1 DEF HandledAreSent, NoMove
  <2>3. ASSUME NEW c \in Clients PROVE Waits(c)'
    BY <1>0, <1>1, <2>1 DEF Waits, NoMove
  <2>. QED  BY <1>0, <2>2, <2>3 DEF QueueInv
<1>2. ASSUME UNCHANGED <<sender, handled>>,
             \A c \in Clients : Queue(c)' = <<>> \/ Queue(c)' = Queue(c)
      PROVE  QueueInv'
  <2>1. \A n : n \in Handled' <=> n \in Handled
    BY <1>2 DEF Handled
  <2>2. HandledAreSent'
    BY <1>0, <1>2, <2>1 DEF HandledAreSent
  <2>3. ASSUME NEW c \in Clients PROVE Waits(c)'
    <3>1. CASE Queue(c)' = <<>>
      BY <3>1 DEF Waits
    <3>2. CASE Queue(c)' = Queue(c)
      BY <1>0, <1>2, <2>1, <3>2 DEF Waits
    <3>. QED  BY <1>2, <3>1, <3>2
  <2>. QED  BY <1>0, <2>2, <2>3 DEF QueueInv
<1>3. CASE DropsAll \/ \E c \in Clients : Drops(c)
  BY <1>2, <1>3 DEF DropsAll, Drops
<1>4. ASSUME NEW c \in Clients, Serves(c) PROVE QueueInv'
  <2> DEFINE m == Queue(c)[1]
  <2>1. /\ m \in Messages /\ 1 \in 1..Len(Queue(c))
        /\ Len(Queue(c)') = Len(Queue(c)) - 1
        /\ \A i \in 1..Len(Queue(c)') :
              i + 1 \in 1..Len(Queue(c)) /\ Queue(c)'[i] = Queue(c)[i + 1]
    BY <1>4, HeadIs DEF Serves
  <2>2. \A n : n \in Handled' <=> n \in Handled \/ n = Queue(c)[1]
    <3>1. PICK d \in Clients : handled' = Append(handled, [msg |-> m, client |-> d])
      BY <1>4, HeadIs DEF Serves
    <3> HIDE DEF m
    <3>2. \A n : n \in Handled' <=> n \in Handled \/ n = m
      BY <2>1, <3>1, HandledGrows
    <3>. QED  BY <3>2 DEF m
  <2>3. sender' = sender /\ sender[Queue(c)[1]] = c
    BY <1>0, <1>4, <2>1 DEF Serves, Waits
  <2>4. HandledAreSent'
    BY <1>0, <2>2, <2>3 DEF HandledAreSent
  <2>5. Waits(c)'
    <3>1. ASSUME NEW i \in 1..Len(Queue(c)')
          PROVE  /\ Queue(c)'[i] = Queue(c)[i + 1]
                 /\ sender'[Queue(c)'[i]] = c /\ Queue(c)'[i] \notin Handled'
      <4>1. /\ i + 1 \in 1..Len(Queue(c)) /\ Queue(c)'[i] = Queue(c)[i + 1]
            /\ i + 1 # 1
        BY <2>1
      <4>2. Queue(c)[i + 1] # Queue(c)[1]
        BY <1>0, <2>1, <4>1 DEF Waits
      <4>. QED  BY <1>0, <2>2, <2>3, <4>1, <4>2 DEF Waits
    <3>2. Len(Queue(c)') \in Nat /\ Len(Queue(c)') + 1 <= Len(Queue(c))
      BY <1>0, <2>1
    <3>. QED  BY <1>0, <3>1, <3>2, StillWaits
  <2>6. ASSUME NEW d \in Clients \ {c} PROVE Waits(d)'
    <3>1. Queue(d)' = Queue(d)
      BY <1>4 DEF Serves
    <3>2. \A i \in 1..Len(Queue(d)) : Queue(d)[i] # Queue(c)[1]
      BY <1>0, <2>3 DEF Waits
    <3>. QED  BY <1>0, <2>2, <2>3, <3>1, <3>2 DEF Waits
  <2>. QED  BY <1>0, <2>4, <2>5, <2>6 DEF QueueInv
<1>5. ASSUME NEW c \in Clients, NEW m \in Messages, Sends(c, m) PROVE QueueInv'
  <2>1. /\ sender[m] = None /\ sender' = [sender EXCEPT ![m] = c]
        /\ \A n : n \in Handled' <=> n \in Handled
    BY <1>5 DEF Sends, Handled
  <2>2. m \notin Handled
    BY <1>0, <2>1, ConstantsAssumption DEF HandledAreSent
  <2>3. /\ sender'[m] = c
        /\ \A n \in Messages : n # m => sender'[n] = sender[n]
    BY <2>1 DEF TypeOK
  <2>4. HandledAreSent'
    BY <1>0, <2>1, <2>3 DEF HandledAreSent
  <2>5. ASSUME NEW d \in Clients, NEW i \in 1..Len(Queue(d))
        PROVE  /\ Queue(d)[i] \in Messages /\ Queue(d)[i] # m
               /\ sender'[Queue(d)[i]] = d /\ Queue(d)[i] \notin Handled'
    <3>1. Queue(d)[i] \in Messages /\ sender[Queue(d)[i]] = d /\ Queue(d)[i] \notin Handled
      BY <1>0 DEF Waits
    <3>2. Queue(d)[i] # m
      BY <2>1, <3>1, ConstantsAssumption
    <3>. QED  BY <2>1, <2>3, <3>1, <3>2
  <2>6. ASSUME NEW d \in Clients, Queue(d)' = Queue(d) PROVE Waits(d)'
    BY <1>0, <2>5, <2>6 DEF Waits
  <2>7. ASSUME Queue(c)' = Append(Queue(c), m) PROVE Waits(c)'
    <3>1. /\ Len(Queue(c)') = Len(Queue(c)) + 1
          /\ \A i \in 1..Len(Queue(c)) : Queue(c)'[i] = Queue(c)[i]
          /\ Queue(c)'[Len(Queue(c)) + 1] = m
      BY <1>0, <2>7, AppendProperties
    <3>2. ASSUME NEW i \in 1..Len(Queue(c)')
          PROVE  sender'[Queue(c)'[i]] = c /\ Queue(c)'[i] \notin Handled'
      <4>1. i \in 1..Len(Queue(c)) \/ i = Len(Queue(c)) + 1
        BY <1>0, <3>1
      <4>. QED  BY <2>1, <2>2, <2>3, <2>5, <3>1, <4>1
    <3>3. ASSUME NEW i \in 1..Len(Queue(c)'), NEW j \in 1..Len(Queue(c)'),
                 Queue(c)'[i] = Queue(c)'[j]
          PROVE  i = j
      <4>1. \A k \in {i, j} : k \in 1..Len(Queue(c)) \/ k = Len(Queue(c)) + 1
        BY <1>0, <3>1
      <4>2. CASE i \in 1..Len(Queue(c)) /\ j \in 1..Len(Queue(c))
        BY <1>0, <3>1, <3>3, <4>2 DEF Waits
      <4>3. CASE i = Len(Queue(c)) + 1 /\ j \in 1..Len(Queue(c))
        BY <2>5, <3>1, <3>3, <4>3
      <4>4. CASE j = Len(Queue(c)) + 1 /\ i \in 1..Len(Queue(c))
        BY <2>5, <3>1, <3>3, <4>4
      <4>. QED  BY <4>1, <4>2, <4>3, <4>4
    <3>. QED  BY <3>2, <3>3 DEF Waits
  <2>8. \A d \in Clients : Waits(d)'
    BY <1>5, <2>6, <2>7 DEF Sends
  <2>. QED  BY <1>0, <2>4, <2>8 DEF QueueInv
<1>. QED  BY <1>1, <1>3, <1>4, <1>5, StepMoves DEF QueueMoves

-----------------------------------------------------------------------------
\* A reply on its way is one to a message that has been handled; a client waits
\* for, and is about to wait for, the answers to messages of its own; what has been
\* answered has been handled, and nobody waits for it any more.
Backed(s) == \A i \in 1..Len(s) : s[i].kind = "reply" => s[i].of \in Handled
Awaits(c) ==
    /\ \A m \in callbacks[c] : sender[m] = c /\ m \notin Answered
    /\ writing[c] # None =>
          /\ sender[writing[c]] = c
          /\ writing[c] \notin Answered \cup callbacks[c]
AnswerInv ==
    /\ \A c \in Clients : Backed(inbox[c]) /\ Backed(down[c])
    /\ \A c \in Clients : Awaits(c)
    /\ Answered \subseteq Handled

\* What a step does to what is answered and awaited.
NoAnswer == UNCHANGED <<answered, callbacks, writing, sender>>
Answers(c, m) ==
    /\ m \in callbacks[c] /\ m \in Handled
    /\ answered' = Append(answered, m)
    /\ callbacks' = [callbacks EXCEPT ![c] = @ \ {m}]
    /\ UNCHANGED <<writing, sender, handled>>
    /\ \A d \in Clients : Queue(d)' = Queue(d)
Begins(c, m) ==
    /\ sender[m] = None /\ writing[c] = None
    /\ sender' = [sender EXCEPT ![m] = c]
    /\ writing' = [writing EXCEPT ![c] = m]
    /\ UNCHANGED <<answered, callbacks>>
Registers(c) ==
    /\ writing[c] # None
    /\ writing' = [writing EXCEPT ![c] = None]
    /\ callbacks'[c] \subseteq callbacks[c] \cup {writing[c]}
    /\ \A d \in Clients \ {c} : callbacks'[d] = callbacks[d]
    /\ UNCHANGED <<answered, sender>>
AnswerMoves ==
    \/ NoAnswer
    \/ \E c \in Clients :
          Registers(c) \/ \E m \in Messages : Answers(c, m) \/ Begins(c, m)

\* Nothing that has been handled is ever forgotten.
LEMMA HandledStays ==
    ASSUME TypeOK, QueueMoves
    PROVE  Handled \subseteq Handled'
<1>1. ASSUME UNCHANGED handled PROVE Handled \subseteq Handled'
  BY <1>1 DEF Handled
<1>2. ASSUME NEW c \in Clients, Serves(c) PROVE Handled \subseteq Handled'
  <2>1. PICK d \in Clients : handled' = Append(handled, [msg |-> Head(Queue(c)), client |-> d])
    BY <1>2 DEF Serves
  <2>2. Head(Queue(c)) \in Messages
    BY <1>2, HeadIs DEF Serves
  <2>. QED  BY <2>1, <2>2, HandledGrows
<1>. QED  BY <1>1, <1>2 DEF QueueMoves, NoMove, DropsAll, Drops, Sends

\* A part of what is backed is backed, and so is what is sent to a client.
LEMMA PartIsBacked ==
    ASSUME NEW s \in Seq(Unit), Backed(s), NEW m \in 1..(Len(s) + 1), NEW n \in 0..Len(s)
    PROVE  Backed(SubSeq(s, m, n))
<1>1. /\ Len(SubSeq(s, m, n)) = IF m <= n THEN n - m + 1 ELSE 0
      /\ \A j \in 1..(n - m + 1) : SubSeq(s, m, n)[j] = s[m + j - 1]
  BY PartIs
<1>2. ASSUME NEW j \in 1..Len(SubSeq(s, m, n))
      PROVE  m + j - 1 \in 1..Len(s) /\ SubSeq(s, m, n)[j] = s[m + j - 1]
  BY <1>1
<1>. QED  BY <1>2 DEF Backed

LEMMA SentIsBacked ==
    ASSUME TypeOK, AnswerInv, Handled \subseteq Handled', NEW c \in Clients, NEW u \in Unit,
           u.kind = "reply" => u.of \in Handled', down' = Sent(c, u)
    PROVE  \A d \in Clients : Backed(down[d])'
<1> SUFFICES ASSUME NEW d \in Clients PROVE Backed(down[d])'
  OBVIOUS
<1>1. down[d] \in Seq(Unit) /\ Backed(down[d])
  BY DEF TypeOK, AnswerInv
<1>2. ASSUME down'[d] = down[d] PROVE Backed(down[d])'
  BY <1>1, <1>2 DEF Backed
<1>3. ASSUME down'[d] = Append(down[d], u) PROVE Backed(down[d])'
  <2>1. /\ Len(down'[d]) = Len(down[d]) + 1
        /\ \A i \in 1..Len(down[d]) : down'[d][i] = down[d][i]
        /\ down'[d][Len(down[d]) + 1] = u
    BY <1>1, <1>3, AppendProperties
  <2>2. ASSUME NEW i \in 1..Len(down'[d])
        PROVE  down'[d][i] = u \/ (i \in 1..Len(down[d]) /\ down'[d][i] = down[d][i])
    BY <1>1, <2>1
  <2>. QED  BY <1>1, <2>2 DEF Backed
<1>. QED  BY <1>2, <1>3 DEF Sent, TypeOK

\* Every step keeps the replies backed.
LEMMA BackedStep ==
    ASSUME TypeOK, QueueInv, AnswerInv, [Next]_vars
    PROVE  \A c \in Clients : (Backed(inbox[c]) /\ Backed(down[c]))'
<1> USE DEF server, streams, clients, history, vars
<1>0. /\ Handled \subseteq Handled'
      /\ \A c \in Clients : Backed(inbox[c]) /\ Backed(down[c])
      /\ \A c \in Clients : inbox[c] \in Seq(Unit) /\ down[c] \in Seq(Unit)
      /\ Backed(<<>>)
  BY StepMoves, HandledStays DEF AnswerInv, TypeOK, Backed
<1>1. ASSUME NEW c \in Clients, UNCHANGED inbox[c] PROVE Backed(inbox[c])'
  BY <1>0, <1>1 DEF Backed
<1>2. ASSUME NEW c \in Clients, down'[c] = down[c] \/ down'[c] = <<>> PROVE Backed(down[c])'
  BY <1>0, <1>2 DEF Backed
<1>3. ASSUME NEW c \in Clients, NEW u \in Unit, down' = Sent(c, u), UNCHANGED inbox,
             u.kind = "reply" => u.of \in Handled'
      PROVE  \A d \in Clients : (Backed(inbox[d]) /\ Backed(down[d]))'
  BY <1>0, <1>1, <1>3, SentIsBacked
<1>4. CASE NobodyJoins \/ WouldBlock \/ Lose \/ Receive \/ DeliverPastEnd \/ PollEnds \/ Stop
  BY <1>1, <1>2, <1>4
  DEF NobodyJoins, WouldBlock, Lose, Receive, DeliverPastEnd, PollEnds, Stop
<1>5. ASSUME NEW c \in Clients, Accept(c) \/ Refuse(c)
      PROVE  \A d \in Clients : (Backed(inbox[d]) /\ Backed(down[d]))'
  BY <1>3, <1>5, UnitsAre DEF Accept, Refuse, Command
<1>6. CASE Deliver
  <2>1. /\ down' = Sent(table[it], Reply(Head(batch))) /\ UNCHANGED inbox
        /\ table[it] \in Clients /\ Head(batch) \in Messages
        /\ handled' = Append(handled, [msg |-> Head(batch), client |-> table[it]])
    BY <1>6 DEF Deliver, Polled, TypeOK
  <2>2. Head(batch) \in Handled'
    BY <2>1, HandledGrows
  <2>. QED  BY <1>3, <2>1, <2>2, UnitsAre DEF Reply
<1>7. CASE SayGoodbye
  <2>1. /\ down' = Sent(table[it], Command("disconnect")) /\ UNCHANGED inbox
        /\ table[it] \in Clients
    BY <1>7 DEF SayGoodbye, Polled, TypeOK
  <2>. QED  BY <1>3, <2>1, UnitsAre DEF Command
<1>8. ASSUME NEW c \in Clients, Connect(c) \/ Quit(c) \/ Register(c)
      PROVE  \A d \in Clients : (Backed(inbox[d]) /\ Backed(down[d]))'
  <2>1. UNCHANGED inbox /\ \A d \in Clients : down'[d] = down[d] \/ down'[d] = <<>>
    BY <1>8 DEF Connect, Quit, Register, Closed, TypeOK
  <2>. QED  BY <1>1, <1>2, <2>1
<1>9. ASSUME NEW c \in Clients, NEW m \in Messages, Write(c, m)
      PROVE  \A d \in Clients : (Backed(inbox[d]) /\ Backed(down[d]))'
  BY <1>1, <1>2, <1>9 DEF Write
<1>10. ASSUME NEW c \in Clients, PollRead(c)
       PROVE  \A d \in Clients : (Backed(inbox[d]) /\ Backed(down[d]))'
  <2>1. PICK n \in 1..Len(down[c]) :
            /\ inbox' = [inbox EXCEPT ![c] = SubSeq(down[c], 1, n)]
            /\ down' = [down EXCEPT ![c] = SubSeq(@, n + 1, Len(@))]
    BY <1>10 DEF PollRead
  <2>2. Backed(SubSeq(down[c], 1, n)) /\ Backed(SubSeq(down[c], n + 1, Len(down[c])))
    <3>1. /\ 1 \in 1..(Len(down[c]) + 1) /\ n \in 0..Len(down[c])
          /\ n + 1 \in 1..(Len(down[c]) + 1) /\ Len(down[c]) \in 0..Len(down[c])
      BY <1>0
    <3>. QED  BY <1>0, <3>1, PartIsBacked
  <2>3. (Backed(inbox[c]) /\ Backed(down[c]))'
    <3>1. inbox'[c] = SubSeq(down[c], 1, n) /\ down'[c] = SubSeq(down[c], n + 1, Len(down[c]))
      BY <2>1 DEF TypeOK
    <3>. QED  BY <1>0, <2>2, <3>1 DEF Backed
  <2>4. ASSUME NEW d \in Clients, d # c PROVE (Backed(inbox[d]) /\ Backed(down[d]))'
    BY <1>1, <1>2, <2>1, <2>4 DEF TypeOK
  <2>. QED  BY <2>3, <2>4
<1>11. ASSUME NEW c \in Clients, Handle(c)
       PROVE  \A d \in Clients : (Backed(inbox[d]) /\ Backed(down[d]))'
  <2>1. /\ inbox[c] # <<>> /\ inbox' = [inbox EXCEPT ![c] = AfterFirst(inbox[c])]
        /\ Closed(c) \/ UNCHANGED <<end, down>>
    BY <1>11 DEF Handle, ThrowsBeyondBuffer
  <2>2. \A d \in Clients : down'[d] = down[d] \/ down'[d] = <<>>
    BY <2>1 DEF Closed, TypeOK
  <2>3. PICK n \in 1..Len(inbox[c]) : AfterFirst(inbox[c]) = SubSeq(inbox[c], n + 1, Len(inbox[c]))
    BY <1>0, <2>1, AfterFirstIs
  <2>4. Backed(SubSeq(inbox[c], n + 1, Len(inbox[c])))
    <3>1. n + 1 \in 1..(Len(inbox[c]) + 1) /\ Len(inbox[c]) \in 0..Len(inbox[c])
      BY <1>0
    <3>. QED  BY <1>0, <3>1, PartIsBacked
  <2>5. Backed(inbox[c])'
    <3>1. inbox'[c] = SubSeq(inbox[c], n + 1, Len(inbox[c]))
      BY <2>1, <2>3 DEF TypeOK
    <3>. QED  BY <1>0, <2>4, <3>1 DEF Backed
  <2>6. ASSUME NEW d \in Clients, d # c PROVE Backed(inbox[d])'
    BY <1>1, <2>1, <2>6 DEF TypeOK
  <2>. QED  BY <1>2, <2>2, <2>5, <2>6
<1>12. CASE UNCHANGED vars
  BY <1>1, <1>2, <1>12
<1>. QED  BY <1>4, <1>5, <1>6, <1>7, <1>8, <1>9, <1>10, <1>11, <1>12 DEF Next, ServerStep

\* Every step answers, begins to wait and registers in one of these ways.
LEMMA StepAnswers ==
    ASSUME TypeOK, AnswerInv, [Next]_vars
    PROVE  AnswerMoves
<1> USE DEF server, streams, clients, history, vars
<1>1. CASE \/ NobodyJoins \/ WouldBlock \/ Lose \/ Receive \/ Deliver \/ DeliverPastEnd
           \/ PollEnds \/ SayGoodbye \/ Stop
  BY <1>1
  DEF NobodyJoins, WouldBlock, Lose, Receive, Deliver, DeliverPastEnd, PollEnds, SayGoodbye,
      Stop, AnswerMoves, NoAnswer
<1>2. ASSUME NEW c \in Clients,
             Accept(c) \/ Refuse(c) \/ Connect(c) \/ Quit(c) \/ PollRead(c)
      PROVE  AnswerMoves
  BY <1>2 DEF Accept, Refuse, Connect, Quit, PollRead, AnswerMoves, NoAnswer
<1>3. ASSUME NEW c \in Clients, Register(c) PROVE AnswerMoves
  <2>1. Registers(c)
    BY <1>3 DEF Register, Registers, TypeOK
  <2>. QED  BY <2>1 DEF AnswerMoves
<1>4. ASSUME NEW c \in Clients, NEW m \in Messages, Write(c, m) PROVE AnswerMoves
  <2>1. Begins(c, m)
    BY <1>4 DEF Write, Begins
  <2>. QED  BY <2>1 DEF AnswerMoves
<1>5. ASSUME NEW c \in Clients, Handle(c) PROVE AnswerMoves
  <2>0. PICK u \in Unit : u = Head(inbox[c]) /\ u = inbox[c][1] /\ 1 \in 1..Len(inbox[c])
    BY <1>5 DEF Handle, TypeOK
  <2>1. Fire(c, u) /\ UNCHANGED <<batch, up, writing, sender, handled>>
    BY <1>5, <2>0 DEF Handle
  <2>2. \A d \in Clients : Queue(d)' = Queue(d)
    BY <2>1, QueueRests DEF NoMove
  <2>3. CASE u.of \notin callbacks[c]
    BY <2>1, <2>3 DEF Fire, AnswerMoves, NoAnswer
  <2>4. CASE u.of \in callbacks[c]
    <3>1. u.of \in Messages
      BY <2>4 DEF TypeOK
    <3>2. u.of \in Handled
      <4>1. u.kind = "reply"
        BY <3>1, ConstantsAssumption DEF Unit
      <4>. QED  BY <2>0, <4>1 DEF AnswerInv, Backed
    <3>3. /\ answered' = Append(answered, u.of)
          /\ callbacks' = [callbacks EXCEPT ![c] = @ \ {u.of}]
      BY <2>1, <2>4, Zenon DEF Fire
    <3>4. Answers(c, u.of)
      BY <2>1, <2>2, <2>4, <3>2, <3>3 DEF Answers
    <3>. QED  BY <3>1, <3>4 DEF AnswerMoves
  <2>. QED  BY <2>3, <2>4
<1>6. CASE UNCHANGED vars
  BY <1>6 DEF AnswerMoves, NoAnswer
<1>. QED  BY <1>1, <1>2, <1>3, <1>4, <1>5, <1>6 DEF Next, ServerStep

\* What a callback that is called makes answered.
LEMMA AnsweredGrows ==
    ASSUME TypeOK, NEW m \in Messages, answered' = Append(answered, m)
    PROVE  \A n : n \in Answered' <=> n \in Answered \/ n = m
<1>1. /\ Len(answered) \in Nat /\ Len(answered') = Len(answered) + 1
      /\ \A i \in 1..Len(answered) : answered'[i] = answered[i]
      /\ answered'[Len(answered) + 1] = m
  BY AppendProperties DEF TypeOK
<1>2. \A i \in 1..Len(answered') : i \in 1..Len(answered) \/ i = Len(answered) + 1
  BY <1>1
<1>3. \A i \in 1..Len(answered) : i \in 1..Len(answered')
  BY <1>1
<1>4. Len(answered) + 1 \in 1..Len(answered')
  BY <1>1
<1>. QED  BY <1>1, <1>2, <1>3, <1>4 DEF Answered

\* Every step keeps what AnswerInv says of the answers.
LEMMA AnswerStep ==
    TypeOK /\ QueueInv /\ AnswerInv /\ [Next]_vars => AnswerInv'
<1> SUFFICES ASSUME TypeOK, QueueInv, AnswerInv, [Next]_vars PROVE AnswerInv'
  OBVIOUS
<1>0. /\ \A c \in Clients : (Backed(inbox[c]) /\ Backed(down[c]))'
      /\ Handled \subseteq Handled' /\ Answered \subseteq Handled
      /\ \A c \in Clients : Awaits(c)
      /\ writing \in [Clients -> Messages \cup {None}]
      /\ callbacks \in [Clients -> SUBSET Messages]
      /\ sender \in [Messages -> Clients \cup {None}]
  BY BackedStep, StepMoves, HandledStays DEF AnswerInv, TypeOK
<1>1. ASSUME UNCHANGED answered PROVE Answered' = Answered
  BY <1>1 DEF Answered
<1>2. CASE NoAnswer
  <2>1. \A c \in Clients : Awaits(c)'
    BY <1>0, <1>1, <1>2 DEF NoAnswer, Awaits
  <2>. QED  BY <1>0, <1>1, <1>2, <2>1 DEF AnswerInv, NoAnswer
<1>3. ASSUME NEW c \in Clients, Registers(c) PROVE AnswerInv'
  <2>0. UNCHANGED answered /\ UNCHANGED sender /\ Answered' = Answered
    BY <1>1, <1>3 DEF Registers
  <2>1. Awaits(c)'
    <3>1. /\ writing'[c] = None /\ writing[c] # None
          /\ callbacks'[c] \subseteq callbacks[c] \cup {writing[c]}
      BY <1>0, <1>3 DEF Registers
    <3>. QED  BY <1>0, <2>0, <3>1 DEF Awaits
  <2>2. ASSUME NEW d \in Clients \ {c} PROVE Awaits(d)'
    <3>1. writing'[d] = writing[d] /\ callbacks'[d] = callbacks[d]
      BY <1>0, <1>3 DEF Registers
    <3>. QED  BY <1>0, <2>0, <3>1 DEF Awaits
  <2>. QED  BY <1>0, <2>0, <2>1, <2>2 DEF AnswerInv
<1>4. ASSUME NEW c \in Clients, NEW m \in Messages, Answers(c, m) PROVE AnswerInv'
  <2>1. \A n : n \in Answered' <=> n \in Answered \/ n = m
    BY <1>4, AnsweredGrows DEF Answers
  <2>2. sender[m] = c /\ m # writing[c] /\ m \in Handled
    <3>1. m \in Messages /\ m # None
      BY ConstantsAssumption
    <3>. QED  BY <1>0, <1>4, <3>1 DEF Answers, Awaits
  <2>3. Awaits(c)'
    <3>1. callbacks'[c] = callbacks[c] \ {m} /\ writing'[c] = writing[c] /\ sender' = sender
      BY <1>0, <1>4 DEF Answers
    <3>. QED  BY <1>0, <2>1, <2>2, <3>1 DEF Awaits
  <2>4. ASSUME NEW d \in Clients \ {c} PROVE Awaits(d)'
    <3>1. callbacks'[d] = callbacks[d] /\ writing'[d] = writing[d] /\ sender' = sender
      BY <1>0, <1>4 DEF Answers
    <3>2. m \notin callbacks[d]
      BY <1>0, <2>2 DEF Awaits
    <3>3. writing[d] # None => writing[d] # m
      BY <1>0, <2>2 DEF Awaits
    <3>. QED  BY <1>0, <2>1, <3>1, <3>2, <3>3 DEF Awaits
  <2>5. Answered' \subseteq Handled'
    BY <1>0, <2>1, <2>2
  <2>. QED  BY <1>0, <2>3, <2>4, <2>5 DEF AnswerInv
<1>5. ASSUME NEW c \in Clients, NEW m \in Messages, Begins(c, m) PROVE AnswerInv'
  <2>1. /\ sender[m] = None /\ sender'[m] = c /\ callbacks' = callbacks
        /\ \A n \in Messages : n # m => sender'[n] = sender[n]
        /\ writing'[c] = m /\ \A d \in Clients \ {c} : writing'[d] = writing[d]
        /\ Answered' = Answered
    BY <1>0, <1>1, <1>5 DEF Begins
  <2>2. m \notin Answered
    BY <1>0, <2>1, ConstantsAssumption DEF QueueInv, HandledAreSent
  <2>3. ASSUME NEW d \in Clients PROVE m \notin callbacks[d]
    BY <1>0, <2>1, ConstantsAssumption DEF Awaits
  <2>4. ASSUME NEW d \in Clients, NEW n \in callbacks[d]
        PROVE  sender'[n] = d /\ n \notin Answered
    <3>1. n \in Messages /\ n # m
      BY <1>0, <2>3
    <3>. QED  BY <1>0, <2>1, <3>1 DEF Awaits
  <2>5. Awaits(c)'
    BY <2>1, <2>2, <2>3, <2>4 DEF Awaits
  <2>6. ASSUME NEW d \in Clients \ {c} PROVE Awaits(d)'
    <3>1. ASSUME writing[d] # None
          PROVE  sender'[writing[d]] = d /\ writing[d] \notin Answered \cup callbacks[d]
      <4>1. sender[writing[d]] = d /\ writing[d] \notin Answered \cup callbacks[d]
        BY <1>0, <3>1 DEF Awaits
      <4>2. writing[d] \in Messages /\ writing[d] # m
        BY <1>0, <2>1, <3>1, <4>1, ConstantsAssumption
      <4>. QED  BY <2>1, <4>1, <4>2
    <3>. QED  BY <2>1, <2>4, <3>1 DEF Awaits
  <2>. QED  BY <1>0, <2>1, <2>5, <2>6 DEF AnswerInv
<1>. QED  BY <1>2, <1>3, <1>4, <1>5, StepAnswers DEF AnswerMoves

-----------------------------------------------------------------------------
(* The refinement. *)

Queues == [c \in Clients |-> Queue(c)]
SentMessages == {m \in Messages : sender[m] # None}
HandledMessages == [i \in 1..Len(handled) |-> handled[i].msg]

\* The messages of what has been handled.
LEMMA MessagesAre ==
    ASSUME TypeOK
    PROVE  /\ HandledMessages \in Seq(Messages) /\ Len(HandledMessages) = Len(handled)
           /\ ToSet(HandledMessages) = Handled
<1>1. handled \in Seq([msg : Messages, client : Clients]) /\ Len(handled) \in Nat
  BY DEF TypeOK
<1>2. HandledMessages \in [1..Len(handled) -> Messages]
  <2>1. \A i \in 1..Len(handled) : handled[i] \in [msg : Messages, client : Clients]
    BY <1>1, ElementOfSeq
  <2>2. \A i \in 1..Len(handled) : handled[i].msg \in Messages
    BY <2>1
  <2>. QED  BY <2>2 DEF HandledMessages
<1>3. HandledMessages \in Seq(Messages) /\ Len(HandledMessages) = Len(handled)
  BY <1>1, <1>2
<1>4. ToSet(HandledMessages) = Handled
  BY <1>2 DEF ToSet, Handled, HandledMessages
<1>. QED  BY <1>3, <1>4

LEMMA MessagesGrow ==
    ASSUME TypeOK, TypeOK', NEW m \in Messages, NEW d \in Clients,
           handled' = Append(handled, [msg |-> m, client |-> d])
    PROVE  HandledMessages' = Append(HandledMessages, m)
<1>1. /\ HandledMessages \in Seq(Messages) /\ Len(HandledMessages) = Len(handled)
      /\ Len(handled) \in Nat
  <2>1. Len(handled) \in Nat
    BY DEF TypeOK
  <2>. QED  BY <2>1, MessagesAre
<1>2. HandledMessages' \in Seq(Messages) /\ Len(HandledMessages') = Len(handled')
  <2>1. handled' \in Seq([msg : Messages, client : Clients]) /\ Len(handled') \in Nat
    BY DEF TypeOK
  <2>2. \A i \in 1..Len(handled') : handled'[i].msg \in Messages
    <3>1. \A i \in 1..Len(handled') : handled'[i] \in [msg : Messages, client : Clients]
      BY <2>1, ElementOfSeq
    <3>. QED  BY <3>1
  <2>3. HandledMessages' \in [1..Len(handled') -> Messages]
    BY <2>2 DEF HandledMessages
  <2>. QED  BY <2>1, <2>3
<1>3. /\ Len(handled') = Len(handled) + 1
      /\ \A i \in 1..Len(handled) : handled'[i] = handled[i]
      /\ handled'[Len(handled) + 1] = [msg |-> m, client |-> d]
  <2>1. /\ handled \in Seq([msg : Messages, client : Clients])
        /\ [msg |-> m, client |-> d] \in [msg : Messages, client : Clients]
    BY DEF TypeOK
  <2>. QED  BY <2>1, AppendProperties
<1>4. /\ Append(HandledMessages, m) \in Seq(Messages)
      /\ Len(Append(HandledMessages, m)) = Len(handled) + 1
      /\ \A i \in 1..Len(handled) : Append(HandledMessages, m)[i] = HandledMessages[i]
      /\ Append(HandledMessages, m)[Len(handled) + 1] = m
  BY <1>1, AppendProperties
<1>5. ASSUME NEW i \in 1..Len(handled')
      PROVE  HandledMessages'[i] = Append(HandledMessages, m)[i]
  <2>1. HandledMessages'[i] = handled'[i].msg
    BY DEF HandledMessages
  <2>2. CASE i \in 1..Len(handled)
    <3>1. HandledMessages[i] = handled[i].msg
      BY <2>2 DEF HandledMessages
    <3>. QED  BY <1>3, <1>4, <2>1, <2>2, <3>1
  <2>3. CASE i = Len(handled) + 1
    BY <1>3, <1>4, <2>1, <2>3
  <2>. QED  BY <1>1, <1>3, <2>2, <2>3
<1>. QED  BY <1>2, <1>3, <1>4, <1>5, SeqEqual

\* Every step is a step of Exchange or leaves its variables alone.
LEMMA StepExchanges ==
    ASSUME TypeOK, TypeOK', QueueInv, AnswerInv, [Next]_vars
    PROVE  [Channel!Next]_<<Queues, SentMessages, HandledMessages, answered>>
<1> DEFINE Goal == [Channel!Next]_<<Queues, SentMessages, HandledMessages, answered>>
<1>1. QueueMoves /\ AnswerMoves
  BY StepMoves, StepAnswers
<1>2. \A c \in Clients : Queues[c] = Queue(c)
  BY DEF Queues
<1>3. ASSUME \A c \in Clients : Queue(c)' = Queue(c) PROVE Queues' = Queues
  BY <1>3 DEF Queues
<1>4. UNCHANGED sender => SentMessages' = SentMessages
  BY DEF SentMessages
<1>5. UNCHANGED handled => HandledMessages' = HandledMessages
  BY DEF HandledMessages
<1>6. ASSUME NEW c \in Clients, NEW m \in Messages, Answers(c, m) PROVE Goal
  <2>1. m \in Handled /\ m \notin Answered
    BY <1>6 DEF Answers, AnswerInv, Awaits
  <2>2. ToSet(answered) = Answered
    <3>1. DOMAIN answered = 1..Len(answered)
      BY DEF TypeOK
    <3>. QED  BY <3>1 DEF ToSet, Answered
  <2>3. m \in ToSet(HandledMessages) \ ToSet(answered)
    BY <2>1, <2>2, MessagesAre
  <2>4. UNCHANGED <<Queues, SentMessages, HandledMessages>>
    BY <1>3, <1>4, <1>5, <1>6 DEF Answers
  <2>5. Channel!Answer(m)
    BY <1>6, <2>3, <2>4
    DEF Answers, Channel!Answer, Channel!ToSet, ToSet, Queues, SentMessages, HandledMessages
  <2>. QED  BY <2>5 DEF Channel!Next
<1>7. ASSUME UNCHANGED answered PROVE Goal
  <2>1. CASE NoMove
    BY <1>3, <1>4, <1>5, <1>7, <2>1 DEF NoMove
  <2>2. CASE DropsAll
    <3>1. UNCHANGED <<SentMessages, HandledMessages>>
      BY <1>4, <1>5, <2>2 DEF DropsAll
    <3>2. Queues' = [c \in Clients |-> <<>>]
      BY <2>2 DEF DropsAll, Queues
    <3>3. Channel!Shutdown
      BY <1>7, <3>1, <3>2 DEF Channel!Shutdown, Queues, SentMessages, HandledMessages
    <3>. QED  BY <3>3 DEF Channel!Next
  <2>3. ASSUME NEW c \in Clients, Drops(c) PROVE Goal
    <3>1. UNCHANGED <<SentMessages, HandledMessages>>
      BY <1>4, <1>5, <2>3 DEF Drops
    <3>2. Queues' = [Queues EXCEPT ![c] = <<>>]
      BY <2>3 DEF Drops, Queues
    <3>3. Channel!Lose(c)
      BY <1>7, <3>1, <3>2 DEF Channel!Lose, Queues, SentMessages, HandledMessages
    <3>. QED  BY <3>3 DEF Channel!Next
  <2>4. ASSUME NEW c \in Clients, Serves(c) PROVE Goal
    <3>1. /\ Head(Queue(c)) \in Messages
          /\ Head(Queue(c)) \notin ToSet(HandledMessages)
      <4>1. Head(Queue(c)) = Queue(c)[1] /\ 1 \in 1..Len(Queue(c))
        BY <2>4, HeadIs DEF Serves
      <4>2. Queue(c)[1] \notin Handled
        BY <4>1 DEF QueueInv, Waits
      <4>. QED  BY <2>4, <4>1, <4>2, HeadIs, MessagesAre DEF Serves
    <3>2. HandledMessages' = Append(HandledMessages, Head(Queue(c)))
      BY <2>4, <3>1, MessagesGrow DEF Serves
    <3>3. Queues' = [Queues EXCEPT ![c] = Tail(Queue(c))]
      BY <2>4 DEF Serves, Queues
    <3>4. SentMessages' = SentMessages /\ Queue(c) # <<>>
      BY <1>4, <2>4 DEF Serves
    <3>5. Channel!Serve(c)
      BY <1>2, <1>7, <3>1, <3>2, <3>3, <3>4
      DEF Channel!Serve, Channel!ToSet, ToSet, Queues, SentMessages, HandledMessages
    <3>. QED  BY <3>5 DEF Channel!Next
  <2>5. ASSUME NEW c \in Clients, NEW m \in Messages, Sends(c, m) PROVE Goal
    <3>1. m \notin SentMessages /\ SentMessages' = SentMessages \cup {m}
      <4>1. sender[m] = None /\ sender' = [sender EXCEPT ![m] = c] /\ c # None
        BY <2>5, ConstantsAssumption DEF Sends
      <4>. QED  BY <4>1 DEF SentMessages, TypeOK
    <3>2. HandledMessages' = HandledMessages
      BY <1>5, <2>5 DEF Sends
    <3>3. Queues' \in {Queues, [Queues EXCEPT ![c] = Append(Queue(c), m)]}
      BY <2>5 DEF Sends, Queues
    <3>4. Channel!Send(c, m)
      BY <1>2, <1>7, <3>1, <3>2, <3>3
      DEF Channel!Send, Queues, SentMessages, HandledMessages
    <3>. QED  BY <3>4 DEF Channel!Next
  <2>. QED  BY <1>1, <2>1, <2>2, <2>3, <2>4, <2>5 DEF QueueMoves
<1>8. AnswerMoves => \/ UNCHANGED answered
                     \/ \E c \in Clients : \E m \in Messages : Answers(c, m)
  BY DEF AnswerMoves, NoAnswer, Registers, Begins
<1>. QED  BY <1>1, <1>6, <1>7, <1>8

\* The invariants that the refinement rests on.
LEMMA ExchangeInv == Spec => [](TypeOK /\ QueueInv /\ AnswerInv)
<1>1. Init => QueueInv
  <2> SUFFICES ASSUME Init PROVE QueueInv
    OBVIOUS
  <2>1. \A c \in Clients : Queue(c) = <<>>
    BY DEF Init, Queue
  <2>. QED  BY <2>1 DEF Init, QueueInv, BatchIsSent, HandledAreSent, Waits, Handled
<1>2. Init => AnswerInv
  BY DEF Init, AnswerInv, Backed, Awaits, Handled, Answered
<1>3. TypeOK /\ TypeOK' /\ QueueInv /\ [Next]_vars => QueueInv'
  BY QueueStep
<1>4. TypeOK /\ QueueInv /\ AnswerInv /\ [Next]_vars => AnswerInv'
  BY AnswerStep
<1>. QED  BY <1>1, <1>2, <1>3, <1>4, TypeCorrect, PTL DEF Spec

\* The server and its clients implement Exchange: first in first out, at most once,
\* and a callback once and only for a message that was handled (ExchangesMessages).
THEOREM ExchangeImplemented == Spec => ExchangesMessages
<1>1. Init => Channel!Init
  <2> SUFFICES ASSUME Init PROVE Channel!Init
    OBVIOUS
  <2>1. \A c \in Clients : Queue(c) = <<>>
    BY DEF Init, Queue
  <2>. QED  BY <2>1 DEF Init, Channel!Init
<1>2. TypeOK /\ TypeOK' /\ QueueInv /\ AnswerInv /\ [Next]_vars
      => [Channel!Next]_<<[c \in Clients |-> Queue(c)],
                          {m \in Messages : sender[m] # None},
                          [i \in 1..Len(handled) |-> handled[i].msg], answered>>
  BY StepExchanges DEF Queues, SentMessages, HandledMessages
<1>. QED  BY <1>1, <1>2, ExchangeInv, PTL DEF Spec, ExchangesMessages, Channel!Spec

-----------------------------------------------------------------------------
(* What follows for messages and their answers. *)

HandledOnce == \A i, j \in 1..Len(handled) : handled[i].msg = handled[j].msg => i = j
AnsweredOnce == \A i, j \in 1..Len(answered) : answered[i] = answered[j] => i = j

\* No message is handled twice, whatever is read at once, lost or answered late
\* (server.cpp:265-277).
THEOREM HandledAtMostOnce == Spec => []HandledOnce
<1>1. Init => HandledOnce
  BY DEF Init, HandledOnce
<1>2. TypeOK /\ QueueInv /\ HandledOnce /\ [Next]_vars => HandledOnce'
  <2> SUFFICES ASSUME TypeOK, QueueInv, HandledOnce, [Next]_vars PROVE HandledOnce'
    OBVIOUS
  <2>1. CASE UNCHANGED handled
    BY <2>1 DEF HandledOnce
  <2>2. ASSUME NEW c \in Clients, Serves(c) PROVE HandledOnce'
    <3>1. PICK d \in Clients :
              handled' = Append(handled, [msg |-> Head(Queue(c)), client |-> d])
      BY <2>2 DEF Serves
    <3> DEFINE m == Head(Queue(c))
    <3>2. m \in Messages /\ m \notin Handled
      BY <2>2, HeadIs DEF Serves, QueueInv, Waits
    <3> HIDE DEF m
    <3>3. /\ Len(handled) \in Nat /\ Len(handled') = Len(handled) + 1
          /\ \A i \in 1..Len(handled) : handled'[i] = handled[i]
          /\ handled'[Len(handled) + 1] = [msg |-> m, client |-> d]
      <4>1. /\ handled \in Seq([msg : Messages, client : Clients])
            /\ [msg |-> m, client |-> d] \in [msg : Messages, client : Clients]
            /\ handled' = Append(handled, [msg |-> m, client |-> d])
        BY <3>1, <3>2 DEF TypeOK, m
      <4>. QED  BY <4>1, AppendProperties
    <3>4. \A i \in 1..Len(handled) : handled'[i].msg # m
      BY <3>2, <3>3 DEF Handled
    <3>5. \A i \in 1..Len(handled') : i \in 1..Len(handled) \/ i = Len(handled) + 1
      BY <3>3
    <3>. QED  BY <3>3, <3>4, <3>5 DEF HandledOnce
  <2>. QED  BY <2>1, <2>2, StepMoves DEF QueueMoves, NoMove, DropsAll, Drops, Sends
<1>. QED  BY <1>1, <1>2, ExchangeInv, PTL DEF Spec

\* No callback is called twice, and none for a message that was not handled
\* (server.cpp:397-423).
THEOREM AnsweredAtMostOnce == Spec => [](AnsweredOnce /\ Answered \subseteq Handled)
<1>1. Init => AnsweredOnce
  BY DEF Init, AnsweredOnce
<1>2. TypeOK /\ AnswerInv /\ AnsweredOnce /\ [Next]_vars => AnsweredOnce'
  <2> SUFFICES ASSUME TypeOK, AnswerInv, AnsweredOnce, [Next]_vars PROVE AnsweredOnce'
    OBVIOUS
  <2>1. CASE UNCHANGED answered
    BY <2>1 DEF AnsweredOnce
  <2>2. ASSUME NEW c \in Clients, NEW m \in Messages, Answers(c, m) PROVE AnsweredOnce'
    <3>1. m \notin Answered
      BY <2>2 DEF Answers, AnswerInv, Awaits
    <3>2. /\ Len(answered) \in Nat /\ Len(answered') = Len(answered) + 1
          /\ \A i \in 1..Len(answered) : answered'[i] = answered[i]
          /\ answered'[Len(answered) + 1] = m
      BY <2>2, AppendProperties DEF Answers, TypeOK
    <3>3. \A i \in 1..Len(answered) : answered'[i] # m
      BY <3>1, <3>2 DEF Answered
    <3>4. \A i \in 1..Len(answered') : i \in 1..Len(answered) \/ i = Len(answered) + 1
      BY <3>2
    <3>. QED  BY <3>2, <3>3, <3>4 DEF AnsweredOnce
  <2>. QED  BY <2>1, <2>2, StepAnswers DEF AnswerMoves, NoAnswer, Registers, Begins
<1>3. AnswerInv => Answered \subseteq Handled
  BY DEF AnswerInv
<1>. QED  BY <1>1, <1>2, <1>3, ExchangeInv, PTL DEF Spec

\* A message is not handled while one that its client wrote before it is on its way.
NoOvertaking ==
    [][\A c \in Clients : \A i, j \in 1..Len(Queue(c)) :
          i < j /\ Queue(c)[j] \in Handled' => Queue(c)[i] \in Handled']_vars

\* Messages of one client do not overtake each other, however they are cut into reads
\* (server.cpp:265-277).
THEOREM NobodyOvertakes == Spec => NoOvertaking
<1>1. ASSUME TypeOK, QueueInv, [Next]_vars, NEW c \in Clients,
             NEW i \in 1..Len(Queue(c)), NEW j \in 1..Len(Queue(c)), i < j
      PROVE  Queue(c)[j] \notin Handled'
  <2> DEFINE n == Queue(c)[j]
  <2>1. /\ Queue(c) \in Seq(Messages) /\ Waits(c) /\ n \notin Handled /\ sender[n] = c
        /\ j # 1
    BY <1>1, QueueIs DEF QueueInv, Waits
  <2>2. CASE UNCHANGED handled
    BY <2>1, <2>2 DEF Handled
  <2>3. ASSUME NEW d \in Clients, Serves(d) PROVE n \notin Handled'
    <3>1. PICK e \in Clients :
              handled' = Append(handled, [msg |-> Head(Queue(d)), client |-> e])
      BY <2>3 DEF Serves
    <3>2. /\ Head(Queue(d)) \in Messages /\ Head(Queue(d)) = Queue(d)[1]
          /\ 1 \in 1..Len(Queue(d)) /\ Waits(d)
      BY <1>1, <2>3, HeadIs DEF Serves, QueueInv
    <3>3. Head(Queue(d)) # n
      <4>1. CASE c = d
        BY <2>1, <3>2, <4>1 DEF Waits
      <4>2. CASE c # d
        BY <2>1, <3>2, <4>2 DEF Waits
      <4>. QED  BY <4>1, <4>2
    <3>. QED  BY <1>1, <2>1, <3>1, <3>2, <3>3, HandledGrows
  <2>. QED  BY <1>1, <2>2, <2>3, StepMoves DEF QueueMoves, NoMove, DropsAll, Drops, Sends
<1>2. TypeOK /\ QueueInv /\ [Next]_vars
      => [\A c \in Clients : \A i, j \in 1..Len(Queue(c)) :
             i < j /\ Queue(c)[j] \in Handled' => Queue(c)[i] \in Handled']_vars
  BY <1>1
<1>. QED  BY <1>2, ExchangeInv, PTL DEF Spec, NoOvertaking

-----------------------------------------------------------------------------
(* Whom a message is passed with. *)

\* Every read of the server returns a single message.
SingleReads == [][Receive => Len(batch') = 1]_vars

\* The message that is held is the only one of its read, and its client is the one
\* the iterator stands at.
SingleInv ==
    /\ fate = "alive" /\ Attributed
    /\ batch # <<>> => Len(batch) = 1 /\ it \in 1..Len(table) /\ sender[batch[1]] = table[it]

LEMMA SingleStep ==
    ASSUME TypeOK, QueueInv, SingleInv, [Next]_vars, [Receive => Len(batch') = 1]_vars
    PROVE  SingleInv'
<1> USE DEF server, streams, clients, history, vars
<1>0. /\ batch \in Seq(Messages) /\ table \in Seq(Clients) /\ it \in Nat \ {0}
      /\ handled \in Seq([msg : Messages, client : Clients]) /\ Len(handled) \in Nat
      /\ sender \in [Messages -> Clients \cup {None}]
      /\ BatchIsSent /\ HandledAreSent /\ \A c \in Clients : Waits(c)
    BY DEF TypeOK, QueueInv
<1>1. CASE UNCHANGED <<batch, it, table, fate, sender, handled>>
  BY <1>1 DEF SingleInv, Attributed
<1>2. CASE /\ batch = <<>> /\ UNCHANGED <<batch, fate, sender, handled>>
  BY <1>2 DEF SingleInv, Attributed
<1>3. CASE NobodyJoins \/ PollEnds \/ WouldBlock \/ Lose \/ SayGoodbye \/ Stop
  <2>1. batch = <<>>
    BY <1>0, <1>3
    DEF NobodyJoins, PollEnds, WouldBlock, Lose, SayGoodbye, Stop, At, Polling, BatchIsSent
  <2>. QED  BY <1>2, <1>3, <2>1
       DEF NobodyJoins, PollEnds, WouldBlock, Lose, SayGoodbye, Stop, BeginPoll
<1>4. ASSUME NEW c \in Clients, Accept(c) \/ Refuse(c) PROVE SingleInv'
  <2>1. batch = <<>>
    BY <1>0, <1>4 DEF Accept, Refuse, At, BatchIsSent
  <2>. QED  BY <1>2, <1>4, <2>1 DEF Accept, Refuse, BeginPoll
<1>5. CASE Receive
  <2>1. PICK n \in 1..Len(up[Polled]) : batch' = SubSeq(up[Polled], 1, n)
    BY <1>5 DEF Receive
  <2>2. /\ batch = <<>> /\ it \in 1..Len(table) /\ Polled \in Clients
        /\ UNCHANGED <<it, table, fate, sender, handled>>
    BY <1>0, <1>5 DEF Receive, Polling, Polled
  <2>3. up[Polled] \in Seq(Messages) /\ Len(up[Polled]) \in Nat
    BY <2>2 DEF TypeOK
  <2>4. batch'[1] = up[Polled][1] /\ 1 \in 1..Len(up[Polled])
    <3>. HIDE DEF Polled
    <3>. QED  BY <2>1, <2>3, SubSeqProperties
  <2>5. sender[up[Polled][1]] = Polled
    <3>1. Queue(Polled) = up[Polled]
      BY <2>2 DEF Queue
    <3>. QED  BY <1>0, <2>2, <2>4, <3>1 DEF Waits
  <2>6. Len(batch') = 1
    BY <1>5, <2>1, <2>2, <2>3
  <2>. QED  BY <2>2, <2>4, <2>5, <2>6 DEF SingleInv, Attributed, Polled
<1>6. CASE Deliver
  <2>1. /\ batch # <<>> /\ batch' = Tail(batch) /\ UNCHANGED <<fate, sender>>
        /\ handled' = Append(handled, [msg |-> Head(batch), client |-> table[it]])
    BY <1>6 DEF Deliver, Polled
  <2>2. batch' = <<>> /\ Head(batch) = batch[1] /\ batch[1] \in Messages
        /\ sender[batch[1]] = table[it] /\ table[it] \in Clients
    BY <1>0, <2>1 DEF SingleInv
  <2>3. /\ Len(handled') = Len(handled) + 1
        /\ \A i \in 1..Len(handled) : handled'[i] = handled[i]
        /\ handled'[Len(handled) + 1] = [msg |-> batch[1], client |-> table[it]]
    <3>1. [msg |-> batch[1], client |-> table[it]] \in [msg : Messages, client : Clients]
      BY <2>2
    <3>. QED  BY <1>0, <2>1, <2>2, <3>1, AppendProperties
  <2>4. Attributed'
    <3>1. \A i \in 1..Len(handled') : i \in 1..Len(handled) \/ i = Len(handled) + 1
      BY <1>0, <2>3
    <3>. QED  BY <2>1, <2>2, <2>3, <3>1 DEF SingleInv, Attributed
  <2>. QED  BY <2>1, <2>2, <2>4 DEF SingleInv
<1>7. CASE DeliverPastEnd
  BY <1>0, <1>7 DEF DeliverPastEnd, SingleInv
<1>8. ASSUME NEW c \in Clients,
             Connect(c) \/ Quit(c) \/ Register(c) \/ PollRead(c) \/ Handle(c)
      PROVE  SingleInv'
  BY <1>1, <1>8 DEF Connect, Quit, Register, PollRead, Handle
<1>9. ASSUME NEW c \in Clients, NEW m \in Messages, Write(c, m) PROVE SingleInv'
  <2>1. /\ sender[m] = None /\ sender' = [sender EXCEPT ![m] = c]
        /\ UNCHANGED <<batch, it, table, fate, handled>>
    BY <1>9 DEF Write
  <2>2. ASSUME NEW n \in Messages, sender[n] \in Clients PROVE sender'[n] = sender[n]
    BY <1>0, <2>1, <2>2, ConstantsAssumption
  <2>3. batch # <<>> => batch[1] \in Messages /\ sender[batch[1]] \in Clients
    BY <1>0 DEF BatchIsSent
  <2>4. \A i \in 1..Len(handled) :
            handled[i].msg \in Messages /\ sender[handled[i].msg] \in Clients
    <3>1. \A i \in 1..Len(handled) : handled[i] \in [msg : Messages, client : Clients]
      BY <1>0, ElementOfSeq
    <3>2. \A i \in 1..Len(handled) : handled[i].msg \in Messages
      BY <3>1
    <3>. QED  BY <1>0, <3>2 DEF HandledAreSent, Handled
  <2>. QED  BY <2>1, <2>2, <2>3, <2>4 DEF SingleInv, Attributed
<1>10. CASE UNCHANGED vars
  BY <1>1, <1>10
<1>. QED  BY <1>3, <1>4, <1>5, <1>6, <1>7, <1>8, <1>9, <1>10 DEF Next, ServerStep

\* Messages are passed with the wrong client, and the end iterator is dereferenced, only
\* if a read returns more than one of them (server.cpp:265-277, where `++it` stands in
\* the loop over what was read).
THEOREM SingleReadsAttribute ==
    Spec /\ SingleReads => [](Attributed /\ fate = "alive")
<1>1. Init => SingleInv
  BY DEF Init, SingleInv, Attributed
<1>2. TypeOK /\ QueueInv /\ SingleInv /\ [Next]_vars /\ [Receive => Len(batch') = 1]_vars
      => SingleInv'
  BY SingleStep
<1>3. SingleInv => Attributed /\ fate = "alive"
  BY DEF SingleInv
<1>. QED  BY <1>1, <1>2, <1>3, ExchangeInv, PTL DEF Spec, SingleReads
=============================================================================
