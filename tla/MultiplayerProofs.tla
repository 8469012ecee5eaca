------------------------- MODULE MultiplayerProofs -------------------------
(***************************************************************************)
(* Proofs about Multiplayer, for any clients, messages and capacities.     *)
(***************************************************************************)
EXTENDS Multiplayer, SequenceTheorems, WellFoundedInduction, TLAPS

\* A part of a sequence.
LEMMA PartIs ==
    ASSUME NEW S, NEW s \in Seq(S), NEW m \in 1..(Len(s) + 1), NEW n \in 0..Len(s)
    PROVE  /\ SubSeq(s, m, n) \in Seq(S)
           /\ Len(SubSeq(s, m, n)) = IF m <= n THEN n - m + 1 ELSE 0
           /\ \A j \in 1..(n - m + 1) : SubSeq(s, m, n)[j] = s[m + j - 1]
<1>1. \A j \in m..n : s[j] \in S
  OBVIOUS
<1>2. m \in Int /\ n \in Int
  OBVIOUS
<1>. QED  BY <1>1, <1>2, SubSeqProperties

\* What std::map's insertion does to the order of the clients.
LEMMA InsertAtIs ==
    ASSUME NEW S, NEW s \in Seq(S), NEW e \in S, NEW i \in 1..(Len(s) + 1)
    PROVE  /\ InsertAt(s, i, e) \in Seq(S)
           /\ Len(InsertAt(s, i, e)) = Len(s) + 1
           /\ \A j \in 1..(Len(s) + 1) :
                 InsertAt(s, i, e)[j] = IF j < i THEN s[j]
                                        ELSE IF j = i THEN e ELSE s[j - 1]
<1> DEFINE a == SubSeq(s, 1, i - 1)
           b == a \o <<e>>
           c == SubSeq(s, i, Len(s))
<1>0. Len(s) \in Nat
  OBVIOUS
<1>1. /\ a \in Seq(S) /\ Len(a) = i - 1
      /\ \A j \in 1..(i - 1) : a[j] = s[j]
  <2>1. 1 \in 1..(Len(s) + 1) /\ i - 1 \in 0..Len(s)
    BY <1>0
  <2>. QED  BY <1>0, <2>1, PartIs
<1>2. /\ b \in Seq(S) /\ Len(b) = i
      /\ \A j \in 1..(i - 1) : b[j] = s[j]
      /\ b[i] = e
  <2> HIDE DEF a
  <2>1. <<e>> \in Seq(S) /\ Len(<<e>>) = 1 /\ <<e>>[1] = e
    OBVIOUS
  <2>2. /\ b \in Seq(S) /\ Len(b) = Len(a) + 1
        /\ \A j \in 1..(Len(a) + 1) : b[j] = IF j <= Len(a) THEN a[j] ELSE <<e>>[j - Len(a)]
    BY <1>1, <2>1, ConcatProperties
  <2> HIDE DEF b
  <2>3. Len(b) = i
    BY <1>1, <2>2
  <2>4. ASSUME NEW j \in 1..(i - 1) PROVE b[j] = s[j]
    BY <1>1, <2>2
  <2>5. b[i] = e
    BY <1>1, <2>1, <2>2
  <2>. QED  BY <2>2, <2>3, <2>4, <2>5
<1>3. /\ c \in Seq(S) /\ Len(c) = Len(s) - i + 1
      /\ \A j \in 1..(Len(s) - i + 1) : c[j] = s[i + j - 1]
  <2>1. Len(s) \in 0..Len(s)
    BY <1>0
  <2>. QED  BY <1>0, <2>1, PartIs
<1>4. /\ b \o c \in Seq(S) /\ Len(b \o c) = Len(b) + Len(c)
      /\ \A j \in 1..(Len(b) + Len(c)) :
            (b \o c)[j] = IF j <= Len(b) THEN b[j] ELSE c[j - Len(b)]
  <2> HIDE DEF b, c
  <2>. QED  BY <1>2, <1>3, ConcatProperties
<1>5. InsertAt(s, i, e) = b \o c
  BY DEF InsertAt
<1>. QED
  <2> HIDE DEF b, c
  <2>. QED  BY <1>0, <1>2, <1>3, <1>4, <1>5

\* What std::map::erase does to it.
LEMMA RemoveAtIs ==
    ASSUME NEW S, NEW s \in Seq(S), NEW i \in 1..Len(s)
    PROVE  /\ RemoveAt(s, i) \in Seq(S)
           /\ Len(RemoveAt(s, i)) = Len(s) - 1
           /\ \A j \in 1..(Len(s) - 1) :
                 RemoveAt(s, i)[j] = IF j < i THEN s[j] ELSE s[j + 1]
<1> DEFINE a == SubSeq(s, 1, i - 1)
           c == SubSeq(s, i + 1, Len(s))
<1>0. Len(s) \in Nat
  OBVIOUS
<1>1. /\ a \in Seq(S) /\ Len(a) = i - 1
      /\ \A j \in 1..(i - 1) : a[j] = s[j]
  <2>1. 1 \in 1..(Len(s) + 1) /\ i - 1 \in 0..Len(s)
    BY <1>0
  <2>. QED  BY <1>0, <2>1, PartIs
<1>2. /\ c \in Seq(S) /\ Len(c) = Len(s) - i
      /\ \A j \in 1..(Len(s) - i) : c[j] = s[i + j]
  <2>1. Len(s) \in 0..Len(s) /\ i + 1 \in 1..(Len(s) + 1)
    BY <1>0
  <2>. QED  BY <1>0, <2>1, PartIs
<1>3. /\ a \o c \in Seq(S) /\ Len(a \o c) = Len(a) + Len(c)
      /\ \A j \in 1..(Len(a) + Len(c)) :
            (a \o c)[j] = IF j <= Len(a) THEN a[j] ELSE c[j - Len(a)]
  <2> HIDE DEF a, c
  <2>. QED  BY <1>1, <1>2, ConcatProperties
<1>4. RemoveAt(s, i) = a \o c
  BY DEF RemoveAt
<1>5. ASSUME NEW j \in 1..(Len(s) - 1)
      PROVE  (a \o c)[j] = IF j < i THEN s[j] ELSE s[j + 1]
  <2> HIDE DEF a, c
  <2>1. CASE j < i
    BY <1>0, <1>1, <1>2, <1>3, <2>1
  <2>2. CASE j >= i
    <3>1. (a \o c)[j] = c[j - (i - 1)] /\ j - (i - 1) \in 1..(Len(s) - i)
      BY <1>0, <1>1, <1>2, <1>3, <2>2
    <3>2. c[j - (i - 1)] = s[i + (j - (i - 1))]
      BY <1>2, <3>1
    <3>3. i + (j - (i - 1)) = j + 1
      OBVIOUS
    <3>. QED  BY <2>2, <3>1, <3>2, <3>3
  <2>3. j < i \/ j >= i
    BY <1>0
  <2>. QED  BY <2>1, <2>2, <2>3
<1>6. Len(a \o c) = Len(s) - 1
  <2> HIDE DEF a, c
  <2>. QED  BY <1>0, <1>1, <1>2, <1>3
<1>. QED
  <2> HIDE DEF a, c
  <2>. QED  BY <1>3, <1>4, <1>5, <1>6

-----------------------------------------------------------------------------
\* What is sent is a message of the protocol.
LEMMA SentIs ==
    ASSUME TypeOK, NEW c \in Clients, NEW u \in Unit
    PROVE  Sent(c, u) \in [Clients -> Seq(Unit)]
  BY DEF Sent, TypeOK

\* The messages the server sends of its own accord name no client's message.
LEMMA UnitsAre ==
    /\ \A k \in {"set_id", "server_full", "disconnect"} : Command(k) \in Unit
    /\ \A m \in Messages : Reply(m) \in Unit
  BY DEF Command, Reply, Unit

\* Smallest names an element of a set of indices that is not empty.
LEMMA SmallestIs ==
    ASSUME NEW T \in SUBSET Nat, T # {}
    PROVE  \E x \in T : \A y \in T : x <= y
<1>1. PICK x \in T : \A y \in T : <<y, x>> \notin OpToRel(<, Nat)
  BY NatLessThanWellFounded, WFMin
<1>2. \A y \in T : ~ (y < x)
  BY <1>1 DEF OpToRel
<1>. QED  BY <1>2

\* Handling the first message of s takes at least that message away, and
\* leaves a suffix.
LEMMA AfterFirstIs ==
    ASSUME NEW s \in Seq(Unit), s # <<>>
    PROVE  /\ AfterFirst(s) \in Seq(Unit)
           /\ \E n \in 1..Len(s) : AfterFirst(s) = SubSeq(s, n + 1, Len(s))
<1> DEFINE ends == {i \in 1..Len(s) : Terminated(s[i])}
           last == IF ends = {} THEN Len(s)
                   ELSE CHOOSE i \in ends : \A j \in ends : i <= j
<1>1. Len(s) \in Nat /\ Len(s) \in 0..Len(s) /\ Len(s) \in 1..Len(s)
  OBVIOUS
<1>2. \A n \in 0..Len(s) : SubSeq(s, n + 1, Len(s)) \in Seq(Unit)
  <2> TAKE n \in 0..Len(s)
  <2>1. n + 1 \in 1..(Len(s) + 1)
    BY <1>1
  <2>. QED  BY <1>1, <2>1, PartIs
<1>3. last \in 1..Len(s)
  <2>1. CASE ends = {}
    BY <1>1, <2>1
  <2>2. CASE ends # {}
    <3>1. \E i \in ends : \A j \in ends : i <= j
      <4>1. ends \in SUBSET Nat
        OBVIOUS
      <4> HIDE DEF ends
      <4>. QED  BY <2>2, <4>1, SmallestIs
    <3>2. (CHOOSE i \in ends : \A j \in ends : i <= j) \in ends
      <4> HIDE DEF ends
      <4>. QED  BY <3>1, Zenon
    <3>3. last \in ends
      <4> HIDE DEF ends
      <4>. QED  BY <2>2, <3>2
    <3>4. ends \subseteq 1..Len(s)
      BY <1>1
    <3>. QED
      <4> HIDE DEF ends, last
      <4>. QED  BY <3>3, <3>4
  <2>. QED  BY <2>1, <2>2
<1>4. AfterFirst(s) = SubSeq(s, last + 1, Len(s))
  BY DEF AfterFirst
<1>5. last \in 0..Len(s)
  BY <1>1, <1>3
<1>. QED
  <2> HIDE DEF last
  <2>. QED  BY <1>2, <1>3, <1>4, <1>5

-----------------------------------------------------------------------------
\* Every step keeps the types.
LEMMA TypeStep == TypeOK /\ [Next]_vars => TypeOK'
<1> SUFFICES ASSUME TypeOK, [Next]_vars PROVE TypeOK'
  OBVIOUS
<1> USE ConstantsAssumption
        DEF server, streams, clients, history, vars, At, BeginPoll, Polling, Polled
<1>1. CASE NobodyJoins
  BY <1>1 DEF NobodyJoins, TypeOK
<1>2. ASSUME NEW c \in Clients, Accept(c) PROVE TypeOK'
  <2>1. PICK i \in 1..(Len(table) + 1) : table' = InsertAt(table, i, c)
    BY <1>2 DEF Accept
  <2>2. table' \in Seq(Clients)
    BY <2>1, InsertAtIs DEF TypeOK
  <2>3. down' \in [Clients -> Seq(Unit)]
    BY <1>2, SentIs, UnitsAre DEF Accept
  <2>. QED  BY <1>2, <2>2, <2>3 DEF Accept, TypeOK
<1>3. ASSUME NEW c \in Clients, Refuse(c) PROVE TypeOK'
  <2>1. down' \in [Clients -> Seq(Unit)]
    BY <1>3, SentIs, UnitsAre DEF Refuse
  <2>. QED  BY <1>3, <2>1 DEF Refuse, TypeOK
<1>4. CASE WouldBlock
  BY <1>4 DEF WouldBlock, TypeOK
<1>5. CASE Lose
  <2>1. table \in Seq(Clients) /\ it \in 1..Len(table)
    BY <1>5 DEF Lose, TypeOK
  <2>2. table' \in Seq(Clients)
    BY <1>5, <2>1, RemoveAtIs DEF Lose
  <2>. QED  BY <1>5, <2>2 DEF Lose, TypeOK
<1>6. CASE Receive
  <2>1. Polled \in Clients
    BY <1>6 DEF Receive, TypeOK
  <2>2. up[Polled] \in Seq(Messages)
    BY <2>1 DEF TypeOK
  <2>3. PICK n \in 1..Len(up[Polled]) :
            /\ batch' = SubSeq(up[Polled], 1, n)
            /\ up' = [up EXCEPT ![Polled] = SubSeq(@, n + 1, Len(@))]
    BY <1>6 DEF Receive
  <2>4. /\ SubSeq(up[Polled], 1, n) \in Seq(Messages)
        /\ SubSeq(up[Polled], n + 1, Len(up[Polled])) \in Seq(Messages)
    <3>1. /\ 1 \in 1..(Len(up[Polled]) + 1) /\ n \in 0..Len(up[Polled])
          /\ n + 1 \in 1..(Len(up[Polled]) + 1)
          /\ Len(up[Polled]) \in 0..Len(up[Polled])
      BY <2>2
    <3>. QED  BY <2>2, <3>1, PartIs
  <2>5. batch' \in Seq(Messages) /\ up' \in [Clients -> Seq(Messages)]
    BY <2>1, <2>3, <2>4 DEF TypeOK
  <2>. QED  BY <1>6, <2>5 DEF Receive, TypeOK
<1>7. CASE Deliver
  <2>1. Polled \in Clients /\ Head(batch) \in Messages /\ Tail(batch) \in Seq(Messages)
    BY <1>7 DEF Deliver, TypeOK
  <2>2. down' \in [Clients -> Seq(Unit)]
    <3>1. Reply(Head(batch)) \in Unit
      BY <2>1, UnitsAre
    <3>2. down' = Sent(Polled, Reply(Head(batch)))
      BY <1>7 DEF Deliver
    <3> HIDE DEF Polled
    <3>. QED  BY <2>1, <3>1, <3>2, SentIs
  <2>3. handled' \in Seq([msg : Messages, client : Clients])
    BY <1>7, <2>1 DEF Deliver, TypeOK
  <2>4. active' \in BOOLEAN
    <3>1. active' = (active /\ Head(batch) \notin Stops)
      BY <1>7 DEF Deliver
    <3>. QED  BY <3>1, Zenon
  <2>5. it' \in Nat \ {0} /\ batch' = Tail(batch)
    BY <1>7 DEF Deliver, TypeOK
  <2>6. UNCHANGED <<max_clients, pc, table, fate, link, up, clients, sender, answered>>
    BY <1>7 DEF Deliver
  <2>. QED  BY <2>1, <2>2, <2>3, <2>4, <2>5, <2>6 DEF TypeOK
<1>8. CASE DeliverPastEnd \/ PollEnds
  BY <1>8 DEF DeliverPastEnd, PollEnds, TypeOK
<1>9. CASE SayGoodbye
  <2>1. Polled \in Clients
    BY <1>9 DEF SayGoodbye, TypeOK
  <2>2. down' \in [Clients -> Seq(Unit)]
    <3> HIDE DEF Polled
    <3>. QED  BY <1>9, <2>1, SentIs, UnitsAre DEF SayGoodbye
  <2>. QED  BY <1>9, <2>2 DEF SayGoodbye, TypeOK
<1>10. CASE Stop
  BY <1>10 DEF Stop, TypeOK
<1>11. ASSUME NEW c \in Clients, Connect(c) \/ Quit(c) PROVE TypeOK'
  <2>1. CASE Connect(c)
    BY <2>1 DEF Connect, TypeOK
  <2>2. CASE Quit(c)
    <3>1. <<>> \in Seq(Unit)
      OBVIOUS
    <3>2. /\ end' = [end EXCEPT ![c] = "closed"]
          /\ down' = [down EXCEPT ![c] = <<>>]
      BY <2>2 DEF Quit, Closed
    <3>3. down' \in [Clients -> Seq(Unit)]
      BY <3>1, <3>2 DEF TypeOK
    <3>4. end' \in [Clients -> {"new", "connected", "closed"}]
      BY <3>2 DEF TypeOK
    <3>. QED  BY <2>2, <3>3, <3>4 DEF Quit, TypeOK
  <2>. QED  BY <1>11, <2>1, <2>2
<1>12. ASSUME NEW c \in Clients, NEW m \in Messages, Write(c, m) PROVE TypeOK'
  BY <1>12 DEF Write, TypeOK
<1>13. ASSUME NEW c \in Clients, Register(c) PROVE TypeOK'
  <2>1. /\ writing \in [Clients -> Messages \cup {None}]
        /\ callbacks \in [Clients -> SUBSET Messages]
    BY DEF TypeOK
  <2>2. writing' \in [Clients -> Messages \cup {None}]
    BY <1>13, <2>1 DEF Register
  <2>3. callbacks[c] \cup ({writing[c]} \cap Awaited) \in SUBSET Messages
    BY <2>1
  <2>4. callbacks' \in [Clients -> SUBSET Messages]
    BY <1>13, <2>1, <2>3 DEF Register
  <2>. QED  BY <1>13, <2>2, <2>4 DEF Register, TypeOK
<1>14. ASSUME NEW c \in Clients, PollRead(c) PROVE TypeOK'
  <2>1. down[c] \in Seq(Unit)
    BY DEF TypeOK
  <2>2. PICK n \in 1..Len(down[c]) :
            /\ inbox' = [inbox EXCEPT ![c] = SubSeq(down[c], 1, n)]
            /\ down' = [down EXCEPT ![c] = SubSeq(@, n + 1, Len(@))]
    BY <1>14 DEF PollRead
  <2>3. /\ SubSeq(down[c], 1, n) \in Seq(Unit)
        /\ SubSeq(down[c], n + 1, Len(down[c])) \in Seq(Unit)
    <3>1. /\ 1 \in 1..(Len(down[c]) + 1) /\ n \in 0..Len(down[c])
          /\ n + 1 \in 1..(Len(down[c]) + 1)
          /\ Len(down[c]) \in 0..Len(down[c])
      BY <2>1
    <3>. QED  BY <2>1, <3>1, PartIs
  <2>4. inbox' \in [Clients -> Seq(Unit)] /\ down' \in [Clients -> Seq(Unit)]
    BY <2>2, <2>3 DEF TypeOK
  <2>. QED  BY <1>14, <2>4 DEF PollRead, TypeOK
<1>15. ASSUME NEW c \in Clients, Handle(c) PROVE TypeOK'
  <2> DEFINE u == Head(inbox[c])
  <2>1. inbox[c] \in Seq(Unit) /\ inbox[c] # <<>> /\ u \in Unit
    BY <1>15 DEF Handle, TypeOK
  <2>2. inbox' \in [Clients -> Seq(Unit)]
    BY <1>15, <2>1, AfterFirstIs DEF Handle, TypeOK
  <2>3. /\ answered' \in Seq(Messages)
        /\ callbacks' \in [Clients -> SUBSET Messages]
    <3>1. Fire(c, u)
      BY <1>15 DEF Handle
    <3> HIDE DEF u
    <3>2. CASE u.of \in callbacks[c]
      <4>1. u.of \in Messages
        BY <3>2 DEF TypeOK
      <4>2. /\ answered' = Append(answered, u.of)
            /\ callbacks' = [callbacks EXCEPT ![c] = callbacks[c] \ {u.of}]
        BY <3>1, <3>2, Zenon DEF Fire
      <4>3. answered' \in Seq(Messages)
        BY <4>1, <4>2 DEF TypeOK
      <4>4. callbacks' \in [Clients -> SUBSET Messages]
        <5>1. callbacks[c] \ {u.of} \in SUBSET Messages
          BY DEF TypeOK
        <5>. QED  BY <4>2, <5>1 DEF TypeOK
      <4>. QED  BY <4>3, <4>4
    <3>3. CASE u.of \notin callbacks[c]
      BY <3>1, <3>3 DEF Fire, TypeOK
    <3>. QED  BY <3>2, <3>3
  <2>4. hasId' \subseteq Clients
    BY <1>15 DEF Handle, TypeOK
  <2>5. /\ end' \in [Clients -> {"new", "connected", "closed"}]
        /\ down' \in [Clients -> Seq(Unit)]
    <3>1. Closed(c) \/ UNCHANGED <<end, down>>
      BY <1>15 DEF Handle, ThrowsBeyondBuffer
    <3>2. /\ end \in [Clients -> {"new", "connected", "closed"}]
          /\ down \in [Clients -> Seq(Unit)]
          /\ <<>> \in Seq(Unit)
      BY DEF TypeOK
    <3>3. CASE Closed(c)
      BY <3>2, <3>3 DEF Closed
    <3>. QED  BY <3>1, <3>2, <3>3
  <2>. QED  BY <1>15, <2>2, <2>3, <2>4, <2>5 DEF Handle, TypeOK
<1>16. CASE UNCHANGED vars
  BY <1>16 DEF TypeOK
<1>. QED  BY <1>1, <1>2, <1>3, <1>4, <1>5, <1>6, <1>7, <1>8, <1>9, <1>10, <1>11,
            <1>12, <1>13, <1>14, <1>15, <1>16 DEF Next, ServerStep

\* Every variable keeps its type (TypeOK).
THEOREM TypeCorrect == Spec => []TypeOK
<1>1. Init => TypeOK
  BY DEF Init, TypeOK
<1>. QED  BY <1>1, TypeStep, PTL DEF Spec

-----------------------------------------------------------------------------
\* The table by what it holds, and a client that has not connected yet has no
\* connection at the server, so that Connect cannot disturb one.
InTable(c) == \E i \in 1..Len(table) : table[i] = c
HoldsOnce == \A i, j \in 1..Len(table) : table[i] = table[j] => i = j
HoldsAccepted == \A c \in Clients : link[c] = "accepted" <=> InTable(c)
NewHasNoLink == \A c \in Clients : end[c] = "new" => link[c] = "none"
Fits == Len(table) <= max_clients
TableInv == NewHasNoLink /\ (pc # "stopped" => Fits /\ HoldsOnce /\ HoldsAccepted)

\* Every step keeps what TableInv says of the table.
LEMMA TableStep == TypeOK /\ TableInv /\ [Next]_vars => TableInv'
<1> SUFFICES ASSUME TypeOK, TableInv, [Next]_vars PROVE TableInv'
  OBVIOUS
<1> USE DEF server, streams, clients, history, vars, At, BeginPoll, Polling, Polled
<1>0. /\ table \in Seq(Clients) /\ Len(table) \in Nat
      /\ \A i \in 1..Len(table) : table[i] \in Clients
      /\ max_clients \in Nat
      /\ link \in [Clients -> {"none", "queued", "accepted", "closed"}]
      /\ end \in [Clients -> {"new", "connected", "closed"}]
  BY ConstantsAssumption DEF TypeOK
\* Steps that leave the table and the connections alone.
<1>1. ASSUME UNCHANGED <<max_clients, table, link, end>>,
             pc' # "stopped" => pc # "stopped"
      PROVE  TableInv'
  BY <1>1 DEF TableInv, NewHasNoLink, Fits, HoldsOnce, HoldsAccepted, InTable
<1>2. CASE \/ NobodyJoins \/ WouldBlock \/ Receive \/ Deliver \/ DeliverPastEnd
           \/ PollEnds \/ SayGoodbye
  BY <1>1, <1>2 DEF NobodyJoins, WouldBlock, Receive, Deliver, DeliverPastEnd,
                    PollEnds, SayGoodbye
<1>3. ASSUME NEW c \in Clients, Accept(c) PROVE TableInv'
  <2>1. PICK i \in 1..(Len(table) + 1) : table' = InsertAt(table, i, c)
    BY <1>3 DEF Accept
  <2>2. /\ Len(table') = Len(table) + 1
        /\ \A j \in 1..(Len(table) + 1) :
              table'[j] = IF j < i THEN table[j]
                          ELSE IF j = i THEN c ELSE table[j - 1]
    <3>1. /\ Len(InsertAt(table, i, c)) = Len(table) + 1
          /\ \A j \in 1..(Len(table) + 1) :
                InsertAt(table, i, c)[j] = IF j < i THEN table[j]
                                           ELSE IF j = i THEN c ELSE table[j - 1]
      <4>1. table \in Seq(Clients)
        BY <1>0
      <4>. QED  BY <4>1, InsertAtIs
    <3>. QED  BY <2>1, <3>1
  <2>3. /\ link[c] = "queued" /\ link' = [link EXCEPT ![c] = "accepted"]
        /\ Len(table) < max_clients
        /\ pc # "stopped"
        /\ UNCHANGED <<max_clients, end>>
    BY <1>3 DEF Accept
  <2>4. Fits /\ HoldsOnce /\ HoldsAccepted /\ NewHasNoLink
    BY <2>3 DEF TableInv
  <2>5. \A j \in 1..Len(table) : table[j] # c
    BY <2>3, <2>4 DEF HoldsAccepted, InTable
  <2>6. Fits'
    BY <1>0, <2>2, <2>3 DEF Fits
  <2>7. HoldsOnce'
    <3> SUFFICES ASSUME NEW j \in 1..(Len(table) + 1), NEW k \in 1..(Len(table) + 1),
                        table'[j] = table'[k]
                 PROVE  j = k
      BY <2>2 DEF HoldsOnce
    <3> DEFINE old(n) == IF n < i THEN n ELSE n - 1
    <3>1. \A n \in 1..(Len(table) + 1) : n # i =>
              old(n) \in 1..Len(table) /\ table'[n] = table[old(n)]
      BY <1>0, <2>2
    <3>2. table'[i] = c
      BY <2>2
    <3>3. CASE j = i \/ k = i
      BY <2>5, <3>1, <3>2, <3>3
    <3>4. CASE j # i /\ k # i
      <4>1. old(j) = old(k)
        <5> HIDE DEF old
        <5>. QED  BY <2>4, <3>1, <3>4 DEF HoldsOnce
      <4>. QED  BY <3>4, <4>1
    <3>. QED  BY <3>3, <3>4
  <2>8. HoldsAccepted'
    <3> SUFFICES ASSUME NEW d \in Clients PROVE (link[d] = "accepted" <=> InTable(d))'
      BY DEF HoldsAccepted
    <3>1. InTable(d)' <=> \E j \in 1..(Len(table) + 1) : table'[j] = d
      BY <2>2 DEF InTable
    <3>2. CASE d = c
      <4>1. table'[i] = c
        BY <2>2
      <4>. QED  BY <1>0, <2>3, <3>1, <3>2, <4>1
    <3>3. CASE d # c
      <4>1. ASSUME NEW j \in 1..Len(table), table[j] = d
            PROVE  \E k \in 1..(Len(table) + 1) : table'[k] = d
        <5>1. CASE j < i
          BY <1>0, <2>2, <4>1, <5>1
        <5>2. CASE j >= i
          <6>1. /\ j + 1 \in 1..(Len(table) + 1)
                /\ ~ (j + 1 < i) /\ j + 1 # i /\ (j + 1) - 1 = j
            BY <1>0, <5>2
          <6>2. table'[j + 1] = table[j]
            BY <2>2, <6>1
          <6>. QED  BY <4>1, <6>1, <6>2
        <5>. QED  BY <1>0, <5>1, <5>2
      <4>2. ASSUME NEW k \in 1..(Len(table) + 1), table'[k] = d
            PROVE  \E j \in 1..Len(table) : table[j] = d
        <5>1. k # i
          BY <2>2, <3>3, <4>2
        <5>. QED  BY <1>0, <2>2, <4>2, <5>1
      <4>3. link'[d] = link[d]
        BY <1>0, <2>3, <3>3
      <4>. QED  BY <2>4, <3>1, <4>1, <4>2, <4>3 DEF HoldsAccepted, InTable
    <3>. QED  BY <3>2, <3>3
  <2>9. NewHasNoLink'
    BY <1>0, <2>3, <2>4 DEF NewHasNoLink
  <2>. QED  BY <2>6, <2>7, <2>8, <2>9 DEF TableInv
<1>4. ASSUME NEW c \in Clients, Refuse(c) PROVE TableInv'
  <2>1. /\ link[c] = "queued" /\ link' = [link EXCEPT ![c] = "closed"]
        /\ pc # "stopped"
        /\ UNCHANGED <<max_clients, end, table>>
    BY <1>4 DEF Refuse
  <2>. QED  BY <1>0, <2>1 DEF TableInv, NewHasNoLink, Fits, HoldsOnce, HoldsAccepted, InTable
<1>5. CASE Lose
  <2>1. /\ it \in 1..Len(table) /\ end[table[it]] = "closed"
        /\ table' = RemoveAt(table, it)
        /\ link' = [link EXCEPT ![table[it]] = "closed"]
        /\ pc # "stopped"
        /\ UNCHANGED <<max_clients, end>>
    BY <1>5 DEF Lose, TypeOK
  <2>2. /\ Len(table') = Len(table) - 1
        /\ \A j \in 1..(Len(table) - 1) :
              table'[j] = IF j < it THEN table[j] ELSE table[j + 1]
    BY <1>0, <2>1, RemoveAtIs
  <2>3. Fits /\ HoldsOnce /\ HoldsAccepted /\ NewHasNoLink
    BY <2>1 DEF TableInv
  <2>4. Fits'
    BY <1>0, <2>1, <2>2, <2>3 DEF Fits
  <2> DEFINE old(n) == IF n < it THEN n ELSE n + 1
  <2>5. \A n \in 1..(Len(table) - 1) :
            old(n) \in 1..Len(table) /\ old(n) # it /\ table'[n] = table[old(n)]
    BY <1>0, <2>1, <2>2
  <2>6. HoldsOnce'
    <3> SUFFICES ASSUME NEW j \in 1..(Len(table) - 1), NEW k \in 1..(Len(table) - 1),
                        table'[j] = table'[k]
                 PROVE  j = k
      BY <2>2 DEF HoldsOnce
    <3>1. old(j) = old(k)
      <4> HIDE DEF old
      <4>1. /\ old(j) \in 1..Len(table) /\ old(k) \in 1..Len(table)
            /\ table[old(j)] = table[old(k)]
        BY <2>5
      <4>. QED  BY <2>3, <4>1 DEF HoldsOnce
    <3>. QED  BY <1>0, <2>1, <3>1
  <2>7. HoldsAccepted'
    <3> SUFFICES ASSUME NEW d \in Clients PROVE (link[d] = "accepted" <=> InTable(d))'
      BY DEF HoldsAccepted
    <3>1. InTable(d)' <=> \E j \in 1..(Len(table) - 1) : table'[j] = d
      BY <2>2 DEF InTable
    <3>2. CASE d = table[it]
      <4>1. ~ InTable(d)'
        <5> HIDE DEF old
        <5>. QED  BY <2>1, <2>3, <2>5, <3>1, <3>2 DEF HoldsOnce
      <4>. QED  BY <1>0, <2>1, <3>2, <4>1
    <3>3. CASE d # table[it]
      <4>1. ASSUME NEW j \in 1..Len(table), table[j] = d
            PROVE  \E k \in 1..(Len(table) - 1) : table'[k] = d
        <5>1. CASE j < it
          BY <1>0, <2>1, <2>2, <4>1, <5>1
        <5>2. CASE j >= it
          <6>1. j > it
            BY <1>0, <2>1, <3>3, <4>1, <5>2
          <6>2. /\ j - 1 \in 1..(Len(table) - 1)
                /\ ~ (j - 1 < it) /\ (j - 1) + 1 = j
            BY <1>0, <2>1, <6>1
          <6>3. table'[j - 1] = table[j]
            BY <2>2, <6>2
          <6>. QED  BY <4>1, <6>2, <6>3
        <5>. QED  BY <1>0, <2>1, <5>1, <5>2
      <4>2. ASSUME NEW k \in 1..(Len(table) - 1), table'[k] = d
            PROVE  \E j \in 1..Len(table) : table[j] = d
        <5> HIDE DEF old
        <5>. QED  BY <2>5, <4>2
      <4>3. link'[d] = link[d]
        BY <1>0, <2>1, <3>3
      <4>. QED  BY <2>3, <3>1, <4>1, <4>2, <4>3 DEF HoldsAccepted, InTable
    <3>. QED  BY <3>2, <3>3
  <2>8. NewHasNoLink'
    BY <1>0, <2>1, <2>3 DEF NewHasNoLink
  <2>. QED  BY <2>4, <2>6, <2>7, <2>8 DEF TableInv
<1>6. CASE Stop
  BY <1>0, <1>6 DEF Stop, TableInv, NewHasNoLink
<1>7. ASSUME NEW c \in Clients, Connect(c) PROVE TableInv'
  <2>1. /\ end[c] = "new" /\ end' = [end EXCEPT ![c] = "connected"]
        /\ link' = [link EXCEPT ![c] = "queued"]
        /\ UNCHANGED <<max_clients, table, pc>>
    BY <1>7 DEF Connect
  <2>2. link[c] # "accepted"
    BY <2>1 DEF TableInv, NewHasNoLink
  <2>. QED  BY <1>0, <2>1, <2>2
            DEF TableInv, NewHasNoLink, Fits, HoldsOnce, HoldsAccepted, InTable
\* Steps that close a client's own end.
<1>8. ASSUME NEW c \in Clients, Closed(c), UNCHANGED <<max_clients, table, pc, link>>
      PROVE  TableInv'
  BY <1>0, <1>8 DEF Closed, TableInv, NewHasNoLink, Fits, HoldsOnce, HoldsAccepted, InTable
<1>9. ASSUME NEW c \in Clients, Quit(c) PROVE TableInv'
  BY <1>8, <1>9 DEF Quit
<1>10. ASSUME NEW c \in Clients, Handle(c) PROVE TableInv'
  <2>1. /\ Closed(c) \/ UNCHANGED <<end, down>>
        /\ UNCHANGED <<max_clients, table, pc, link>>
    BY <1>10 DEF Handle, ThrowsBeyondBuffer
  <2>. QED  BY <1>1, <1>8, <2>1
<1>11. ASSUME NEW c \in Clients, Register(c) \/ PollRead(c) PROVE TableInv'
  BY <1>1, <1>11 DEF Register, PollRead
<1>12. ASSUME NEW c \in Clients, NEW m \in Messages, Write(c, m) PROVE TableInv'
  BY <1>1, <1>12 DEF Write
<1>13. CASE UNCHANGED vars
  BY <1>1, <1>13
<1>. QED  BY <1>2, <1>3, <1>4, <1>5, <1>6, <1>7, <1>9, <1>10, <1>11, <1>12, <1>13
          DEF Next, ServerStep

\* The table holds every accepted client once, no other, and never more than
\* max_clients (TableHoldsAccepted).
THEOREM TableCorrect == Spec => []TableHoldsAccepted
<1>1. Init => TableInv
  BY ConstantsAssumption
     DEF Init, TableInv, NewHasNoLink, Fits, HoldsOnce, HoldsAccepted, InTable
<1>2. TableInv => TableHoldsAccepted
  BY DEF TableInv, TableHoldsAccepted, Fits, HoldsOnce, HoldsAccepted, InTable
<1>. QED  BY <1>1, <1>2, TypeCorrect, TableStep, PTL DEF Spec

-----------------------------------------------------------------------------
\* What a client still has to read of a connection, by its connection's state.
Unread(c) == inbox[c] \o down[c]
IdGoesFirst(c) ==
    /\ link[c] \in {"none", "queued"} => Unread(c) = <<>> /\ c \notin hasId
    /\ link[c] = "accepted" /\ end[c] = "connected" =>
           Unread(c) # <<>> \/ c \in hasId
    /\ Unread(c) # <<>> =>
           \/ /\ Unread(c)[1].kind = "server_full" /\ Len(Unread(c)) = 1
              /\ link[c] = "closed"
           \/ (Unread(c)[1].kind = "set_id") # (c \in hasId)
    /\ \A i \in 2..Len(Unread(c)) : Unread(c)[i].kind # "set_id"

\* What is unread is what has been read and not handled, then what is on the way.
LEMMA UnreadIs ==
    ASSUME TypeOK, NEW c \in Clients
    PROVE  /\ Unread(c) \in Seq(Unit)
           /\ Len(Unread(c)) = Len(inbox[c]) + Len(down[c])
           /\ \A i \in 1..(Len(inbox[c]) + Len(down[c])) :
                 Unread(c)[i] = IF i <= Len(inbox[c]) THEN inbox[c][i]
                                ELSE down[c][i - Len(inbox[c])]
<1>1. inbox[c] \in Seq(Unit) /\ down[c] \in Seq(Unit)
  BY DEF TypeOK
<1>. QED  BY <1>1, ConcatProperties DEF Unread

\* What is sent comes last.
LEMMA UnreadGrows ==
    ASSUME TypeOK, NEW c \in Clients, NEW u \in Unit,
           down' = Sent(c, u), UNCHANGED inbox
    PROVE  /\ end[c] = "closed" => Unread(c)' = Unread(c)
           /\ end[c] # "closed" => Unread(c)' = Append(Unread(c), u)
           /\ \A d \in Clients : d # c => Unread(d)' = Unread(d)
<1>1. inbox[c] \in Seq(Unit) /\ down[c] \in Seq(Unit) /\ <<u>> \in Seq(Unit)
  BY DEF TypeOK
<1>2. ASSUME end[c] # "closed" PROVE Unread(c)' = Append(Unread(c), u)
  <2>1. down'[c] = Append(down[c], u)
    BY <1>2 DEF Sent, TypeOK
  <2>2. Append(down[c], u) = down[c] \o <<u>>
    BY <1>1, AppendIsConcat
  <2>3. inbox[c] \o (down[c] \o <<u>>) = (inbox[c] \o down[c]) \o <<u>>
    <3>1. \A p, q, r \in Seq(Unit) : (p \o q) \o r = p \o (q \o r)
      BY ConcatAssociative
    <3>. QED  BY <1>1, <3>1, Zenon
  <2>4. inbox[c] \o down[c] \in Seq(Unit)
    BY <1>1, ConcatProperties
  <2>5. Append(inbox[c] \o down[c], u) = (inbox[c] \o down[c]) \o <<u>>
    BY <2>4, AppendIsConcat
  <2>. QED  BY <2>1, <2>2, <2>3, <2>5 DEF Unread
<1>3. ASSUME NEW d \in Clients, d # c PROVE Unread(d)' = Unread(d)
  BY <1>3 DEF Sent, TypeOK, Unread
<1>4. ASSUME end[c] = "closed" PROVE Unread(c)' = Unread(c)
  BY <1>4 DEF Sent, Unread
<1>. QED  BY <1>2, <1>3, <1>4

\* What remains of a connection in order keeps the order, whether the client
\* has read on or has closed it.
LEMMA SuffixKeeps ==
    ASSUME TypeOK, TypeOK', NEW c \in Clients, IdGoesFirst(c), NEW n \in Nat,
           Len(Unread(c)') + n <= Len(Unread(c)),
           \A j \in 1..Len(Unread(c)') : Unread(c)'[j] = Unread(c)[j + n],
           UNCHANGED link,
           end'[c] = end[c] \/ end'[c] = "closed",
           IF n = 0 THEN Unread(c)' = Unread(c) \/ end'[c] = "closed" ELSE TRUE,
           (c \in hasId') <=> (c \in hasId \/ (n # 0 /\ Unread(c)[1].kind = "set_id"))
    PROVE  IdGoesFirst(c)'
<1> DEFINE u == Unread(c)
           v == Unread(c)'
<1>1. /\ u \in Seq(Unit) /\ v \in Seq(Unit) /\ Len(u) \in Nat /\ Len(v) \in Nat
      /\ (u = <<>>) <=> Len(u) = 0
      /\ (v = <<>>) <=> Len(v) = 0
  <2>1. u \in Seq(Unit)
    BY UnreadIs
  <2>2. v \in Seq(Unit)
    <3>1. inbox'[c] \in Seq(Unit) /\ down'[c] \in Seq(Unit)
      BY DEF TypeOK
    <3>. QED  BY <3>1, ConcatProperties DEF Unread
  <2> HIDE DEF u, v
  <2>. QED  BY <2>1, <2>2, EmptySeq
<1>2. /\ link[c] \in {"none", "queued"} => u = <<>> /\ c \notin hasId
      /\ link[c] = "accepted" /\ end[c] = "connected" => u # <<>> \/ c \in hasId
      /\ u # <<>> => \/ u[1].kind = "server_full" /\ Len(u) = 1 /\ link[c] = "closed"
                     \/ (u[1].kind = "set_id") # (c \in hasId)
      /\ \A i \in 2..Len(u) : u[i].kind # "set_id"
  BY DEF IdGoesFirst
<1>3. /\ Len(v) + n <= Len(u)
      /\ \A j \in 1..Len(v) : v[j] = u[j + n]
      /\ n = 0 => v = u \/ end'[c] = "closed"
      /\ (c \in hasId') <=> (c \in hasId \/ (n # 0 /\ u[1].kind = "set_id"))
  OBVIOUS
<1> SUFFICES /\ link[c] \in {"none", "queued"} => v = <<>> /\ c \notin hasId'
             /\ link[c] = "accepted" /\ end'[c] = "connected" => v # <<>> \/ c \in hasId'
             /\ v # <<>> =>
                   \/ v[1].kind = "server_full" /\ Len(v) = 1 /\ link[c] = "closed"
                   \/ (v[1].kind = "set_id") # (c \in hasId')
             /\ \A i \in 2..Len(v) : v[i].kind # "set_id"
  BY DEF IdGoesFirst
<1> HIDE DEF u, v
<1>4. ASSUME v # <<>> PROVE u # <<>> /\ Len(v) \in Nat \ {0} /\ n + 1 \in 1..Len(u)
  BY <1>1, <1>3, <1>4
<1>5. ASSUME n # 0 PROVE u # <<>>
  BY <1>1, <1>3, <1>5
<1>6. ASSUME link[c] \in {"none", "queued"} PROVE v = <<>> /\ c \notin hasId'
  BY <1>2, <1>3, <1>4, <1>5, <1>6
<1>7. ASSUME link[c] = "accepted", end'[c] = "connected" PROVE v # <<>> \/ c \in hasId'
  <2>1. end[c] = "connected"
    BY <1>7
  <2>2. CASE n = 0
    BY <1>2, <1>3, <1>7, <2>1, <2>2
  <2>3. CASE n # 0
    BY <1>2, <1>3, <1>5, <1>7, <2>3
  <2>. QED  BY <2>2, <2>3
<1>8. ASSUME v # <<>>
      PROVE  \/ v[1].kind = "server_full" /\ Len(v) = 1 /\ link[c] = "closed"
             \/ (v[1].kind = "set_id") # (c \in hasId')
  <2>1. v[1] = u[n + 1]
    <3>1. 1 \in 1..Len(v) /\ 1 + n = n + 1
      BY <1>4, <1>8
    <3>. QED  BY <1>3, <3>1
  <2>2. CASE n = 0
    <3>1. v[1] = u[1]
      BY <2>1, <2>2
    <3>2. Len(u) = 1 => Len(v) = 1
      BY <1>1, <1>3, <1>4, <1>8
    <3>3. (c \in hasId') <=> (c \in hasId)
      BY <1>3, <2>2
    <3>. QED  BY <1>2, <1>4, <1>8, <3>1, <3>2, <3>3
  <2>3. CASE n # 0
    <3>1. n + 1 \in 2..Len(u)
      BY <1>1, <1>4, <1>8, <2>3
    <3>2. v[1].kind # "set_id"
      BY <1>2, <2>1, <3>1
    <3>3. Len(u) # 1
      BY <1>1, <1>3, <1>4, <1>8, <2>3
    <3>4. c \in hasId'
      BY <1>2, <1>3, <1>5, <2>3, <3>3
    <3>. QED  BY <3>2, <3>4
  <2>. QED  BY <2>2, <2>3
<1>9. ASSUME NEW i \in 2..Len(v) PROVE v[i].kind # "set_id"
  <2>1. i \in 1..Len(v) /\ i + n \in 2..Len(u)
    BY <1>1, <1>3
  <2>. QED  BY <1>2, <1>3, <2>1
<1>. QED  BY <1>6, <1>7, <1>8, <1>9

\* v is what a client has left of u once it has handled the first n messages,
\* or the beginning of that.
LeftOf(v, u, n) ==
    /\ Len(v) + n <= Len(u)
    /\ \A k \in 1..Len(v) : v[k] = u[k + n]

\* A client that handles the first n messages of s has the rest of s and what
\* comes after it, unless that has been dropped.
LEMMA SuffixOfConcat ==
    ASSUME NEW s \in Seq(Unit), NEW d \in Seq(Unit), NEW e, e = d \/ e = <<>>,
           NEW n \in 1..Len(s)
    PROVE  LeftOf(SubSeq(s, n + 1, Len(s)) \o e, s \o d, n)
<1> DEFINE r == SubSeq(s, n + 1, Len(s))
           v == r \o e
           u == s \o d
<1>1. Len(s) \in Nat \ {0} /\ Len(d) \in Nat /\ n \in Nat \ {0} /\ n <= Len(s)
  OBVIOUS
<1>2. r \in Seq(Unit) /\ Len(r) = Len(s) - n /\ \A k \in 1..(Len(s) - n) : r[k] = s[n + k]
  <2>1. n + 1 \in 1..(Len(s) + 1) /\ Len(s) \in 0..Len(s)
    BY <1>1
  <2>. QED  BY <1>1, <2>1, PartIs
<1>3. /\ e \in Seq(Unit) /\ Len(e) \in Nat /\ Len(e) <= Len(d)
      /\ \A k \in 1..Len(e) : e[k] = d[k]
  <2>1. CASE e = d
    BY <1>1, <2>1
  <2>2. CASE e = <<>>
    BY <1>1, <2>2, EmptySeq
  <2>. QED  BY <2>1, <2>2
<1>4. /\ Len(v) = Len(r) + Len(e)
      /\ \A k \in 1..(Len(r) + Len(e)) : v[k] = IF k <= Len(r) THEN r[k] ELSE e[k - Len(r)]
  <2> HIDE DEF r
  <2>. QED  BY <1>2, <1>3, ConcatProperties
<1>5. /\ Len(u) = Len(s) + Len(d)
      /\ \A k \in 1..(Len(s) + Len(d)) : u[k] = IF k <= Len(s) THEN s[k] ELSE d[k - Len(s)]
  BY ConcatProperties
<1> HIDE DEF r, v, u
<1>6. Len(v) + n <= Len(u)
  BY <1>1, <1>2, <1>3, <1>4, <1>5
<1>7. ASSUME NEW k \in 1..Len(v) PROVE v[k] = u[k + n]
  <2>1. k \in 1..(Len(r) + Len(e)) /\ k + n \in 1..(Len(s) + Len(d))
    BY <1>1, <1>2, <1>3, <1>4
  <2>2. CASE k <= Len(r)
    <3>1. v[k] = r[k] /\ r[k] = s[n + k]
      BY <1>1, <1>2, <1>4, <2>1, <2>2
    <3>2. u[k + n] = s[k + n]
      BY <1>1, <1>2, <1>5, <2>1, <2>2
    <3>3. n + k = k + n
      BY <1>1, <2>1
    <3>. QED  BY <3>1, <3>2, <3>3
  <2>3. CASE ~ (k <= Len(r))
    <3>1. v[k] = e[k - Len(r)]
      BY <1>4, <2>1, <2>3
    <3>2. u[k + n] = d[(k + n) - Len(s)]
      BY <1>1, <1>2, <1>5, <2>1, <2>3
    <3>3. (k + n) - Len(s) = k - Len(r) /\ k - Len(r) \in 1..Len(e)
      BY <1>1, <1>2, <1>3, <2>1, <2>3
    <3>. QED  BY <1>3, <3>1, <3>2, <3>3
  <2>. QED  BY <2>2, <2>3
<1>. QED  BY <1>6, <1>7 DEF v, u, r, LeftOf

\* What a client drops at its end leaves the beginning as it was.
LEMMA PrefixOfConcat ==
    ASSUME NEW S, NEW s \in Seq(S), NEW d \in Seq(S)
    PROVE  /\ Len(s) + 0 <= Len(s \o d)
           /\ \A k \in 1..Len(s) : s[k] = (s \o d)[k + 0]
<1>1. /\ Len(s \o d) = Len(s) + Len(d)
      /\ \A k \in 1..(Len(s) + Len(d)) : (s \o d)[k] = IF k <= Len(s) THEN s[k] ELSE d[k - Len(s)]
  BY ConcatProperties
<1>2. Len(s) \in Nat /\ Len(d) \in Nat
  OBVIOUS
<1>3. ASSUME NEW k \in 1..Len(s) PROVE s[k] = (s \o d)[k + 0]
  <2>1. k \in 1..(Len(s) + Len(d)) /\ k + 0 = k /\ k <= Len(s)
    BY <1>2
  <2>. QED  BY <1>1, <2>1
<1>. QED  BY <1>1, <1>2, <1>3

\* Every step of the server, of a client or of the streams keeps IdGoesFirst.
LEMMA IdStep ==
    ASSUME TypeOK, TypeOK', TableInv, [Next]_vars,
           \A c \in Clients : IdGoesFirst(c)
    PROVE  \A c \in Clients : IdGoesFirst(c)'
<1> USE DEF server, streams, clients, history, vars, At, BeginPoll, Polling, Polled
<1>0. /\ link \in [Clients -> {"none", "queued", "accepted", "closed"}]
      /\ end \in [Clients -> {"new", "connected", "closed"}]
      /\ inbox \in [Clients -> Seq(Unit)] /\ down \in [Clients -> Seq(Unit)]
      /\ hasId \subseteq Clients
      /\ table \in Seq(Clients) /\ it \in Nat \ {0} /\ batch \in Seq(Messages)
  BY DEF TypeOK
\* Who has nothing new to read, and whose connection at most goes on or ends.
<1>1. ASSUME NEW c \in Clients, Unread(c)' = Unread(c), UNCHANGED hasId,
             link'[c] = link[c] \/ link'[c] = "closed",
             end'[c] = end[c] \/ end'[c] = "closed"
      PROVE  IdGoesFirst(c)'
  BY <1>0, <1>1 DEF IdGoesFirst
<1>2. ASSUME UNCHANGED <<link, end, hasId, inbox, down>>
      PROVE  \A c \in Clients : IdGoesFirst(c)'
  BY <1>1, <1>2 DEF Unread
<1>3. CASE \/ NobodyJoins \/ WouldBlock \/ Receive \/ DeliverPastEnd \/ PollEnds
  BY <1>2, <1>3 DEF NobodyJoins, WouldBlock, Receive, DeliverPastEnd, PollEnds
\* A message to a client of the table.
<1>4. ASSUME NEW d \in Clients, link[d] = "accepted",
             NEW u \in Unit, u.kind # "set_id",
             down' = Sent(d, u), UNCHANGED <<link, end, hasId, inbox>>
      PROVE  \A c \in Clients : IdGoesFirst(c)'
  <2>1. /\ end[d] = "closed" => Unread(d)' = Unread(d)
        /\ end[d] # "closed" => Unread(d)' = Append(Unread(d), u)
        /\ \A c \in Clients : c # d => Unread(c)' = Unread(c)
    BY <1>4, UnreadGrows
  <2>2. ASSUME NEW c \in Clients, c # d \/ end[d] = "closed" PROVE IdGoesFirst(c)'
    BY <1>1, <1>4, <2>1, <2>2
  <2>3. ASSUME end[d] # "closed" PROVE IdGoesFirst(d)'
    <3>1. Unread(d)' = Append(Unread(d), u)
      BY <2>1, <2>3
    <3>2. Unread(d) \in Seq(Unit)
      BY UnreadIs
    <3>3. end[d] = "connected"
      <4>1. end[d] # "new"
        BY <1>4 DEF TableInv, NewHasNoLink
      <4>. QED  BY <1>0, <2>3, <4>1
    <3>4. /\ Unread(d) # <<>> \/ d \in hasId
          /\ Unread(d) # <<>> => (Unread(d)[1].kind = "set_id") # (d \in hasId)
          /\ \A k \in 2..Len(Unread(d)) : Unread(d)[k].kind # "set_id"
      BY <1>4, <3>3 DEF IdGoesFirst
    <3>5. /\ Unread(d)' # <<>>
          /\ Len(Unread(d)') = Len(Unread(d)) + 1
          /\ \A k \in 1..Len(Unread(d)) : Unread(d)'[k] = Unread(d)[k]
          /\ Unread(d)'[Len(Unread(d)) + 1] = u
      BY <3>1, <3>2, AppendProperties
    <3>6. /\ Len(Unread(d)) \in Nat
          /\ Unread(d) = <<>> <=> Len(Unread(d)) = 0
      BY <3>2, EmptySeq
    <3>7. (Unread(d)'[1].kind = "set_id") # (d \in hasId')
      <4>1. CASE Unread(d) = <<>>
        <5>1. Unread(d)'[1] = u
          BY <3>5, <3>6, <4>1
        <5>. QED  BY <1>4, <3>4, <4>1, <5>1
      <4>2. CASE Unread(d) # <<>>
        <5>1. Unread(d)'[1] = Unread(d)[1]
          BY <3>5, <3>6, <4>2
        <5>. QED  BY <1>4, <3>4, <4>2, <5>1
      <4>. QED  BY <4>1, <4>2
    <3>8. ASSUME NEW k \in 2..Len(Unread(d)') PROVE Unread(d)'[k].kind # "set_id"
      <4>1. CASE k = Len(Unread(d)) + 1
        BY <1>4, <3>5, <4>1
      <4>2. CASE k # Len(Unread(d)) + 1
        <5>1. k \in 2..Len(Unread(d)) /\ k \in 1..Len(Unread(d))
          BY <3>5, <3>6, <4>2
        <5>. QED  BY <3>4, <3>5, <5>1
      <4>. QED  BY <4>1, <4>2
    <3>9. link'[d] = "accepted"
      BY <1>4
    <3>. QED  BY <3>5, <3>7, <3>8, <3>9 DEF IdGoesFirst
  <2>. QED  BY <2>2, <2>3
\* Who is in the table is accepted.
<1>5. ASSUME pc # "stopped", it <= Len(table)
      PROVE  table[it] \in Clients /\ link[table[it]] = "accepted"
  <2>1. it \in 1..Len(table) /\ table[it] \in Clients
    BY <1>0, <1>5
  <2>. QED  BY <1>5, <2>1 DEF TableInv, HoldsAccepted, InTable
<1>6. CASE Deliver \/ SayGoodbye
  <2>1. CASE Deliver
    <3>1. /\ pc # "stopped" /\ it <= Len(table) /\ batch # <<>>
          /\ down' = Sent(table[it], Reply(Head(batch)))
          /\ UNCHANGED <<link, end, hasId, inbox>>
      BY <2>1 DEF Deliver
    <3>2. Head(batch) \in Messages
      BY <1>0, <3>1
    <3>3. Reply(Head(batch)) \in Unit /\ Reply(Head(batch)).kind # "set_id"
      BY <3>2, UnitsAre DEF Reply
    <3>. QED  BY <1>4, <1>5, <3>1, <3>3
  <2>2. CASE SayGoodbye
    <3>1. /\ pc # "stopped" /\ it <= Len(table)
          /\ down' = Sent(table[it], Command("disconnect"))
          /\ UNCHANGED <<link, end, hasId, inbox>>
      BY <2>2 DEF SayGoodbye
    <3>2. Command("disconnect") \in Unit /\ Command("disconnect").kind # "set_id"
      BY UnitsAre DEF Command
    <3>. QED  BY <1>4, <1>5, <3>1, <3>2
  <2>. QED  BY <1>6, <2>1, <2>2
\* The first message of a connection.
<1>7. ASSUME NEW c \in Clients, link[c] = "queued", NEW u \in Unit,
             down' = Sent(c, u), UNCHANGED <<end, hasId, inbox>>,
             \/ u.kind = "set_id" /\ link' = [link EXCEPT ![c] = "accepted"]
             \/ u.kind = "server_full" /\ link' = [link EXCEPT ![c] = "closed"]
      PROVE  \A d \in Clients : IdGoesFirst(d)'
  <2>1. ASSUME NEW d \in Clients, d # c PROVE IdGoesFirst(d)'
    BY <1>0, <1>1, <1>7, <2>1, UnreadGrows
  <2>2. Unread(c) = <<>> /\ c \notin hasId
    BY <1>7 DEF IdGoesFirst
  <2>3. CASE end[c] = "closed"
    <3>1. Unread(c)' = <<>>
      BY <1>7, <2>2, <2>3, UnreadGrows
    <3>2. link'[c] \in {"accepted", "closed"}
      BY <1>0, <1>7
    <3>. QED  BY <1>7, <2>1, <2>2, <2>3, <3>1, <3>2 DEF IdGoesFirst
  <2>4. CASE end[c] # "closed"
    <3>1. Unread(c)' = <<u>>
      <4>1. Unread(c)' = Append(Unread(c), u)
        BY <1>7, <2>4, UnreadGrows
      <4>. QED  BY <2>2, <4>1
    <3>2. /\ link'[c] \in {"accepted", "closed"}
          /\ u.kind = "set_id" \/ (u.kind = "server_full" /\ link'[c] = "closed")
      BY <1>0, <1>7
    <3>3. IdGoesFirst(c)'
      BY <1>7, <2>2, <3>1, <3>2 DEF IdGoesFirst
    <3>. QED  BY <2>1, <3>3
  <2>. QED  BY <2>3, <2>4
<1>8. ASSUME NEW c \in Clients, Accept(c) \/ Refuse(c)
      PROVE  \A d \in Clients : IdGoesFirst(d)'
  <2>1. CASE Accept(c)
    BY <1>7, <2>1, UnitsAre DEF Accept, Command
  <2>2. CASE Refuse(c)
    BY <1>7, <2>2, UnitsAre DEF Refuse, Command
  <2>. QED  BY <1>8, <2>1, <2>2
<1>9. CASE Lose \/ Stop
  <2> SUFFICES ASSUME NEW c \in Clients PROVE IdGoesFirst(c)'
    OBVIOUS
  <2>1. /\ link'[c] = link[c] \/ link'[c] = "closed"
        /\ UNCHANGED <<end, hasId, inbox, down>>
    BY <1>0, <1>9 DEF Lose, Stop
  <2>. QED  BY <1>1, <2>1 DEF Unread
<1>10. ASSUME NEW c \in Clients, Connect(c)
       PROVE  \A d \in Clients : IdGoesFirst(d)'
  <2>1. /\ end[c] = "new" /\ end' = [end EXCEPT ![c] = "connected"]
        /\ link' = [link EXCEPT ![c] = "queued"]
        /\ UNCHANGED <<hasId, inbox, down>>
    BY <1>10 DEF Connect
  <2>2. ASSUME NEW d \in Clients, d # c PROVE IdGoesFirst(d)'
    BY <1>0, <1>1, <2>1, <2>2 DEF Unread
  <2>3. Unread(c) = <<>> /\ c \notin hasId /\ UNCHANGED Unread(c)
    BY <1>0, <2>1 DEF TableInv, NewHasNoLink, IdGoesFirst, Unread
  <2>4. IdGoesFirst(c)'
    BY <1>0, <2>1, <2>3 DEF IdGoesFirst
  <2>. QED  BY <2>2, <2>4
<1>11. ASSUME NEW c \in Clients, Quit(c)
       PROVE  \A d \in Clients : IdGoesFirst(d)'
  <2>1. /\ end' = [end EXCEPT ![c] = "closed"] /\ down' = [down EXCEPT ![c] = <<>>]
        /\ UNCHANGED <<link, hasId, inbox>>
    BY <1>11 DEF Quit, Closed
  <2>2. ASSUME NEW d \in Clients, d # c PROVE IdGoesFirst(d)'
    BY <1>0, <1>1, <2>1, <2>2 DEF Unread
  <2>3. Unread(c)' = inbox[c]
    <3>1. inbox[c] \in Seq(Unit) /\ down'[c] = <<>> /\ inbox'[c] = inbox[c]
      BY <1>0, <2>1
    <3>. QED  BY <3>1, ConcatEmptySeq DEF Unread
  <2>4. IdGoesFirst(c)'
    <3>1. /\ Len(Unread(c)') + 0 <= Len(Unread(c))
          /\ \A j \in 1..Len(Unread(c)') : Unread(c)'[j] = Unread(c)[j + 0]
      <4>1. inbox[c] \in Seq(Unit) /\ down[c] \in Seq(Unit)
        BY <1>0
      <4>2. /\ Len(inbox[c]) + 0 <= Len(inbox[c] \o down[c])
            /\ \A j \in 1..Len(inbox[c]) : inbox[c][j] = (inbox[c] \o down[c])[j + 0]
        BY <4>1, PrefixOfConcat
      <4>3. Unread(c) = inbox[c] \o down[c]
        BY DEF Unread
      <4>. QED  BY <2>3, <4>2, <4>3, Zenon
    <3>2. end'[c] = "closed" /\ IdGoesFirst(c)
      BY <1>0, <2>1
    <3>. QED  BY <2>1, <3>1, <3>2, SuffixKeeps
  <2>. QED  BY <2>2, <2>4
<1>12. ASSUME NEW c \in Clients, PollRead(c)
       PROVE  \A d \in Clients : IdGoesFirst(d)'
  <2>1. PICK n \in 1..Len(down[c]) :
            /\ inbox' = [inbox EXCEPT ![c] = SubSeq(down[c], 1, n)]
            /\ down' = [down EXCEPT ![c] = SubSeq(@, n + 1, Len(@))]
    BY <1>12 DEF PollRead
  <2>2. inbox[c] = <<>> /\ UNCHANGED <<link, end, hasId>>
    BY <1>12 DEF PollRead
  <2>3. Unread(c) = down[c]
    <3>1. down[c] \in Seq(Unit)
      BY <1>0
    <3>. QED  BY <2>2, <3>1, ConcatEmptySeq DEF Unread
  <2>4. Unread(c)' = down[c]
    <3>1. down[c] \in Seq(Unit) /\ n \in 1..Len(down[c])
      BY <1>0
    <3>2. SubSeq(down[c], 1, n) \o SubSeq(down[c], n + 1, Len(down[c])) = down[c]
      BY <3>1
    <3>. QED  BY <1>0, <2>1, <3>2 DEF Unread
  <2>5. \A d \in Clients : d # c => Unread(d)' = Unread(d)
    BY <1>0, <2>1 DEF Unread
  <2>. QED  BY <1>1, <2>2, <2>3, <2>4, <2>5
<1>13. ASSUME NEW c \in Clients, Handle(c)
       PROVE  \A d \in Clients : IdGoesFirst(d)'
  <2> DEFINE s == inbox[c]
  <2>1. /\ s # <<>> /\ UNCHANGED link
        /\ inbox' = [inbox EXCEPT ![c] = AfterFirst(s)]
        /\ hasId' = IF Head(s).kind = "set_id" THEN hasId \cup {c} ELSE hasId
    BY <1>13 DEF Handle
  <2>2. Closed(c) \/ UNCHANGED <<end, down>>
    BY <1>13 DEF Handle, ThrowsBeyondBuffer
  <2>3. /\ end'[c] = end[c] \/ end'[c] = "closed"
        /\ down'[c] = down[c] \/ down'[c] = <<>>
        /\ \A d \in Clients : d # c => end'[d] = end[d] /\ down'[d] = down[d]
    BY <1>0, <2>2 DEF Closed
  <2>4. ASSUME NEW d \in Clients, d # c PROVE IdGoesFirst(d)'
    <3>1. Unread(d)' = Unread(d)
      BY <1>0, <2>1, <2>3, <2>4 DEF Unread
    <3>2. (d \in hasId') <=> (d \in hasId)
      BY <2>1, <2>4
    <3>. QED  BY <1>0, <2>1, <2>3, <2>4, <3>1, <3>2 DEF IdGoesFirst
  <2>5. s \in Seq(Unit) /\ Len(s) \in Nat \ {0}
    BY <1>0, <2>1, EmptySeq
  <2>6. PICK n \in 1..Len(s) : AfterFirst(s) = SubSeq(s, n + 1, Len(s))
    BY <2>1, <2>5, AfterFirstIs
  <2>7. down[c] \in Seq(Unit)
    BY <1>0
  <2>8. Unread(c)' = SubSeq(s, n + 1, Len(s)) \o down'[c]
    BY <1>0, <2>1, <2>6 DEF Unread
  <2>9. Unread(c) = s \o down[c]
    BY DEF Unread
  <2>12. /\ Len(Unread(c)') + n <= Len(Unread(c))
         /\ \A k \in 1..Len(Unread(c)') : Unread(c)'[k] = Unread(c)[k + n]
    <3> HIDE DEF s
    <3>1. down'[c] = down[c] \/ down'[c] = <<>>
      BY <2>3
    <3>2. ASSUME NEW e, e = down[c] \/ e = <<>>
          PROVE  LeftOf(SubSeq(s, n + 1, Len(s)) \o e, s \o down[c], n)
      <4>1. s \in Seq(Unit) /\ n \in 1..Len(s) /\ down[c] \in Seq(Unit)
        BY <2>5, <2>6, <2>7
      <4>. QED  BY <3>2, <4>1, SuffixOfConcat, Zenon
    <3>3. LeftOf(SubSeq(s, n + 1, Len(s)) \o down'[c], s \o down[c], n)
      BY <3>1, <3>2, Zenon
    <3>4. LeftOf(Unread(c)', Unread(c), n)
      BY <2>8, <2>9, <3>3, Zenon
    <3>. QED  BY <3>4 DEF LeftOf
  <2>14. Head(s) = Unread(c)[1]
    <3>1. Head(s) = s[1] /\ 1 \in 1..Len(s) /\ 1 + 0 = 1
      BY <2>5
    <3> HIDE DEF s
    <3>2. \A k \in 1..Len(s) : s[k] = (s \o down[c])[k + 0]
      BY <2>5, <2>7, PrefixOfConcat
    <3>. QED  BY <2>9, <3>1, <3>2, Zenon
  <2>15. (c \in hasId') <=> (c \in hasId \/ (n # 0 /\ Unread(c)[1].kind = "set_id"))
    <3> HIDE DEF s
    <3>. QED  BY <2>1, <2>6, <2>14
  <2>16. n \in Nat /\ n # 0
    BY <2>5, <2>6
  <2>17. IdGoesFirst(c) /\ UNCHANGED link
    BY <2>1
  <2>18. IdGoesFirst(c)'
    <3> HIDE DEF s
    <3>. QED  BY <2>3, <2>12, <2>15, <2>16, <2>17, SuffixKeeps
  <2>. QED  BY <2>4, <2>18
<1>14. ASSUME NEW c \in Clients, Register(c) PROVE \A d \in Clients : IdGoesFirst(d)'
  BY <1>2, <1>14 DEF Register
<1>15. ASSUME NEW c \in Clients, NEW m \in Messages, Write(c, m)
       PROVE  \A d \in Clients : IdGoesFirst(d)'
  BY <1>2, <1>15 DEF Write
<1>16. CASE UNCHANGED vars
  BY <1>2, <1>16
<1>. QED  BY <1>3, <1>6, <1>8, <1>9, <1>10, <1>11, <1>12, <1>13, <1>14, <1>15, <1>16
          DEF Next, ServerStep

\* No message reaches a client before its id (IdComesFirst).
THEOREM IdFirst == Spec => []IdComesFirst
<1>1. Init => TableInv
  BY ConstantsAssumption
     DEF Init, TableInv, NewHasNoLink, Fits, HoldsOnce, HoldsAccepted, InTable
<1>2. Init => \A c \in Clients : IdGoesFirst(c)
  <2> SUFFICES ASSUME Init, NEW c \in Clients PROVE IdGoesFirst(c)
    OBVIOUS
  <2>1. Unread(c) = <<>>
    BY DEF Init, Unread
  <2>. QED  BY <2>1 DEF Init, IdGoesFirst
<1>3. (\A c \in Clients : IdGoesFirst(c)) => IdComesFirst
  BY DEF IdGoesFirst, IdComesFirst, Unread
<1>4. /\ TypeOK /\ TypeOK' /\ TableInv /\ [Next]_vars
      /\ \A c \in Clients : IdGoesFirst(c)
      => (\A c \in Clients : IdGoesFirst(c))'
  BY IdStep
<1>. QED  BY <1>1, <1>2, <1>3, <1>4, TypeCorrect, TableStep, PTL DEF Spec
=============================================================================
