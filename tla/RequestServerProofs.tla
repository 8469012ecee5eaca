------------------------ MODULE RequestServerProofs ------------------------
(***************************************************************************)
(* Proofs about RequestServer, for any connections and any number of       *)
(* calls of run().                                                         *)
(***************************************************************************)
EXTENDS RequestServer, TLAPS

\* Of the history variables.
LEMMA HistoryStep ==
    ASSUME TypeOK, [Next]_vars
    PROVE  stopped' \in {"no", "told", "lost"} /\ late' \in Nat
<1>0. stopped \in {"no", "told", "lost"} /\ late \in Nat
  BY DEF TypeOK
<1> USE <1>0 DEF history
<1>1. CASE Run \/ BindFails \/ Listen \/ Begin
  BY <1>1 DEF Run, BindFails, Listen, Begin
<1>2. CASE EnterAccept \/ Return \/ AcceptFails \/ Accept \/ Close
  BY <1>2 DEF EnterAccept, Return, AcceptFails, Accept, Close
<1>3. CASE NoRequest \/ Respond \/ OpenStream
  BY <1>3 DEF NoRequest, Respond, OpenStream, MayStop, Told
<1>4. CASE StreamTest \/ StreamHungUp \/ StreamNack \/ StreamEnds
  BY <1>4 DEF StreamTest, StreamHungUp, StreamNack, StreamEnds
<1>5. CASE StreamMessage \/ StreamThrows
  BY <1>5 DEF StreamMessage, StreamThrows, MayStop, Told
<1>6. CASE StopRunning \/ StopExited
  BY <1>6 DEF StopRunning, StopExited, Told
<1>7. ASSUME NEW c \in Clients, Connect(c) \/ Request(c) \/ HangUp(c)
      PROVE  UNCHANGED history
  BY <1>7 DEF Connect, Request, HangUp
<1>8. ASSUME NEW c \in Clients, NEW isEnd \in BOOLEAN, Write(c, isEnd)
      PROVE  UNCHANGED history
  BY <1>8 DEF Write
<1>9. CASE UNCHANGED vars
  BY <1>9 DEF vars
<1>. QED  BY <1>1, <1>2, <1>3, <1>4, <1>5, <1>6, <1>7, <1>8, <1>9 DEF Next, RunStep

\* One step of any actor keeps the types.
LEMMA TypeStep == TypeOK /\ [Next]_vars => TypeOK'
<1> SUFFICES ASSUME TypeOK, [Next]_vars PROVE TypeOK'
  OBVIOUS
<1>0. stopped' \in {"no", "told", "lost"} /\ late' \in Nat
  BY HistoryStep
<1> USE ConstantsAssumption, <1>0 DEF TypeOK, Labels, Serves, control, kernel, clients, vars, At, Goto
<1>1. CASE Run
  BY <1>1 DEF Run
<1>2. CASE BindFails \/ Listen \/ Begin
  BY <1>2 DEF BindFails, Listen, Begin
<1>3. CASE EnterAccept \/ Return \/ AcceptFails \/ Close
  BY <1>3 DEF EnterAccept, Return, AcceptFails, Close
<1>4. CASE Accept
  <2>1. Head(backlog) \in Clients /\ Tail(backlog) \in Seq(Clients)
    BY <1>4 DEF Accept
  <2>2. conn' \in [Clients -> {"none", "queued", "accepted", "closed"}]
    BY <1>4, <2>1 DEF Accept
  <2>3. serving' \in Clients /\ backlog' \in Seq(Clients) /\ late' \in Nat
    BY <1>4, <2>1 DEF Accept
  <2>. QED  BY <1>4, <2>2, <2>3 DEF Accept
<1>5. ASSUME NEW last \in Int, Serves, Takes(last), UNCHANGED <<written, ending>>
      PROVE  /\ {written', taken', ending'} \subseteq [Clients -> Int]
             /\ \A c \in Clients :
                    /\ written'[c] \in -1..(2 * MaxMessages[c])
                    /\ taken'[c] \in -1..written'[c]
                    /\ ending'[c] \in 0..(2 * MaxMessages[c])
  <2>1. serving \in Clients
    BY <1>5
  <2>2. ASSUME NEW c \in Clients PROVE taken'[c] \in -1..written'[c]
    <3>1. CASE c = serving
      BY <1>5, <2>1, <3>1 DEF Takes
    <3>2. CASE c # serving
      BY <1>5, <2>1, <3>2 DEF Takes
    <3>. QED  BY <3>1, <3>2
  <2>3. taken' \in [Clients -> Int]
    BY <1>5 DEF Takes
  <2>. QED  BY <1>5, <2>2, <2>3
<1>6. CASE Respond \/ OpenStream
  <2>1. PICK last \in 0..written[serving] : Takes(last)
    BY <1>6 DEF Respond, OpenStream
  <2>2. serving \in Clients /\ last \in Int /\ Serves
    BY <1>6 DEF Respond, OpenStream
  <2>3. UNCHANGED <<written, ending>>
    BY <1>6 DEF Respond, OpenStream
  <2>. QED  BY <1>5, <1>6, <2>1, <2>2, <2>3 DEF Respond, OpenStream, MayStop, Sends
<1>7. CASE NoRequest \/ StreamTest \/ StreamHungUp
  BY <1>7 DEF NoRequest, StreamTest, StreamHungUp
<1>8. CASE StreamNack
  <2>1. taken[serving] + 1 \in Int /\ Serves
    BY <1>8 DEF StreamNack
  <2>. QED  BY <1>5, <1>8, <2>1 DEF StreamNack, Sends
<1>9. CASE StreamEnds
  <2>1. ending[serving] \in Int /\ Serves
    BY <1>9 DEF StreamEnds
  <2>. QED  BY <1>5, <1>9, <2>1 DEF StreamEnds
<1>10. CASE StreamMessage
  <2>1. PICK last \in 1..written[serving] : Takes(last)
    BY <1>10 DEF StreamMessage
  <2>2. last \in Int /\ Serves
    BY <1>10 DEF StreamMessage
  <2>3. UNCHANGED <<written, ending>>
    BY <1>10 DEF StreamMessage
  <2>. QED  BY <1>5, <1>10, <2>1, <2>2, <2>3 DEF StreamMessage, MayStop, Sends
<1>11. CASE StreamThrows
  <2>1. PICK last \in (taken[serving] + 2)..written[serving] : Takes(last)
    BY <1>11 DEF StreamThrows
  <2>2. last \in Int /\ Serves
    BY <1>11 DEF StreamThrows
  <2>3. UNCHANGED <<written, ending>>
    BY <1>11 DEF StreamThrows
  <2>. QED  BY <1>5, <1>11, <2>1, <2>2, <2>3 DEF StreamThrows
<1>12. CASE StopRunning \/ StopExited
  BY <1>12 DEF StopRunning, StopExited
<1>13. ASSUME NEW c \in Clients, Connect(c) PROVE TypeOK'
  <2>1. /\ conn' \in [Clients -> {"none", "queued", "accepted", "closed"}]
        /\ backlog' \in Seq(Clients)
    BY <1>13 DEF Connect
  <2>. QED  BY <1>13, <2>1 DEF Connect
<1>14. ASSUME NEW c \in Clients, NEW n \in Int, NEW k \in Int,
              UNCHANGED <<control, kernel, fate, history>>, gone' \subseteq Clients,
              written' = [written EXCEPT ![c] = n], ending' = [ending EXCEPT ![c] = k],
              taken' = taken,
              n \in taken[c]..(2 * MaxMessages[c]), k \in 0..(2 * MaxMessages[c])
       PROVE  TypeOK'
  <2>1. {written', taken', ending'} \subseteq [Clients -> Int]
    BY <1>14
  <2>2. ASSUME NEW d \in Clients
        PROVE  /\ written'[d] \in -1..(2 * MaxMessages[d])
               /\ taken'[d] \in -1..written'[d]
               /\ ending'[d] \in 0..(2 * MaxMessages[d])
    <3>1. MaxMessages[d] \in Nat /\ written[d] \in Int /\ taken[d] \in Int /\ taken[c] \in Int
      OBVIOUS
    <3>2. CASE d = c
      BY <1>14, <3>1, <3>2
    <3>3. CASE d # c
      BY <1>14, <3>1, <3>3
    <3>. QED  BY <3>2, <3>3
  <2>. QED  BY <1>14, <2>1, <2>2
<1>15. ASSUME NEW c \in Clients, Request(c) PROVE TypeOK'
  <2>1. ending' = [ending EXCEPT ![c] = ending[c]] /\ ending[c] \in 0..(2 * MaxMessages[c])
    BY <1>15 DEF Request
  <2>2. 0 \in taken[c]..(2 * MaxMessages[c])
    BY <1>15 DEF Request
  <2>. QED  BY <1>14, <1>15, <2>1, <2>2 DEF Request
<1>16. ASSUME NEW c \in Clients, NEW isEnd \in BOOLEAN, Write(c, isEnd) PROVE TypeOK'
  <2>1. /\ written[c] \in Int /\ taken[c] \in -1..written[c] /\ MaxMessages[c] \in Nat
        /\ written[c] >= 0 /\ written[c] + 2 <= 2 * MaxMessages[c]
    BY <1>16 DEF Write
  <2>2. written[c] + 2 \in taken[c]..(2 * MaxMessages[c])
    BY <2>1
  <2>3. /\ written' = [written EXCEPT ![c] = written[c] + 2]
        /\ UNCHANGED <<control, kernel, gone, taken, fate, history>>
    BY <1>16 DEF Write
  <2>4. PICK k \in {0, written[c] + 2} : ending' = [ending EXCEPT ![c] = k]
    BY <1>16 DEF Write
  <2>5. k \in Int /\ k \in 0..(2 * MaxMessages[c])
    BY <2>1, <2>4
  <2>6. written[c] + 2 \in Int /\ gone' \subseteq Clients /\ taken' = taken
    BY <2>1, <2>3
  <2>. QED  BY <1>14, <2>2, <2>3, <2>4, <2>5, <2>6
<1>17. ASSUME NEW c \in Clients, HangUp(c) PROVE TypeOK'
  <2>1. taken' = taken \/ taken' = [taken EXCEPT ![c] = written[c]]
    BY <1>17 DEF HangUp
  <2>2. taken' \in [Clients -> Int]
    BY <2>1
  <2>3. ASSUME NEW d \in Clients PROVE taken'[d] \in -1..written[d]
    <3>1. /\ written[d] \in Int /\ written[d] >= -1
          /\ taken[d] \in -1..written[d]
      OBVIOUS
    <3>2. taken'[d] \in {taken[d], written[d]}
      BY <2>1
    <3>. QED  BY <3>1, <3>2
  <2>. QED  BY <1>17, <2>2, <2>3 DEF HangUp
<1>18. CASE UNCHANGED vars
  BY <1>18
<1>. QED  BY <1>1, <1>2, <1>3, <1>4, <1>6, <1>7, <1>8, <1>9, <1>10, <1>11, <1>12,
            <1>13, <1>14, <1>15, <1>16, <1>17, <1>18 DEF Next, RunStep

\* Every variable keeps its type (TypeOK).
THEOREM TypeCorrect == Spec => []TypeOK
<1>1. Init => TypeOK
  <2> SUFFICES ASSUME Init PROVE TypeOK
    OBVIOUS
  <2>1. \A c \in Clients : 2 * MaxMessages[c] \in Nat
    BY ConstantsAssumption
  <2>2. /\ {written, taken, ending} \subseteq [Clients -> Int]
        /\ \A c \in Clients :
               /\ written[c] \in -1..(2 * MaxMessages[c])
               /\ taken[c] \in -1..written[c]
               /\ ending[c] \in 0..(2 * MaxMessages[c])
    BY <2>1 DEF Init
  <2>3. /\ runs \in 0..MaxRuns /\ backlog \in Seq(Clients) /\ late \in Nat
        /\ conn \in [Clients -> {"none", "queued", "accepted", "closed"}]
    BY ConstantsAssumption DEF Init
  <2>4. pc \in Labels /\ (Serves <=> serving # None)
    BY DEF Init, Labels, Serves
  <2>. QED  BY <2>2, <2>3, <2>4 DEF Init, TypeOK
<1>. QED  BY <1>1, TypeStep, PTL DEF Spec

-----------------------------------------------------------------------------
\* A stop() that is not lost leaves `running` cleared for the rest of this run():
\* only the accept() under way is left, and no later test lets another begin.
ToldIsHeard == stopped = "told" => ~running
LateIsLast == (late > 0 /\ stopped # "lost") =>
    late = 1 /\ stopped = "told" /\ pc \notin {"bind", "start", "accept"}
FreshAtFirst == pc \in {"bind", "start"} => late = 0 /\ stopped # "lost"
LateInv == ToldIsHeard /\ LateIsLast /\ FreshAtFirst

LEMMA LateStep == TypeOK /\ LateInv /\ [Next]_vars => LateInv'
<1> SUFFICES ASSUME TypeOK, LateInv, [Next]_vars PROVE LateInv'
  OBVIOUS
<1>0. late \in Nat /\ running \in BOOLEAN /\ stopped \in {"no", "told", "lost"}
  BY DEF TypeOK
<1> USE <1>0 DEF LateInv, ToldIsHeard, LateIsLast, FreshAtFirst, control, kernel, clients, history, vars, At, Goto
<1>1. CASE Run
  BY <1>1 DEF Run
<1>2. CASE BindFails \/ Listen
  BY <1>2 DEF BindFails, Listen
<1>12. CASE Begin
  <2>1. pc = "start" /\ pc' = "test" /\ stopped' # "told" /\ late' = 0
    BY <1>12 DEF Begin
  <2>. QED  BY <2>1
<1>3. CASE EnterAccept \/ Return \/ AcceptFails \/ Close
  BY <1>3 DEF EnterAccept, Return, AcceptFails, Close
<1>4. CASE Accept
  BY <1>4 DEF Accept
<1>5. CASE NoRequest \/ Respond \/ OpenStream
  BY <1>5 DEF NoRequest, Respond, OpenStream, MayStop, Told
<1>6. CASE StreamTest \/ StreamHungUp \/ StreamNack \/ StreamEnds
  BY <1>6 DEF StreamTest, StreamHungUp, StreamNack, StreamEnds
<1>7. CASE StreamMessage \/ StreamThrows
  BY <1>7 DEF StreamMessage, StreamThrows, MayStop, Told
<1>8. CASE StopRunning \/ StopExited
  BY <1>8 DEF StopRunning, StopExited, Told
<1>9. ASSUME NEW c \in Clients, Connect(c) \/ Request(c) \/ HangUp(c) PROVE LateInv'
  BY <1>9 DEF Connect, Request, HangUp
<1>10. ASSUME NEW c \in Clients, NEW isEnd \in BOOLEAN, Write(c, isEnd) PROVE LateInv'
  BY <1>10 DEF Write
<1>11. CASE UNCHANGED vars
  BY <1>11
<1>. QED  BY <1>1, <1>2, <1>12, <1>3, <1>4, <1>5, <1>6, <1>7, <1>8, <1>9, <1>10, <1>11
          DEF Next, RunStep

\* At most one connection is accepted after a stop() that is not lost (LastOne).
THEOREM StopAcceptsOneMore == Spec => []LastOne
<1>1. Init => LateInv
  BY DEF Init, LateInv, ToldIsHeard, LateIsLast, FreshAtFirst
<1>2. TypeOK /\ LateInv => LastOne
  BY DEF TypeOK, LateInv, LateIsLast, LastOne
<1>. QED  BY <1>1, <1>2, LateStep, TypeCorrect, PTL DEF Spec

-----------------------------------------------------------------------------
\* run() sets `exited` before it returns, and nobody ever clears it.
ReturnedExited == outcome = "returned" => exited

LEMMA ExitedStep == ReturnedExited /\ [Next]_vars => ReturnedExited'
<1> SUFFICES ASSUME ReturnedExited, [Next]_vars PROVE ReturnedExited'
  OBVIOUS
<1> USE DEF ReturnedExited, control, vars
<1>1. CASE Run \/ BindFails \/ Listen \/ Begin
  BY <1>1 DEF Run, BindFails, Listen, Begin
<1>2. CASE EnterAccept \/ Return \/ AcceptFails \/ Accept \/ Close
  BY <1>2 DEF EnterAccept, Return, AcceptFails, Accept, Close
<1>3. CASE NoRequest \/ Respond \/ OpenStream
  BY <1>3 DEF NoRequest, Respond, OpenStream, MayStop
<1>4. CASE StreamTest \/ StreamHungUp \/ StreamNack \/ StreamEnds
  BY <1>4 DEF StreamTest, StreamHungUp, StreamNack, StreamEnds
<1>5. CASE StreamMessage \/ StreamThrows
  BY <1>5 DEF StreamMessage, StreamThrows, MayStop
<1>6. CASE StopRunning \/ StopExited
  BY <1>6 DEF StopRunning, StopExited
<1>7. ASSUME NEW c \in Clients, Connect(c) \/ Request(c) \/ HangUp(c) PROVE ReturnedExited'
  BY <1>7 DEF Connect, Request, HangUp
<1>8. ASSUME NEW c \in Clients, NEW isEnd \in BOOLEAN, Write(c, isEnd) PROVE ReturnedExited'
  BY <1>8 DEF Write
<1>9. CASE UNCHANGED vars
  BY <1>9
<1>. QED  BY <1>1, <1>2, <1>3, <1>4, <1>5, <1>6, <1>7, <1>8, <1>9 DEF Next, RunStep

\* A run() that returns with neither flag set has failed to bind (ReturnTells).
THEOREM ReturnIsTold == Spec => []ReturnTells
<1>1. Init => ReturnedExited
  BY DEF Init, ReturnedExited
<1>2. TypeOK /\ ReturnedExited => ReturnTells
  BY DEF TypeOK, ReturnedExited, ReturnTells
<1>. QED  BY <1>1, <1>2, ExitedStep, TypeCorrect, PTL DEF Spec
=============================================================================
