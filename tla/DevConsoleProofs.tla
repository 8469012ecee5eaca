-------------------------- MODULE DevConsoleProofs --------------------------
(***************************************************************************)
(* Proofs about DevConsole, for any widths and any width of size_t.  What  *)
(* a step does to a thread's activations is said by how many there are (D) *)
(* and by where the last one is (Place).                                   *)
(***************************************************************************)
EXTENDS DevConsole, SequenceTheorems, TLAPS

\* Only the last activation runs; each of the others has made a call.
Nested(s) == \A i \in 1..(Len(s) - 1) : s[i].at = "calling"

CallsOK ==
    /\ calls \in [Threads -> Seq(Activations)]
    /\ \A t \in Threads : Nested(calls[t])

D(t) == Len(calls[t])
Place(t) == IF calls[t] = << >> THEN "idle" ELSE Top(t).at

\* The activations of the other threads stay as they are.
OthersKept(t) == \A v \in Threads \ {t} : calls'[v] = calls[v]

-----------------------------------------------------------------------------
(* Activations. *)

\* What the two measures say.
LEMMA Measures ==
    ASSUME CallsOK, NEW t \in Threads
    PROVE  /\ D(t) \in Nat
           /\ D(t) = 0 <=> Place(t) = "idle"
           /\ D(t) = 0 <=> calls[t] = << >>
           /\ D(t) > 0 => Top(t) \in Activations /\ Place(t) = Top(t).at
           /\ \A p : At(t, p) <=> D(t) > 0 /\ Place(t) = p
           /\ IsInside(t) <=> D(t) > 1 \/ Place(t) \in Inside
<1>1. calls[t] \in Seq(Activations) /\ Nested(calls[t])
  BY DEF CallsOK
<1>2. D(t) \in Nat /\ (D(t) = 0 <=> calls[t] = << >>)
  BY <1>1, EmptySeq DEF D
<1>3. D(t) > 0 => Top(t) \in Activations /\ Place(t) = Top(t).at
  BY <1>1, <1>2, ElementOfSeq DEF D, Top, Place
<1>4. D(t) = 0 <=> Place(t) = "idle"
  BY <1>2, <1>3 DEF Place, Activations, Places, Inside, Keys
<1>5. \A p : At(t, p) <=> D(t) > 0 /\ Place(t) = p
  BY <1>2, <1>3 DEF At
<1>6. IsInside(t) <=> D(t) > 1 \/ Place(t) \in Inside
  <2>1. ASSUME IsInside(t)  PROVE D(t) > 1 \/ Place(t) \in Inside
    <3>1. PICK i \in 1..D(t) : calls[t][i].at \in Inside
      BY <1>1, <2>1 DEF IsInside, D
    <3> QED BY <1>2, <1>3, <3>1 DEF D, Top
  <2>2. ASSUME D(t) > 1  PROVE IsInside(t)
    <3>1. calls[t][1].at = "calling" /\ 1 \in DOMAIN calls[t]
      BY <1>1, <1>2, <2>2 DEF Nested, D
    <3> QED BY <3>1 DEF IsInside, Inside
  <2>3. ASSUME Place(t) \in Inside  PROVE IsInside(t)
    <3>1. D(t) > 0
      BY <1>2, <2>3 DEF Place, Inside, Keys
    <3>2. D(t) \in DOMAIN calls[t] /\ calls[t][D(t)].at = Place(t)
      BY <1>1, <1>2, <1>3, <3>1 DEF D, Top
    <3> QED BY <2>3, <3>2 DEF IsInside
  <2> QED BY <2>1, <2>2, <2>3
<1> QED BY <1>2, <1>3, <1>4, <1>5, <1>6

\* The same of the state after a step.
LEMMA MeasuresAfter ==
    ASSUME CallsOK', NEW t \in Threads
    PROVE  /\ D(t)' \in Nat
           /\ (D(t) = 0 <=> Place(t) = "idle")'
           /\ (D(t) > 0 => Place(t) = Top(t).at)'
<1>1. calls'[t] \in Seq(Activations)
  BY DEF CallsOK
<1>2. D(t)' \in Nat /\ (D(t) = 0 <=> calls[t] = << >>)'
  BY <1>1, EmptySeq DEF D
<1>3. D(t)' > 0 => Top(t)' \in Activations /\ Place(t)' = Top(t)'.at
  BY <1>1, <1>2, ElementOfSeq DEF D, Top, Place
<1> QED BY <1>2, <1>3 DEF Place, Activations, Places, Inside, Keys

\* The last activation goes somewhere.
LEMMA BecomesShape ==
    ASSUME CallsOK, NEW t \in Threads, D(t) > 0, NEW a \in Activations, Becomes(t, a)
    PROVE  /\ CallsOK' /\ OthersKept(t)
           /\ D(t)' = D(t) /\ Place(t)' = a.at
<1> DEFINE s == calls[t]
           r == calls'[t]
<1>1. s \in Seq(Activations) /\ Nested(s) /\ D(t) \in Nat /\ Len(s) \in 1..Len(s)
  BY Measures DEF CallsOK, D
<1>2. calls' \in [Threads -> Seq(Activations)] /\ r = [s EXCEPT ![Len(s)] = a] /\ OthersKept(t)
  BY <1>1, ExceptSeq DEF CallsOK, Becomes, OthersKept
<1>3. Len(r) = Len(s) /\ \A i \in 1..Len(s) : r[i] = IF i = Len(s) THEN a ELSE s[i]
  BY <1>1, <1>2, ExceptSeq
<1>4. Nested(r)
  BY <1>1, <1>3 DEF Nested
<1>5. CallsOK'
  BY <1>2, <1>4 DEF CallsOK, OthersKept
<1>6. D(t)' = D(t) /\ Top(t)' = a
  BY <1>1, <1>3 DEF D, Top
<1> QED BY <1>2, <1>5, <1>6, MeasuresAfter

LEMMA GotoShape ==
    ASSUME CallsOK, NEW t \in Threads, D(t) > 0, NEW p \in Places \ {"copy", "null"}, Goto(t, p)
    PROVE  /\ CallsOK' /\ OthersKept(t)
           /\ D(t)' = D(t) /\ Place(t)' = p
<1> DEFINE a == [Top(t) EXCEPT !.at = p]
<1>1. a \in Activations /\ a.at = p
  BY Measures DEF Activations
<1>2. Becomes(t, a)
  BY DEF Goto
<1> QED BY <1>1, <1>2, BecomesShape

\* It returns, and the one that has called it is at the mark.
LEMMA ReturnShape ==
    ASSUME CallsOK, NEW t \in Threads, D(t) > 0, Return(t)
    PROVE  /\ CallsOK' /\ OthersKept(t)
           /\ D(t)' = D(t) - 1
           /\ Place(t)' = IF D(t) = 1 THEN "idle" ELSE "mark"
<1> DEFINE s == calls[t]
           r == calls'[t]
           rest == SubSeq(s, 1, Len(s) - 1)
           a == [rest[Len(rest)] EXCEPT !.at = "mark"]
<1>1. s \in Seq(Activations) /\ Nested(s) /\ Len(s) \in Nat \ {0}
  BY Measures DEF CallsOK, D
<1>2. /\ rest \in Seq(Activations) /\ Len(rest) = Len(s) - 1
      /\ \A i \in 1..(Len(s) - 1) : rest[i] = s[i]
  BY <1>1, ElementOfSeq, SubSeqProperties
<1>3. rest # << >> => Len(rest) \in 1..Len(rest) /\ a \in Activations
  <2>1. rest # << >> => Len(rest) \in 1..Len(rest) /\ rest[Len(rest)] \in Activations
    BY <1>2, EmptySeq, ElementOfSeq
  <2> QED BY <2>1 DEF Activations, Places, Inside
<1>4. r = IF rest = << >> THEN rest ELSE [rest EXCEPT ![Len(rest)] = a]
  BY DEF Return, CallsOK
<1>5. /\ r \in Seq(Activations) /\ Len(r) = Len(s) - 1
      /\ \A i \in 1..(Len(s) - 2) : r[i] = s[i]
      /\ Len(s) > 1 => r[Len(r)].at = "mark"
  <2>1. CASE rest = << >>
    BY <1>1, <1>2, <1>4, <2>1, EmptySeq
  <2>2. CASE rest # << >>
    <3>1. /\ r \in Seq(Activations) /\ Len(r) = Len(rest)
          /\ \A i \in 1..Len(rest) : r[i] = IF i = Len(rest) THEN a ELSE rest[i]
      <4>1. r = [rest EXCEPT ![Len(rest)] = a]
        BY <1>4, <2>2
      <4> HIDE DEF rest, a, r
      <4> QED BY <1>2, <1>3, <2>2, <4>1, ExceptSeq
    <3>2. a.at = "mark"
      <4>1. rest[Len(rest)] \in Activations
        BY <1>2, <1>3, <2>2, ElementOfSeq
      <4> QED BY <4>1 DEF Activations
    <3> HIDE DEF rest, a, r, s
    <3>3. \A i \in 1..(Len(s) - 2) : r[i] = s[i]
      BY <1>1, <1>2, <3>1
    <3>4. r[Len(r)].at = "mark"
      <4>1. Len(r) \in 1..Len(rest) /\ Len(r) = Len(rest)
        BY <1>3, <2>2, <3>1
      <4>2. r[Len(r)] = a
        BY <3>1, <4>1
      <4> QED BY <3>2, <4>2
    <3> QED BY <1>2, <3>1, <3>3, <3>4
  <2> QED BY <2>1, <2>2
<1>6. Nested(r)
  BY <1>1, <1>5 DEF Nested
<1>7. OthersKept(t) /\ calls' \in [Threads -> Seq(Activations)]
  BY <1>5 DEF Return, CallsOK, OthersKept
<1>8. CallsOK'
  BY <1>6, <1>7 DEF CallsOK, OthersKept
<1>9. D(t)' = D(t) - 1 /\ (D(t) > 1 => Top(t)'.at = "mark")
  BY <1>5 DEF D, Top
<1>10. D(t) \in Nat \ {0}
  BY <1>1 DEF D
<1>11. Place(t)' = IF D(t) = 1 THEN "idle" ELSE "mark"
  <2>1. CASE D(t) = 1
    BY <1>8, <1>9, <2>1, MeasuresAfter
  <2>2. CASE D(t) # 1
    BY <1>8, <1>9, <1>10, <2>2, MeasuresAfter
  <2> QED BY <2>1, <2>2
<1> QED BY <1>7, <1>8, <1>9, <1>11

\* It calls, and the new activation is at its beginning.
LEMMA CallShape ==
    ASSUME CallsOK, NEW t \in Threads, D(t) > 0, NEW key \in Keys, Call(t, key)
    PROVE  /\ CallsOK' /\ OthersKept(t)
           /\ D(t)' = D(t) + 1 /\ Place(t)' = "open"
<1> DEFINE s == calls[t]
           r == calls'[t]
           c == [Top(t) EXCEPT !.at = "calling", !.next = "redraw"]
           e == [s EXCEPT ![Len(s)] = c]
           a == Activation("next", key)
<1>1. s \in Seq(Activations) /\ Nested(s) /\ Len(s) \in Nat \ {0} /\ Len(s) \in 1..Len(s)
  BY Measures DEF CallsOK, D
<1>2. c \in Activations /\ c.at = "calling"
  BY Measures DEF Activations, Places, Inside, Keys
<1>3. a \in Activations /\ a.at = "open"
  BY DEF Activation, Activations, Places, Pointers, Keys
<1>4. /\ e \in Seq(Activations) /\ Len(e) = Len(s)
      /\ \A i \in 1..Len(s) : e[i] = IF i = Len(s) THEN c ELSE s[i]
  BY <1>1, <1>2, ExceptSeq
<1>5. r = Append(e, a) /\ OthersKept(t)
  BY DEF Call, CallsOK, OthersKept
<1>6. /\ r \in Seq(Activations) /\ Len(r) = Len(s) + 1
      /\ \A i \in 1..Len(s) : r[i] = e[i]
      /\ r[Len(s) + 1] = a
  BY <1>3, <1>4, <1>5, AppendProperties
<1>7. Nested(r)
  <2> SUFFICES ASSUME NEW i \in 1..Len(s)  PROVE r[i].at = "calling"
    BY <1>1, <1>6 DEF Nested
  <2>1. r[i] = IF i = Len(s) THEN c ELSE s[i]
    BY <1>4, <1>6
  <2> QED BY <1>1, <1>2, <2>1 DEF Nested
<1>8. calls' \in [Threads -> Seq(Activations)]
  BY <1>6 DEF Call, CallsOK
<1>9. CallsOK'
  BY <1>5, <1>7, <1>8 DEF CallsOK, OthersKept
<1>10. D(t)' = D(t) + 1 /\ Top(t)' = a
  BY <1>6 DEF D, Top
<1> QED BY <1>1, <1>3, <1>5, <1>9, <1>10, MeasuresAfter DEF D

\* A loop calls.
LEMMA BeginsShape ==
    ASSUME CallsOK, NEW t \in Threads, NEW arg \in Pointers, NEW key \in Keys, Begins(t, arg, key)
    PROVE  /\ CallsOK' /\ OthersKept(t)
           /\ D(t)' = 1 /\ Place(t)' = "open"
<1> DEFINE a == Activation(arg, key)
<1>1. a \in Activations /\ a.at = "open"
  BY DEF Activation, Activations, Places, Keys
<1>2. calls'[t] = <<a>> /\ OthersKept(t) /\ calls' \in [Threads -> Seq(Activations)]
  BY <1>1 DEF Begins, CallsOK, OthersKept
<1>3. Len(<<a>>) = 1 /\ <<a>>[1] = a
  OBVIOUS
<1>4. Nested(<<a>>)
  BY <1>3 DEF Nested
<1>5. CallsOK' /\ D(t)' = 1 /\ Top(t)' = a
  BY <1>2, <1>3, <1>4 DEF CallsOK, OthersKept, D, Top
<1> QED BY <1>1, <1>2, <1>5, MeasuresAfter

-----------------------------------------------------------------------------
(* What each action does to the activations. *)

Moves(t, p, d, q) ==
    /\ D(t) > 0 /\ Place(t) = p
    /\ CallsOK' /\ OthersKept(t)
    /\ D(t)' = d /\ Place(t)' = q

Goes(t, p, q) == Moves(t, p, D(t), q)
Returns(t, p) == Moves(t, p, D(t) - 1, IF D(t) = 1 THEN "idle" ELSE "mark")
Calls(t) == Moves(t, "null", D(t) + 1, "open")

\* Each action moves the activation on top from one place to another, or pushes or
\* pops one.
LEMMA Shapes ==
    ASSUME TypeOK, CallsOK, NEW t \in Threads
    PROVE  /\ Closed(t) => Returns(t, "open")
           /\ Busy(t) => Goes(t, "open", "defer")
           /\ Free(t) => Goes(t, "open", "next")
           /\ Defer(t) => Returns(t, "defer")
           /\ TestNext(t) => Goes(t, "next", IF dev_next = "nullptr" THEN "mark" ELSE "copy")
           /\ CopyNext(t) =>
                  Goes(t, "copy", "null") \/ (UNCHANGED calls /\ At(t, "copy") /\ dev_next = "nullptr")
           /\ CallNext(t) => Calls(t)
           /\ Mark(t) => \E q \in (Keys \ {"redraw"}) \cup {"draw"} : Goes(t, "mark", q)
           /\ Tilde(t) => Goes(t, "~", "draw")
           /\ Backspace(t) => Goes(t, "backspace", "draw")
           /\ Full(t) => Returns(t, "letter")
           /\ Letter(t) => Goes(t, "letter", "draw")
           /\ Enter(t) => Goes(t, "enter", "draw") \/ (line # 0 /\ Goes(t, "enter", "run"))
           /\ RunCommand(t) => Goes(t, "run", "draw")
           /\ Draw(t) => Returns(t, "draw")
<1> USE DEF Moves
<1>0. ASSUME NEW p, At(t, p)
      PROVE  D(t) > 0 /\ Place(t) = p /\ Top(t) \in Activations
  BY <1>0, Measures
<1>1. ASSUME NEW p, NEW q \in Places \ {"copy", "null"}, At(t, p), Goto(t, q)
      PROVE  Goes(t, p, q)
  BY <1>0, <1>1, GotoShape DEF Goes
<1>2. ASSUME NEW p, At(t, p), Return(t)
      PROVE  Returns(t, p)
  BY <1>0, <1>2, ReturnShape DEF Returns
<1>3. ASSUME NEW p, NEW a \in Activations, At(t, p), Becomes(t, a)
      PROVE  Goes(t, p, a.at)
  BY <1>0, <1>3, BecomesShape DEF Goes
<1> USE DEF Places, Inside, Keys
<1>4. Closed(t) => Returns(t, "open")
  BY <1>2 DEF Closed
<1>5. Busy(t) => Goes(t, "open", "defer")
  BY <1>1 DEF Busy
<1>6. Free(t) => Goes(t, "open", "next")
  BY <1>1 DEF Free
<1>7. Defer(t) => Returns(t, "defer")
  BY <1>2 DEF Defer
<1>8. TestNext(t) => Goes(t, "next", IF dev_next = "nullptr" THEN "mark" ELSE "copy")
  <2> SUFFICES ASSUME TestNext(t)
               PROVE  Goes(t, "next", IF dev_next = "nullptr" THEN "mark" ELSE "copy")
    OBVIOUS
  <2>1. CASE dev_next = "nullptr"
    BY <1>1, <2>1 DEF TestNext
  <2>2. CASE dev_next # "nullptr"
    <3> DEFINE a == [Top(t) EXCEPT !.at = "copy", !.next = dev_next]
    <3>1. At(t, "next") /\ Becomes(t, a)
      BY <2>2 DEF TestNext
    <3>2. a \in Activations /\ a.at = "copy"
      BY <1>0, <2>2, <3>1 DEF Activations, TypeOK
    <3> QED BY <1>3, <2>2, <3>1, <3>2
  <2> QED BY <2>1, <2>2
<1>9. CopyNext(t) =>
          Goes(t, "copy", "null") \/ (UNCHANGED calls /\ At(t, "copy") /\ dev_next = "nullptr")
  <2> SUFFICES ASSUME CopyNext(t), ~(UNCHANGED calls /\ At(t, "copy") /\ dev_next = "nullptr")
               PROVE  Goes(t, "copy", "null")
    OBVIOUS
  <2>1. PICK p \in {Top(t).next, dev_next} \ {"nullptr"} : \E k \in Contents(p) :
            Becomes(t, [Top(t) EXCEPT !.at = "null", !.next = k])
    BY DEF CopyNext
  <2>2. PICK k \in Contents(p) : Becomes(t, [Top(t) EXCEPT !.at = "null", !.next = k])
    BY <2>1
  <2>3. At(t, "copy") /\ Top(t) \in Activations
    BY <1>0 DEF CopyNext
  <2> DEFINE a == [Top(t) EXCEPT !.at = "null", !.next = k]
  <2>4. k \in Keys
    BY <2>1, <2>2, <2>3 DEF Contents, TypeOK, Activations, Pointers, At
  <2>5. a \in Activations /\ a.at = "null"
    BY <2>3, <2>4 DEF Activations
  <2> QED BY <1>3, <2>2, <2>3, <2>5
<1>10. CallNext(t) => Calls(t)
  <2> SUFFICES ASSUME CallNext(t)  PROVE Calls(t)
    OBVIOUS
  <2>1. At(t, "null") /\ Call(t, Top(t).next) /\ Top(t) \in Activations
    BY <1>0 DEF CallNext
  <2>2. Top(t).next \in Keys
    BY <2>1 DEF Activations, At
  <2> QED BY <1>0, <2>1, <2>2, CallShape DEF Calls
<1>11. Mark(t) => \E q \in (Keys \ {"redraw"}) \cup {"draw"} : Goes(t, "mark", q)
  <2> SUFFICES ASSUME Mark(t)
               PROVE  \E q \in (Keys \ {"redraw"}) \cup {"draw"} : Goes(t, "mark", q)
    OBVIOUS
  <2> DEFINE q == IF Top(t).key = "redraw" THEN "draw" ELSE Top(t).key
             a == [Top(t) EXCEPT !.at = q, !.key = "redraw"]
  <2>1. At(t, "mark") /\ Becomes(t, a) /\ Top(t) \in Activations
    BY <1>0 DEF Mark
  <2>2. q \in (Keys \ {"redraw"}) \cup {"draw"}
    BY <2>1 DEF Activations
  <2>3. a \in Activations /\ a.at = q
    BY <2>1, <2>2 DEF Activations
  <2> HIDE DEF q, a
  <2> QED BY <1>3, <2>1, <2>2, <2>3
<1>12. Tilde(t) => Goes(t, "~", "draw")
  BY <1>1 DEF Tilde
<1>13. Backspace(t) => Goes(t, "backspace", "draw")
  BY <1>1 DEF Backspace
<1>14. Full(t) => Returns(t, "letter")
  BY <1>2 DEF Full
<1>15. Letter(t) => Goes(t, "letter", "draw")
  BY <1>1 DEF Letter
<1>16. Enter(t) => Goes(t, "enter", "draw") \/ (line # 0 /\ Goes(t, "enter", "run"))
  BY <1>1 DEF Enter
<1>17. RunCommand(t) => Goes(t, "run", "draw")
  BY <1>1 DEF RunCommand
<1>18. Draw(t) => Returns(t, "draw")
  BY <1>2 DEF Draw
<1> QED BY <1>4, <1>5, <1>6, <1>7, <1>8, <1>9, <1>10, <1>11, <1>12, <1>13, <1>14, <1>15,
           <1>16, <1>17, <1>18

-----------------------------------------------------------------------------
(* Type correctness. *)

TypeInv == TypeOK /\ CallsOK

\* A step of gmeng_dev_console keeps the types.
LEMMA ConsoleTyped ==
    ASSUME TypeInv, NEW t \in Threads, gmeng_dev_console(t)
    PROVE  TypeInv'
<1> USE DEF TypeInv
<1>1. ASSUME CallsOK', UNCHANGED <<open, deferral, text, info, loop>>,
             drawn' \in BOOLEAN, over' \in BOOLEAN, gaveUp' \in BOOLEAN
      PROVE  TypeInv'
  BY <1>1 DEF TypeOK, CallsOK, open, deferral, text
<1>2. ASSUME UNCHANGED <<calls, open, deferral, text, info, loop, drawn, gaveUp>>, over' \in BOOLEAN
      PROVE  TypeInv'
  BY <1>2 DEF TypeOK, CallsOK, Nested, open, deferral, text
<1> USE Shapes DEF Goes, Returns, Calls, Moves
<1>3. CASE Closed(t)
  BY <1>1, <1>3 DEF Closed, TypeOK, status
<1>4. CASE Busy(t)
  BY <1>1, <1>4 DEF Busy, TypeOK, status
<1>5. CASE Free(t)
  BY <1>1, <1>5 DEF Free, TypeOK, status
<1>6. CASE Defer(t)
  <2>1. CallsOK' /\ dev_next' \in Pointers
    BY <1>6, Measures DEF Defer, At, Activations
  <2> QED BY <1>6, <2>1 DEF Defer, TypeOK, CallsOK, status, open, text
<1>7. CASE TestNext(t)
  BY <1>1, <1>7 DEF TestNext, TypeOK, status
<1>8. CASE CopyNext(t)
  <2>1. CASE CallsOK'
    BY <1>1, <1>8, <2>1 DEF CopyNext, TypeOK
  <2>2. CASE UNCHANGED calls
    BY <1>2, <1>8, <2>2 DEF CopyNext, TypeOK
  <2> QED BY <1>8, <2>1, <2>2
<1>9. CASE CallNext(t)
  BY <1>9 DEF CallNext, TypeOK, CallsOK, status, open, text
<1>10. CASE Mark(t)
  BY <1>10 DEF Mark, TypeOK, CallsOK, status, text
<1>11. CASE Tilde(t)
  BY <1>11 DEF Tilde, TypeOK, CallsOK, status, deferral, text
<1>12. CASE Backspace(t)
  <2>1. line' \in Nat \cup {Mixed}
    BY <1>12 DEF Backspace, LineBecomes, TypeOK, Mixed
  <2> QED BY <1>12, <2>1 DEF Backspace, TypeOK, CallsOK, status, open, deferral
<1>13. CASE Full(t)
  BY <1>1, <1>13 DEF Full, TypeOK
<1>14. CASE Letter(t)
  <2>1. line' \in Nat \cup {Mixed}
    BY <1>14 DEF Letter, LineBecomes, TypeOK, Mixed
  <2> QED BY <1>14, <2>1 DEF Letter, TypeOK, CallsOK, status, open, deferral
<1>15. CASE Enter(t)
  <2>1. line' \in Nat \cup {Mixed}
    BY <1>15 DEF Enter, LineBecomes, TypeOK, Mixed
  <2> QED BY <1>15, <2>1 DEF Enter, TypeOK, CallsOK, status, open, deferral
<1>16. CASE RunCommand(t)
  <2>1. CallsOK' /\ UNCHANGED <<open, deferral, line, info, loop, drawn, gaveUp>>
    BY <1>16 DEF RunCommand
  <2>2. over' \in BOOLEAN /\ width' \in Widths
    BY <1>16 DEF RunCommand, TypeOK
  <2> HIDE Shapes
  <2> QED BY <2>1, <2>2 DEF TypeOK, CallsOK, open, deferral
<1>17. CASE CannotDraw(t)
  BY <1>2, <1>17 DEF CannotDraw, TypeOK
<1>18. CASE Draw(t)
  BY <1>18 DEF Draw, TypeOK, CallsOK, open, text
<1> QED BY <1>3, <1>4, <1>5, <1>6, <1>7, <1>8, <1>9, <1>10, <1>11, <1>12, <1>13, <1>14, <1>15,
           <1>16, <1>17, <1>18 DEF gmeng_dev_console

\* What the loops do to the activations: they begin one, or none.
LEMMA LoopShapes ==
    ASSUME TypeInv
    PROVE  /\ Follow => Begins(Main, "info", info)
           /\ Route => Begins(Main, "info", info) \/ UNCHANGED calls
           /\ Redraw => Begins(Handler, "NO_EVENT_INFO", "redraw")
           /\ \A arg \in Pointers, key \in Keys, t \in Threads :
                  Begins(t, arg, key) =>
                      CallsOK' /\ OthersKept(t) /\ D(t)' = 1 /\ Place(t)' = "open"
  BY BeginsShape DEF TypeInv, Follow, Route, Redraw

\* Every step keeps the types, and the order of the activations.
LEMMA Typed == Spec => []TypeInv
<1>1. Init => TypeInv
  <2> SUFFICES ASSUME Init  PROVE TypeInv
    OBVIOUS
  <2>1. CallsOK
    <3>1. << >> \in Seq(Activations) /\ Len(<< >>) = 0
      BY EmptySeq
    <3>2. \A t \in Threads : calls[t] = << >>
      BY DEF Init
    <3>3. calls \in [Threads -> Seq(Activations)]
      BY <3>1 DEF Init
    <3> QED BY <3>1, <3>2, <3>3 DEF CallsOK, Nested
  <2>2. loop \in [Threads -> {"read", "toggle", "follow", "clear", "route",
                               "top", "closed", "refresh"}]
    BY DEF Init
  <2>3. line \in Nat \cup {Mixed}
    BY DEF Init
  <2> QED BY <2>1, <2>2, <2>3 DEF Init, TypeInv, TypeOK, CallsOK, Pointers, Keys
<1>2. TypeInv /\ [Next]_vars => TypeInv'
  <2> SUFFICES ASSUME TypeInv, [Next]_vars  PROVE TypeInv'
    OBVIOUS
  <2>1. Main \in Threads /\ Handler \in Threads
    BY DEF Threads
  <2>2. info \in Keys /\ "redraw" \in Keys /\ "info" \in Pointers /\ "NO_EVENT_INFO" \in Pointers
    BY DEF TypeInv, TypeOK, Keys, Pointers
  <2>3. UNCHANGED calls => CallsOK'
    BY DEF TypeInv, CallsOK, Nested
  <2> USE DEF TypeInv, TypeOK, LoopGoto, status
  <2>4. CASE \E t \in Threads : gmeng_dev_console(t)
    BY <2>4, ConsoleTyped
  <2>5. CASE \E k \in Keys : ReadInput(k) \/ ReadFails(k)
    BY <2>1, <2>3, <2>5 DEF ReadInput, ReadFails, open, deferral, text
  <2>12. CASE Toggle \/ ClearScreen
    BY <2>1, <2>3, <2>12 DEF Toggle, ClearScreen, open, deferral, text
  <2>6. CASE Follow
    <3>1. CallsOK'
      BY <2>1, <2>2, <2>6, LoopShapes
    <3> QED BY <2>1, <2>6, <3>1 DEF Follow, CallsOK, deferral, text
  <2>7. CASE Route
    <3>1. CallsOK'
      BY <2>1, <2>2, <2>3, <2>7, LoopShapes
    <3> QED BY <2>1, <2>7, <3>1 DEF Route, CallsOK, open, deferral, text
  <2>8. CASE Redraw
    <3>1. CallsOK'
      BY <2>1, <2>2, <2>8, LoopShapes
    <3> QED BY <2>1, <2>8, <3>1 DEF Redraw, CallsOK, open, deferral, text
  <2>9. CASE NotOpen \/ RunRefresh
    BY <2>1, <2>3, <2>9 DEF NotOpen, RunRefresh, open, deferral, text
  <2>10. CASE TestChange
    BY <2>1, <2>3, <2>10 DEF TestChange, deferral, text
  <2>11. CASE UNCHANGED vars
    BY <2>3, <2>11 DEF vars, open, deferral, text
  <2> QED BY <2>1, <2>4, <2>5, <2>6, <2>7, <2>8, <2>9, <2>10, <2>11, <2>12
       DEF Next, MainStep, HandlerStep
<1> QED BY <1>1, <1>2, PTL DEF Spec

\* The variables keep their types, for any widths.
THEOREM TypeCorrect == Spec => []TypeOK
<1>1. TypeInv => TypeOK
  BY DEF TypeInv
<1> QED BY <1>1, Typed, PTL

\* A thread is Main or Handler, and keeps D and Place when the other one steps.
LEMMA TheOther ==
    ASSUME NEW t \in Threads
    PROVE  /\ Other(t) \in Threads \ {t} /\ Other(Other(t)) = t
           /\ Threads = {t, Other(t)}
           /\ OthersKept(t) =>
                  D(Other(t))' = D(Other(t)) /\ Place(Other(t))' = Place(Other(t))
<1>1. Other(t) \in Threads \ {t} /\ Other(Other(t)) = t /\ Threads = {t, Other(t)}
  BY ConstantsAssumption DEF Threads, Other
<1> QED BY <1>1 DEF OthersKept, D, Place, Top

-----------------------------------------------------------------------------
(* The line. *)

\* A command runs with an empty line: that is why it may change the width.
LineInv ==
    /\ LineFits
    /\ \A t \in Threads : Place(t) = "run" => line <= 0

\* A step of gmeng_dev_console keeps the line within the width.
LEMMA ConsoleFits ==
    ASSUME TypeInv, LineInv, NEW t \in Threads, gmeng_dev_console(t)
    PROVE  LineInv'
<1> DEFINE u == Other(t)
<1>1. /\ line \in Int /\ Limit \in Nat /\ line <= Limit
      /\ u \in Threads \ {t} /\ Threads = {t, u}
      /\ OthersKept(t) => Place(u)' = Place(u)
  BY TheOther, ConstantsAssumption DEF TypeInv, TypeOK, Mixed, Limit, LineInv, LineFits
<1>2. Place(u) = "run" => IsInside(u)
  BY <1>1, Measures DEF Inside, TypeInv
<1> HIDE DEF u
<1>3. ASSUME OthersKept(t), Place(t)' # "run", UNCHANGED width,
             line' \in Int, line' <= Limit, line' = line \/ line' <= 0 \/ ~IsInside(u)
      PROVE  LineInv'
  <2>1. LineFits'
    BY <1>3 DEF LineFits, Limit
  <2> QED BY <1>1, <1>2, <1>3, <2>1 DEF LineInv
<1>4. ASSUME UNCHANGED <<calls, text>>  PROVE LineInv'
  BY <1>4 DEF LineInv, LineFits, Limit, Place, Top, text
<1>5. ASSUME NEW n \in Int, n <= Limit, LineBecomes(t, n)
      PROVE  /\ line' \in Int /\ line' <= Limit
             /\ line' = Mixed \/ (line' = n /\ ~IsInside(u))
  BY <1>1, <1>5 DEF LineBecomes, Mixed, u
<1> USE Shapes DEF Goes, Returns, Calls, Moves, TypeInv
<1>6. CASE Closed(t) \/ Busy(t) \/ Free(t) \/ Defer(t) \/ TestNext(t) \/ CallNext(t) \/ Mark(t)
           \/ Tilde(t) \/ Full(t) \/ Draw(t)
  <2>1. OthersKept(t) /\ Place(t)' # "run"
    BY <1>6 DEF Keys
  <2>2. UNCHANGED text
    BY <1>6 DEF Closed, Busy, Free, Defer, TestNext, CallNext, Mark, Tilde, Full, Draw
  <2> QED BY <1>1, <1>3, <2>1, <2>2 DEF text
<1>7. CASE CopyNext(t)
  <2>1. CASE UNCHANGED calls
    BY <1>4, <1>7, <2>1 DEF CopyNext
  <2>2. CASE Goes(t, "copy", "null")
    BY <1>1, <1>3, <1>7, <2>2 DEF CopyNext, text
  <2> QED BY <1>7, <2>1, <2>2
<1>8. CASE Backspace(t)
  <2> DEFINE n == IF line > 0 THEN line - 1 ELSE line
  <2>1. n \in Int /\ n <= Limit
    BY <1>1
  <2>2. LineBecomes(t, n) /\ UNCHANGED width
    BY <1>8 DEF Backspace
  <2> HIDE DEF n
  <2> QED BY <1>3, <1>5, <1>8, <2>1, <2>2 DEF Mixed
<1>9. CASE Letter(t)
  <2> DEFINE n == IF line = Mixed THEN Mixed ELSE line + 1
  <2>1. n \in Int /\ n <= Limit
    BY <1>1, <1>9 DEF Letter, Room, Mixed
  <2>2. LineBecomes(t, n) /\ UNCHANGED width
    BY <1>9 DEF Letter
  <2> HIDE DEF n
  <2> QED BY <1>3, <1>5, <1>9, <2>1, <2>2 DEF Mixed
<1>10. CASE Enter(t)
  <2>1. LineBecomes(t, 0) /\ UNCHANGED width /\ OthersKept(t)
    BY <1>10 DEF Enter
  <2>2. line' \in Int /\ line' <= Limit /\ line' <= 0
    BY <1>1, <1>5, <2>1 DEF Mixed
  <2>3. LineFits'
    BY <2>1, <2>2 DEF LineFits, Limit
  <2> QED BY <2>2, <2>3 DEF LineInv
<1>11. CASE RunCommand(t)
  <2>1. /\ OthersKept(t) /\ Place(t)' = "draw" /\ line' = line /\ line <= 0
        /\ width' \in Widths
    BY <1>11 DEF RunCommand, LineInv, TypeOK
  <2>2. Limit' \in Nat
    BY <2>1, ConstantsAssumption DEF Limit
  <2>3. LineFits'
    BY <1>1, <2>1, <2>2 DEF LineFits
  <2> QED BY <1>1, <2>1, <2>3 DEF LineInv
<1>12. CASE CannotDraw(t)
  BY <1>4, <1>12 DEF CannotDraw
<1> QED BY <1>6, <1>7, <1>8, <1>9, <1>10, <1>11, <1>12 DEF gmeng_dev_console

\* The line fits the width, for any widths that the command sets.
THEOREM LineFitsCorrect == Spec => []LineFits
<1>1. Init => LineInv
  <2> SUFFICES ASSUME Init  PROVE LineInv
    OBVIOUS
  <2>1. line = 0 /\ Limit \in Nat /\ \A t \in Threads : Place(t) = "idle"
    BY ConstantsAssumption DEF Init, Limit, Place
  <2> QED BY <2>1 DEF LineInv, LineFits
<1>2. TypeInv /\ LineInv /\ [Next]_vars => LineInv'
  <2> SUFFICES ASSUME TypeInv, LineInv, [Next]_vars, ~\E t \in Threads : gmeng_dev_console(t)
               PROVE  LineInv'
    BY ConsoleFits
  <2>1. UNCHANGED text
    BY DEF Next, MainStep, HandlerStep, Threads, vars, ReadInput, ReadFails, Toggle, Follow,
           ClearScreen, Route, Redraw, NotOpen, TestChange, RunRefresh
  <2>2. LineFits'
    BY <2>1 DEF LineInv, LineFits, Limit, text
  <2>3. ASSUME NEW t \in Threads, OthersKept(t), Place(t)' = "open"
        PROVE  LineInv'
    BY <2>1, <2>2, <2>3, TheOther DEF LineInv, text
  <2>4. ASSUME UNCHANGED calls  PROVE LineInv'
    BY <2>1, <2>2, <2>4 DEF LineInv, Place, Top, text
  <2>5. Main \in Threads /\ Handler \in Threads
    BY DEF Threads
  <2>6. info \in Keys /\ "redraw" \in Keys /\ "info" \in Pointers /\ "NO_EVENT_INFO" \in Pointers
    BY DEF TypeInv, TypeOK, Keys, Pointers
  <2>7. CASE Follow \/ Route \/ Redraw
    BY <2>3, <2>4, <2>5, <2>6, <2>7, LoopShapes
  <2>8. CASE ~(Follow \/ Route \/ Redraw)
    BY <2>4, <2>5, <2>8 DEF Next, MainStep, HandlerStep, vars, ReadInput, ReadFails, Toggle,
                            ClearScreen, NotOpen, TestChange, RunRefresh
  <2> QED BY <2>7, <2>8
<1>3. LineInv => LineFits
  BY DEF LineInv
<1> QED BY <1>1, <1>2, <1>3, Typed, PTL DEF Spec

-----------------------------------------------------------------------------
(* The bound on the nesting. *)

\* The thread is past the test of already_writing and has not set it yet, or has
\* made a call in between that is on its way to that test.
Passed(t) ==
    Place(t) \in {"next", "copy", "null"} \/ (D(t) > 1 /\ Place(t) \in {"open", "defer"})

\* Nobody will clear already_writing for u: it can put off no further call of its own.
Stuck(u) == already_writing /\ D(u) <= 1 /\ Place(u) \notin Inside

\* The calls that t may still have to make: one that is put off, one that the other
\* thread is about to put off.
Pending(t) == IF dev_next # "nullptr" \/ Place(t) \in {"copy", "null"} THEN 1 ELSE 0
Coming(u) == IF Place(u) = "defer" THEN 1 ELSE 0

NestOK(t, u) ==
    /\ D(t) <= 4
    /\ Passed(t) /\ ~Stuck(u) => D(t) + Pending(t) + Coming(u) <= 3
    /\ Passed(t) /\ Stuck(u) /\ Place(t) \in {"next", "copy", "null"} => D(t) <= 3

\* Two threads that have both passed have nothing to be kept out by.
BothPassed(t, u) == Passed(t) /\ Passed(u) => ~already_writing

NestInv == \A t \in Threads : NestOK(t, Other(t)) /\ BothPassed(t, Other(t))

\* It depends on the activations and on what puts calls off.
LEMMA SameNesting ==
    ASSUME NestInv, UNCHANGED <<calls, deferral>>
    PROVE  NestInv'
<1> SUFFICES ASSUME NEW t \in Threads  PROVE NestOK(t, Other(t))' /\ BothPassed(t, Other(t))'
  BY DEF NestInv
<1>1. \A v \in Threads : D(v)' = D(v) /\ Place(v)' = Place(v)
  BY DEF D, Place, Top
<1>2. Other(t) \in Threads /\ NestOK(t, Other(t)) /\ BothPassed(t, Other(t))
  BY TheOther DEF NestInv
<1> DEFINE u == Other(t)
<1> HIDE DEF u
<1>3. NestOK(t, u)' /\ BothPassed(t, u)'
  BY <1>1, <1>2 DEF NestOK, BothPassed, Passed, Stuck, Pending, Coming, deferral, u
<1> QED BY <1>3 DEF u

\* A step of gmeng_dev_console keeps the bound.
LEMMA ConsoleNests ==
    ASSUME TypeInv, NestInv, NEW t \in Threads, gmeng_dev_console(t)
    PROVE  NestInv'
<1> DEFINE u == Other(t)
<1>1. /\ u \in Threads /\ Threads = {t, u} /\ Other(u) = t
      /\ OthersKept(t) => D(u)' = D(u) /\ Place(u)' = Place(u)
      /\ D(t) \in Nat /\ D(u) \in Nat
      /\ D(t) = 0 <=> Place(t) = "idle"
      /\ NestOK(t, u) /\ NestOK(u, t) /\ BothPassed(t, u)
  BY TheOther, Measures DEF TypeInv, NestInv
<1>2. ASSUME NestOK(t, u)', NestOK(u, t)', BothPassed(t, u)'
      PROVE  NestInv'
  BY <1>1, <1>2 DEF NestInv, BothPassed
<1>3. ASSUME UNCHANGED <<calls, deferral>>  PROVE NestInv'
  BY <1>3, SameNesting
<1> HIDE DEF u
<1> USE Shapes DEF Goes, Returns, Calls, Moves, TypeInv, Passed, Stuck, Pending, Coming, NestOK,
                   BothPassed
<1>4. CASE Closed(t)
  <2>1. Returns(t, "open") /\ UNCHANGED deferral
    BY <1>4 DEF Closed
  <2> QED BY <1>1, <1>2, <2>1 DEF deferral, Inside, Keys
<1>5. CASE Busy(t)
  <2>1. Goes(t, "open", "defer") /\ UNCHANGED deferral /\ already_writing
    BY <1>5 DEF Busy
  <2> QED BY <1>1, <1>2, <2>1 DEF deferral, Inside, Keys
<1>6. CASE Free(t)
  <2>1. Goes(t, "open", "next") /\ UNCHANGED deferral /\ ~already_writing
    BY <1>6 DEF Free
  <2> QED BY <1>1, <1>2, <2>1 DEF deferral, Inside, Keys
<1>7. CASE Defer(t)
  <2>1. Returns(t, "defer") /\ UNCHANGED already_writing
    BY <1>7 DEF Defer
  <2> QED BY <1>1, <1>2, <2>1 DEF Inside, Keys
<1>8. CASE TestNext(t)
  <2>1. /\ Goes(t, "next", IF dev_next = "nullptr" THEN "mark" ELSE "copy")
        /\ UNCHANGED deferral
    BY <1>8 DEF TestNext
  <2> QED BY <1>1, <1>2, <2>1 DEF deferral, Inside, Keys
<1>9. CASE CopyNext(t)
  <2>1. CASE UNCHANGED calls
    BY <1>3, <1>9, <2>1 DEF CopyNext
  <2>2. CASE Goes(t, "copy", "null")
    <3>1. UNCHANGED deferral
      BY <1>9 DEF CopyNext
    <3> QED BY <1>1, <1>2, <2>2, <3>1 DEF deferral, Inside, Keys
  <2> QED BY <1>9, <2>1, <2>2
<1>10. CASE CallNext(t)
  <2>1. Calls(t) /\ UNCHANGED already_writing /\ dev_next' = "nullptr"
    BY <1>10 DEF CallNext
  <2> QED BY <1>1, <1>2, <2>1 DEF Inside, Keys
<1>11. CASE Mark(t)
  <2>1. PICK q \in (Keys \ {"redraw"}) \cup {"draw"} : Goes(t, "mark", q)
    BY <1>11
  <2>2. UNCHANGED dev_next /\ already_writing'
    BY <1>11 DEF Mark
  <2> QED BY <1>1, <1>2, <2>1, <2>2 DEF Inside, Keys
<1>12. CASE Tilde(t) \/ Backspace(t) \/ Letter(t) \/ Enter(t) \/ RunCommand(t)
  <2>1. PICK p \in {"~", "backspace", "letter", "enter", "run"}, q \in {"draw", "run"} :
            Goes(t, p, q)
    BY <1>12
  <2>2. UNCHANGED deferral
    BY <1>12 DEF Tilde, Backspace, Letter, Enter, RunCommand
  <2> QED BY <1>1, <1>2, <2>1, <2>2 DEF deferral, Inside, Keys
<1>13. CASE Full(t)
  <2>1. Returns(t, "letter") /\ UNCHANGED deferral
    BY <1>13 DEF Full
  <2> QED BY <1>1, <1>2, <2>1 DEF deferral, Inside, Keys
<1>14. CASE CannotDraw(t)
  BY <1>3, <1>14 DEF CannotDraw
<1>15. CASE Draw(t)
  <2>1. Returns(t, "draw") /\ UNCHANGED dev_next /\ ~already_writing'
    BY <1>15 DEF Draw
  <2> QED BY <1>1, <1>2, <2>1 DEF Inside, Keys
<1> QED BY <1>4, <1>5, <1>6, <1>7, <1>8, <1>9, <1>10, <1>11, <1>12, <1>13, <1>14, <1>15
        DEF gmeng_dev_console

\* No thread is ever in more than four calls of gmeng_dev_console at once.
THEOREM NestingBoundCorrect == Spec => []NestingBound
<1>1. Init => NestInv
  <2> SUFFICES ASSUME Init  PROVE NestInv
    OBVIOUS
  <2>1. \A t \in Threads : D(t) = 0 /\ Place(t) = "idle"
    BY EmptySeq DEF Init, D, Place
  <2> QED BY <2>1, TheOther DEF NestInv, NestOK, BothPassed, Passed
<1>2. TypeInv /\ NestInv /\ [Next]_vars => NestInv'
  <2> SUFFICES ASSUME TypeInv, NestInv, [Next]_vars, ~\E t \in Threads : gmeng_dev_console(t)
               PROVE  NestInv'
    BY ConsoleNests
  <2>1. UNCHANGED deferral
    BY DEF Next, MainStep, HandlerStep, Threads, vars, ReadInput, ReadFails, Toggle, Follow,
           ClearScreen, Route, Redraw, NotOpen, TestChange, RunRefresh
  <2>2. ASSUME NEW t \in Threads, OthersKept(t), D(t) = 0, D(t)' = 1, Place(t)' = "open"
        PROVE  NestInv'
    <3> DEFINE u == Other(t)
    <3>1. /\ u \in Threads /\ Threads = {t, u} /\ Other(u) = t
          /\ Other(t) = u
          /\ D(u)' = D(u) /\ Place(u)' = Place(u)
          /\ D(t) \in Nat /\ D(u) \in Nat
          /\ D(t) = 0 <=> Place(t) = "idle"
          /\ NestOK(t, u) /\ NestOK(u, t) /\ BothPassed(t, u)
      BY <2>2, TheOther, Measures DEF TypeInv, NestInv
    <3> HIDE DEF u
    <3>2. NestOK(t, u)' /\ NestOK(u, t)' /\ BothPassed(t, u)'
      BY <2>1, <2>2, <3>1 DEF NestOK, BothPassed, Passed, Stuck, Pending, Coming, deferral,
                              Inside, Keys
    <3> QED BY <3>1, <3>2 DEF NestInv, BothPassed
  <2>3. ASSUME UNCHANGED calls  PROVE NestInv'
    BY <2>1, <2>3, SameNesting
  <2>4. Main \in Threads /\ Handler \in Threads
    BY DEF Threads
  <2>5. info \in Keys /\ "redraw" \in Keys /\ "info" \in Pointers /\ "NO_EVENT_INFO" \in Pointers
    BY DEF TypeInv, TypeOK, Keys, Pointers
  <2>6. /\ Follow \/ Route => D(Main) = 0
        /\ Redraw => D(Handler) = 0
    BY EmptySeq DEF Follow, Route, Redraw, LoopAt, D
  <2>7. CASE Follow \/ Route \/ Redraw
    BY <2>2, <2>3, <2>4, <2>5, <2>6, <2>7, LoopShapes
  <2>8. CASE ~(Follow \/ Route \/ Redraw)
    BY <2>3, <2>4, <2>8 DEF Next, MainStep, HandlerStep, vars, ReadInput, ReadFails, Toggle,
                            ClearScreen, NotOpen, TestChange, RunRefresh
  <2> QED BY <2>7, <2>8
<1>3. NestInv => NestingBound
  BY DEF NestInv, NestOK, NestingBound, D
<1> QED BY <1>1, <1>2, <1>3, Typed, PTL DEF Spec
=============================================================================
