--------------------------- MODULE EventLoopProofs ---------------------------
(* Proofs about EventLoop, for every value of its constants. *)
EXTENDS EventLoop, FiniteSetTheorems, WellFoundedInduction, TLAPS

-----------------------------------------------------------------------------
(* What the operations on a thread's stack of activations do to it. *)

\* Replacing the innermost activation keeps the others.
LEMMA SetTopShape ==
    ASSUME TypeOK, NEW t \in Threads, stack[t] # <<>>, NEW f \in Frames, SetTop(t, f)
    PROVE  /\ stack' \in [Threads -> Seq(Frames)]
           /\ \A u \in Threads : Len(stack'[u]) = Len(stack[u])
           /\ \A u \in Threads : u # t => stack'[u] = stack[u]
           /\ stack'[t][Len(stack[t])] = f
           /\ \A d \in 1..(Len(stack[t]) - 1) : stack'[t][d] = stack[t][d]
  <1>1. stack[t] \in Seq(Frames) /\ Len(stack[t]) \in Nat \ {0}
    BY DEF TypeOK
  <1>2. stack'[t] = [stack[t] EXCEPT ![Len(stack[t])] = f]
    BY DEF SetTop, TypeOK
  <1>3. stack'[t] \in Seq(Frames) /\ Len(stack'[t]) = Len(stack[t])
    BY <1>1, <1>2
  <1>4. \A u \in Threads : u # t => stack'[u] = stack[u]
    BY DEF SetTop, TypeOK
  <1>5. stack' \in [Threads -> Seq(Frames)]
    BY <1>3 DEF SetTop, TypeOK
  <1>6. QED
    BY <1>1, <1>2, <1>3, <1>4, <1>5

\* Leaving the innermost activation keeps the others.
LEMMA PopShape ==
    ASSUME TypeOK, NEW t \in Threads, stack[t] # <<>>, Pop(t)
    PROVE  /\ stack' \in [Threads -> Seq(Frames)]
           /\ \A u \in Threads : u # t => stack'[u] = stack[u]
           /\ Len(stack'[t]) = Len(stack[t]) - 1
           /\ \A d \in 1..(Len(stack[t]) - 1) : stack'[t][d] = stack[t][d]
  <1>1. stack[t] \in Seq(Frames) /\ Len(stack[t]) \in Nat \ {0}
    BY DEF TypeOK
  <1>2. stack'[t] = SubSeq(stack[t], 1, Len(stack[t]) - 1)
    BY DEF Pop, TypeOK
  <1>3. stack'[t] \in Seq(Frames) /\ Len(stack'[t]) = Len(stack[t]) - 1
    BY <1>1, <1>2
  <1>4. stack' \in [Threads -> Seq(Frames)]
    BY <1>3 DEF Pop, TypeOK
  <1>5. QED
    BY <1>1, <1>2, <1>3, <1>4 DEF Pop, TypeOK

\* The innermost activation is a frame.
LEMMA TopType ==
    ASSUME TypeOK, NEW t \in Threads, stack[t] # <<>>
    PROVE  /\ Top(t) \in Frames
           /\ Len(stack[t]) \in Nat \ {0}
           /\ Slot(Top(t)) \in Slots
           /\ NextHook(Top(t)) \in Frames
           /\ NextHook(Top(t)).phase = "scan"
  <1>1. stack[t] \in Seq(Frames) /\ Len(stack[t]) \in Nat \ {0}
    BY DEF TypeOK
  <1>2. Top(t) \in Frames
    BY <1>1 DEF Top
  <1>3. Slot(Top(t)) \in Slots
    BY <1>2 DEF Frames, Slot, Slots
  <1>4. NextHook(Top(t)) \in Frames /\ NextHook(Top(t)).phase = "scan"
    <2> DEFINE f == Top(t)
    <2>1. f \in Frames
      BY <1>2
    <2>2. f.pos + 1 \in Nat \ {0}
      BY <2>1 DEF Frames
    <2> HIDE DEF f
    <2>3. NextHook(f) \in Frames /\ NextHook(f).phase = "scan"
      BY <2>1, <2>2 DEF Frames, NextHook
    <2>4. QED
      BY <2>3 DEF f
  <1>5. QED
    BY <1>1, <1>2, <1>3, <1>4

\* What the steps write into an activation.
LEMMA FrameUpdates ==
    ASSUME NEW f \in Frames
    PROVE  /\ [f EXCEPT !.phase = "claim"] \in Frames
           /\ [f EXCEPT !.phase = "unlock"] \in Frames
           /\ [f EXCEPT !.phase = "after"] \in Frames
           /\ [f EXCEPT !.phase = "run", !.calls = 0] \in Frames
           /\ [f EXCEPT !.list = "default", !.pos = 1] \in Frames
           /\ [f EXCEPT !.list = "default", !.pos = 1].phase = f.phase
           /\ [f EXCEPT !.phase = "after"].phase = "after"
  <1>1. 0 \in 0..MaxCalls
    BY ConstantsAssumption
  <1>2. [f EXCEPT !.phase = "run", !.calls = 0] \in Frames
    BY <1>1 DEF Frames
  <1>3. /\ [f EXCEPT !.list = "default", !.pos = 1] \in Frames
        /\ [f EXCEPT !.list = "default", !.pos = 1].phase = f.phase
    <2>1. "default" \in Lists /\ 1 \in Nat \ {0}
      BY DEF Lists
    <2>2. QED
      BY <2>1 DEF Frames
  <1>4. QED
    BY <1>2, <1>3 DEF Frames

\* A new activation is a frame, and its EventInfo an EventInfo.
LEMMA NewFrameType ==
    ASSUME TypeOK, NEW t \in Threads, NEW e \in Events,
           NEW arg \in InfoArgs \cup {Own}, Len(stack[t]) < MaxDepth,
           arg = Own => stack[t] # <<>>
    PROVE  /\ Passed(t, arg) \in Infos
           /\ NewFrame(e, Passed(t, arg)) \in Frames
  <1>1. Passed(t, arg) \in Infos
    <2>1. CASE arg = Fresh
      <3>1. Len(stack[t]) + 1 \in 1..MaxDepth
        BY ConstantsAssumption DEF TypeOK
      <3>2. QED
        BY <2>1, <3>1, ConstantsAssumption DEF Passed, Infos, InfoArgs
    <2>2. CASE arg = Own
      BY <2>2, TopType, ConstantsAssumption DEF Passed, Frames, InfoArgs
    <2>3. CASE arg # Fresh /\ arg # Own
      BY <2>3 DEF Passed, Infos, InfoArgs
    <2>4. QED
      BY <2>1, <2>2, <2>3
  <1>2. QED
    BY <1>1, ConstantsAssumption DEF NewFrame, Frames, Lists

\* Entering call_event from a handler: the caller's count goes up and a new
\* activation is added above it.
LEMMA PushShape ==
    ASSUME TypeOK, NEW t \in Threads, stack[t] # <<>>,
           NEW f \in Frames, NEW g \in Frames,
           stack' = [stack EXCEPT ![t] = Append([@ EXCEPT ![Len(@)] = f], g)]
    PROVE  /\ stack' \in [Threads -> Seq(Frames)]
           /\ \A u \in Threads : u # t => stack'[u] = stack[u]
           /\ Len(stack'[t]) = Len(stack[t]) + 1
           /\ stack'[t][Len(stack[t])] = f
           /\ stack'[t][Len(stack[t]) + 1] = g
           /\ \A d \in 1..(Len(stack[t]) - 1) : stack'[t][d] = stack[t][d]
  <1> DEFINE n == Len(stack[t])
             s == [stack[t] EXCEPT ![n] = f]
  <1>1. stack[t] \in Seq(Frames) /\ n \in Nat \ {0}
    BY DEF TypeOK
  <1>2. s \in Seq(Frames) /\ Len(s) = n /\ s[n] = f
        /\ \A d \in 1..(n - 1) : s[d] = stack[t][d]
    BY <1>1
  <1>3. stack'[t] = Append(s, g)
    BY DEF TypeOK
  <1> HIDE DEF s
  <1>4. /\ stack'[t] \in Seq(Frames) /\ Len(stack'[t]) = n + 1
        /\ stack'[t][n + 1] = g
        /\ \A d \in 1..n : stack'[t][d] = s[d]
    BY <1>1, <1>2, <1>3
  <1>5. \A u \in Threads : u # t => stack'[u] = stack[u]
    BY DEF TypeOK
  <1>6. stack' \in [Threads -> Seq(Frames)]
    BY <1>4, <1>5 DEF TypeOK
  <1>7. QED
    BY <1>1, <1>2, <1>4, <1>5, <1>6

\* What one step of the handler records in the stack.
LEMMA PreventShape ==
    ASSUME TypeOK, NEW t \in Threads, NEW flag \in Flags, HandlerPrevents(t, flag)
    PROVE  /\ stack' \in [Threads -> Seq(Frames)]
           /\ \A u \in Threads : Len(stack'[u]) = Len(stack[u])
           /\ \A u \in Threads : u # t => stack'[u] = stack[u]
           /\ \A d \in 1..Len(stack[t]) :
                 \E a \in SUBSET Flags :
                    stack'[t][d] = [stack[t][d] EXCEPT !.asked = a]
  <1> DEFINE n == Len(stack[t])
             g(d) == Record(stack[t][d], Top(t).info, flag)
             s == [d \in 1..n |-> g(d)]
  <1>1. stack[t] \in Seq(Frames) /\ n \in Nat
    BY DEF TypeOK
  <1>2. stack' = [stack EXCEPT ![t] = s]
    BY DEF HandlerPrevents
  <1>3. ASSUME NEW d \in 1..n
        PROVE  \E a \in SUBSET Flags :
                  g(d) = [stack[t][d] EXCEPT !.asked = a]
    <2>1. stack[t][d] \in Frames
      BY <1>1
    <2>2. stack[t][d].asked \in SUBSET Flags
      BY <2>1 DEF Frames
    <2>3. stack[t][d] = [stack[t][d] EXCEPT !.asked = stack[t][d].asked]
      BY <2>1 DEF Frames
    <2>4. stack[t][d].asked \cup {flag} \in SUBSET Flags
      BY <2>2
    <2>5. QED
      BY <2>2, <2>3, <2>4 DEF Record
  <1>4. ASSUME NEW d \in 1..n
        PROVE  g(d) \in Frames
    <2>1. stack[t][d] \in Frames
      BY <1>1
    <2>2. PICK a \in SUBSET Flags : g(d) = [stack[t][d] EXCEPT !.asked = a]
      BY <1>3
    <2>3. [stack[t][d] EXCEPT !.asked = a] \in Frames
      BY <2>1 DEF Frames
    <2>4. QED
      BY <2>2, <2>3
  <1> HIDE DEF g
  <1>5. s \in Seq(Frames) /\ Len(s) = n /\ \A d \in 1..n : s[d] = g(d)
    BY <1>1, <1>4
  <1>6. stack'[t] = s /\ \A u \in Threads : u # t => stack'[u] = stack[u]
    BY <1>2 DEF TypeOK
  <1> HIDE DEF s
  <1>7. stack' \in [Threads -> Seq(Frames)]
    BY <1>5, <1>6, <1>2 DEF TypeOK
  <1>8. QED
    BY <1>3, <1>5, <1>6, <1>7

-----------------------------------------------------------------------------
(* Type correctness. *)

\* A step that replaces the innermost activation by a frame, and leaves the
\* registered hooks and the flags alone, keeps the types.
LEMMA SetTopKeepsType ==
    ASSUME TypeOK, NEW t \in Threads, stack[t] # <<>>, NEW f \in Frames, SetTop(t, f),
           UNCHANGED <<hooks, ids, started, prevented>>, locked' \in SUBSET Slots
    PROVE  TypeOK'
  BY SetTopShape DEF TypeOK

LEMMA PopKeepsType ==
    ASSUME TypeOK, NEW t \in Threads, stack[t] # <<>>, Pop(t),
           UNCHANGED <<hooks, ids, started, locked, prevented>>
    PROVE  TypeOK'
  BY PopShape DEF TypeOK

LEMMA PassType ==
    ASSUME TypeOK, NEW t, NEW arg, Pass(t, arg)
    PROVE  prevented' \in SUBSET (Infos \X Flags)
  BY DEF TypeOK, Pass

LEMMA TypeInit == Init => TypeOK
  <1> SUFFICES ASSUME Init PROVE TypeOK
    OBVIOUS
  <1>1. <<>> \in Seq(1..MaxHooks) /\ <<>> \in Seq(Frames)
    OBVIOUS
  <1>2. hooks \in [Events -> Seq(1..MaxHooks)] /\ stack \in [Threads -> Seq(Frames)]
    BY <1>1 DEF Init
  <1>3. ids \in 0..MaxHooks
    BY ConstantsAssumption DEF Init
  <1>4. started \in BOOLEAN /\ locked \in SUBSET Slots
        /\ prevented \in SUBSET (Infos \X Flags)
    BY DEF Init
  <1>5. QED
    BY <1>2, <1>3, <1>4 DEF TypeOK

LEMMA TypeStep == TypeOK /\ [Next]_vars => TypeOK'
  <1> SUFFICES ASSUME TypeOK, [Next]_vars
               PROVE  TypeOK'
    OBVIOUS
  <1>1. ASSUME NEW evs \in (SUBSET Events) \ {{}}, AddHook(evs)
        PROVE  TypeOK'
    <2>1. ids' \in 1..MaxHooks
      BY <1>1, ConstantsAssumption DEF AddHook, TypeOK
    <2>2. \A e \in Events : Append(hooks[e], ids') \in Seq(1..MaxHooks)
      BY <2>1 DEF TypeOK
    <2>3. hooks' \in [Events -> Seq(1..MaxHooks)]
      BY <1>1, <2>2 DEF AddHook, TypeOK
    <2>4. QED
      BY <1>1, <2>1, <2>3 DEF AddHook, TypeOK
  <1>2. ASSUME Start
        PROVE  TypeOK'
    BY <1>2 DEF Start, TypeOK
  <1>3. ASSUME NEW t \in Threads, Emit(t)
        PROVE  TypeOK'
    <2>1. PICK c \in Emits :
            /\ stack' = [stack EXCEPT ![t] = <<NewFrame(c.ev, Passed(t, c.info))>>]
            /\ Pass(t, c.info)
      BY <1>3 DEF Emit
    <2>2. c.ev \in Events /\ c.info \in InfoArgs /\ c.info # Own
      BY ConstantsAssumption
    <2>3. Len(stack[t]) < MaxDepth
      BY <1>3, ConstantsAssumption DEF Emit
    <2>4. NewFrame(c.ev, Passed(t, c.info)) \in Frames
      BY <2>2, <2>3, NewFrameType
    <2>5. stack' \in [Threads -> Seq(Frames)]
      BY <2>1, <2>4 DEF TypeOK
    <2>6. prevented' \in SUBSET (Infos \X Flags)
      BY <2>1, PassType
    <2>7. QED
      BY <1>3, <2>5, <2>6 DEF Emit, TypeOK
  <1>4. ASSUME NEW t \in Threads, SkipBusy(t)
        PROVE  TypeOK'
    <2>1. stack[t] # <<>> /\ NextHook(Top(t)) \in Frames
      BY <1>4, TopType DEF SkipBusy, At
    <2>2. QED
      BY <1>4, <2>1, SetTopKeepsType DEF SkipBusy, TypeOK
  <1>5. ASSUME NEW t \in Threads, FindFree(t)
        PROVE  TypeOK'
    <2>1. stack[t] # <<>> /\ [Top(t) EXCEPT !.phase = "claim"] \in Frames
      BY <1>5, TopType DEF FindFree, At, Frames
    <2>2. QED
      BY <1>5, <2>1, SetTopKeepsType DEF FindFree, TypeOK
  <1>6. ASSUME NEW t \in Threads, Claim(t)
        PROVE  TypeOK'
    <2>1. stack[t] # <<>> /\ Slot(Top(t)) \in Slots
      BY <1>6, TopType DEF Claim, At
    <2>2. [Top(t) EXCEPT !.phase = "run", !.calls = 0] \in Frames
      BY <2>1, TopType, FrameUpdates
    <2>3. locked' \in SUBSET Slots
      BY <1>6, <2>1 DEF Claim, TypeOK
    <2>4. QED
      BY <1>6, <2>1, <2>2, <2>3, SetTopKeepsType DEF Claim
  <1>7. ASSUME NEW t \in Threads, NEW flag \in Flags, HandlerPrevents(t, flag)
        PROVE  TypeOK'
    <2>1. Top(t).info \in Infos
      BY <1>7, TopType DEF HandlerPrevents, At, Frames
    <2>2. prevented' \in SUBSET (Infos \X Flags)
      BY <1>7, <2>1 DEF HandlerPrevents, TypeOK
    <2>3. stack' \in [Threads -> Seq(Frames)]
      BY <1>7, PreventShape
    <2>4. QED
      BY <1>7, <2>2, <2>3 DEF HandlerPrevents, TypeOK
  <1>8. ASSUME NEW t \in Threads, HandlerEmits(t)
        PROVE  TypeOK'
    <2> DEFINE caller == [Top(t) EXCEPT !.calls = @ + 1]
    <2>1. PICK c \in Nested :
            /\ stack' = [stack EXCEPT ![t] = Append([@ EXCEPT ![Len(@)] = caller],
                                               NewFrame(c.ev, Passed(t, c.info)))]
            /\ Pass(t, c.info)
      BY <1>8 DEF HandlerEmits
    <2>2. c.ev \in Events /\ c.info \in InfoArgs \cup {Own}
      BY ConstantsAssumption
    <2>3. stack[t] # <<>> /\ Len(stack[t]) < MaxDepth
      BY <1>8 DEF HandlerEmits, At
    <2>4. NewFrame(c.ev, Passed(t, c.info)) \in Frames
      BY <2>2, <2>3, NewFrameType
    <2>5. caller \in Frames
      <3>1. Top(t) \in Frames /\ Top(t).calls + 1 \in 0..MaxCalls
        BY <1>8, <2>3, TopType, ConstantsAssumption DEF HandlerEmits, Frames
      <3>2. QED
        BY <3>1 DEF Frames
    <2> HIDE DEF caller
    <2>6. stack' \in [Threads -> Seq(Frames)]
      BY <2>1, <2>3, <2>4, <2>5, PushShape
    <2>7. prevented' \in SUBSET (Infos \X Flags)
      BY <2>1, PassType
    <2>8. QED
      BY <1>8, <2>6, <2>7 DEF HandlerEmits, TypeOK
  <1>9. ASSUME NEW t \in Threads, HandlerReturns(t)
        PROVE  TypeOK'
    <2>1. stack[t] # <<>> /\ [Top(t) EXCEPT !.phase = "unlock"] \in Frames
      BY <1>9, TopType DEF HandlerReturns, At, Frames
    <2>2. QED
      BY <1>9, <2>1, SetTopKeepsType DEF HandlerReturns, TypeOK
  <1>10. ASSUME NEW t \in Threads, Unlock(t)
         PROVE  TypeOK'
    <2>1. stack[t] # <<>> /\ Top(t) \in Frames /\ NextHook(Top(t)) \in Frames
      BY <1>10, TopType DEF Unlock, At
    <2>2. [Top(t) EXCEPT !.phase = "after"] \in Frames
      BY <2>1 DEF Frames
    <2>3. locked' \in SUBSET Slots
      BY <1>10 DEF Unlock, TypeOK
    <2>4. QED
      BY <1>10, <2>1, <2>2, <2>3, SetTopKeepsType DEF Unlock
  <1>11. ASSUME NEW t \in Threads, StopFurther(t) \/ SkipDefaults(t) \/ Finish(t)
         PROVE  TypeOK'
    BY <1>11, PopKeepsType DEF StopFurther, SkipDefaults, Finish, AtEnd, At
  <1>12. ASSUME NEW t \in Threads, Continue(t)
         PROVE  TypeOK'
    <2>1. stack[t] # <<>> /\ NextHook(Top(t)) \in Frames
      BY <1>12, TopType DEF Continue, At
    <2>2. QED
      BY <1>12, <2>1, SetTopKeepsType DEF Continue, TypeOK
  <1>13. ASSUME NEW t \in Threads, BeginDefaults(t)
         PROVE  TypeOK'
    <2>1. stack[t] # <<>> /\ [Top(t) EXCEPT !.list = "default", !.pos = 1] \in Frames
      BY <1>13, TopType, FrameUpdates DEF BeginDefaults, AtEnd, At
    <2>2. QED
      BY <1>13, <2>1, SetTopKeepsType DEF BeginDefaults, TypeOK
  <1>14. CASE UNCHANGED vars
    BY <1>14 DEF vars, TypeOK
  <1>15. QED
    BY <1>1, <1>2, <1>3, <1>4, <1>5, <1>6, <1>7, <1>8, <1>9, <1>10, <1>11, <1>12,
       <1>13, <1>14 DEF Next, Dispatch

\* Every reachable state is well typed.
THEOREM TypeCorrect == Spec => []TypeOK
  BY TypeInit, TypeStep, PTL DEF Spec

-----------------------------------------------------------------------------
(* No lock leaks. *)

\* A step of thread t that changes only its innermost activation keeps every
\* lock owned, if each slot locked afterwards was locked before and is not run
\* by the innermost activation, or is run by it afterwards.
LEMMA TopStepKeepsOwners ==
    ASSUME TypeOK, LockHasOwner, NEW t \in Threads, stack[t] # <<>>,
           stack' \in [Threads -> Seq(Frames)],
           \A u \in Threads : u # t => stack'[u] = stack[u],
           Len(stack'[t]) >= Len(stack[t]) - 1,
           \A d \in 1..(Len(stack[t]) - 1) : stack'[t][d] = stack[t][d],
           \A s \in locked' :
              \/ s \in locked /\ ~Runs(t, Len(stack[t]), s)
              \/ /\ Len(stack'[t]) >= Len(stack[t])
                 /\ Holds(stack'[t][Len(stack[t])]) /\ Slot(stack'[t][Len(stack[t])]) = s
    PROVE  LockHasOwner'
  <1> DEFINE n == Len(stack[t])
  <1>1. n \in Nat \ {0} /\ Len(stack'[t]) \in Nat
    BY DEF TypeOK
  <1> SUFFICES ASSUME NEW s \in locked'
               PROVE  \E u \in Threads : \E d \in 1..Len(stack'[u]) : Runs(u, d, s)'
    BY DEF LockHasOwner
  <1>2. CASE Len(stack'[t]) >= n /\ Holds(stack'[t][n]) /\ Slot(stack'[t][n]) = s
    <2>1. \A m \in 1..Len(stack'[t]) :
             Holds(stack'[t][m]) /\ Slot(stack'[t][m]) = s => Runs(t, m, s)'
      BY DEF Runs
    <2>2. n \in 1..Len(stack'[t])
      BY <1>1, <1>2
    <2>3. QED
      BY <1>2, <2>1, <2>2
  <1>3. CASE s \in locked /\ ~Runs(t, n, s)
    <2>1. PICK u \in Threads : \E d \in 1..Len(stack[u]) : Runs(u, d, s)
      BY <1>3 DEF LockHasOwner
    <2>2. PICK d \in 1..Len(stack[u]) : Runs(u, d, s)
      BY <2>1
    <2>3. CASE u = t
      <3>1. d # n
        BY <1>3, <2>2, <2>3
      <3>2. d \in 1..(n - 1) /\ d \in 1..Len(stack'[t])
        BY <1>1, <2>3, <3>1
      <3>3. Runs(t, d, s)'
        BY <2>2, <2>3, <3>2 DEF Runs
      <3>4. QED
        BY <3>2, <3>3
    <2>4. CASE u # t
      <3>1. Runs(u, d, s)' /\ Len(stack'[u]) = Len(stack[u])
        BY <2>2, <2>4 DEF Runs
      <3>2. QED
        BY <3>1
    <2>5. QED
      BY <2>3, <2>4
  <1>4. QED
    BY <1>2, <1>3

LEMMA OwnerStep == TypeOK /\ LockHasOwner /\ [Next]_vars => LockHasOwner'
  <1> SUFFICES ASSUME TypeOK, LockHasOwner, [Next]_vars
               PROVE  LockHasOwner'
    OBVIOUS
  <1>1. ASSUME UNCHANGED <<stack, locked>>
        PROVE  LockHasOwner'
    BY <1>1 DEF LockHasOwner, Runs
  <1>2. ASSUME NEW t \in Threads, Emit(t)
        PROVE  LockHasOwner'
    <2> SUFFICES ASSUME NEW s \in locked
                 PROVE  \E u \in Threads : \E d \in 1..Len(stack'[u]) : Runs(u, d, s)'
      BY <1>2 DEF Emit, LockHasOwner
    <2>1. PICK u \in Threads : \E d \in 1..Len(stack[u]) : Runs(u, d, s)
      BY DEF LockHasOwner
    <2>2. u # t
      BY <1>2, <2>1 DEF Emit
    <2>3. stack'[u] = stack[u]
      BY <1>2, <2>2 DEF Emit, TypeOK
    <2>4. QED
      BY <2>1, <2>3 DEF Runs
  \* Steps of an innermost activation that runs no handler.
  <1>3. ASSUME NEW t \in Threads, stack[t] # <<>>, ~Holds(Top(t)),
               NEW f \in Frames, SetTop(t, f), locked' = locked
        PROVE  LockHasOwner'
    <2>1. \A s \in locked' : s \in locked /\ ~Runs(t, Len(stack[t]), s)
      BY <1>3 DEF Runs, Top
    <2>2. Len(stack[t]) \in Nat
      BY DEF TypeOK
    <2>3. QED
      BY <1>3, <2>1, <2>2, SetTopShape, TopStepKeepsOwners
  <1>4. ASSUME NEW t \in Threads, stack[t] # <<>>, ~Holds(Top(t)), Pop(t), locked' = locked
        PROVE  LockHasOwner'
    <2>1. \A s \in locked' : s \in locked /\ ~Runs(t, Len(stack[t]), s)
      BY <1>4 DEF Runs, Top
    <2>2. Len(stack[t]) \in Nat
      BY DEF TypeOK
    <2>3. QED
      BY <1>4, <2>1, <2>2, PopShape, TopStepKeepsOwners
  <1>5. ASSUME NEW t \in Threads,
               SkipBusy(t) \/ FindFree(t) \/ Continue(t) \/ BeginDefaults(t)
        PROVE  LockHasOwner'
    <2>1. stack[t] # <<>> /\ ~Holds(Top(t)) /\ locked' = locked
      BY <1>5 DEF SkipBusy, FindFree, Continue, BeginDefaults, AtEnd, At, Holds
    <2>2. \E f \in Frames : SetTop(t, f)
      BY <1>5, <2>1, TopType, FrameUpdates
         DEF SkipBusy, FindFree, Continue, BeginDefaults
    <2>3. QED
      BY <1>3, <2>1, <2>2
  <1>6. ASSUME NEW t \in Threads, StopFurther(t) \/ SkipDefaults(t) \/ Finish(t)
        PROVE  LockHasOwner'
    BY <1>4, <1>6 DEF StopFurther, SkipDefaults, Finish, AtEnd, At, Holds
  \* The handler's thread keeps running it.
  <1>7. ASSUME NEW t \in Threads, stack[t] # <<>>,
               NEW f \in Frames, SetTop(t, f), Holds(f), Slot(f) = Slot(Top(t)),
               locked' \subseteq locked \cup {Slot(Top(t))}
        PROVE  LockHasOwner'
    <2>1. Len(stack[t]) \in Nat /\ stack'[t][Len(stack[t])] = f
          /\ Len(stack'[t]) = Len(stack[t])
      BY <1>7, SetTopShape DEF TypeOK
    <2>2. ASSUME NEW s \in locked'
          PROVE  \/ s \in locked /\ ~Runs(t, Len(stack[t]), s)
                 \/ Holds(stack'[t][Len(stack[t])]) /\ Slot(stack'[t][Len(stack[t])]) = s
      BY <1>7, <2>1 DEF Runs, Top
    <2>3. QED
      BY <1>7, <2>1, <2>2, SetTopShape, TopStepKeepsOwners
  <1>8. ASSUME NEW t \in Threads, Claim(t)
        PROVE  LockHasOwner'
    <2> DEFINE f == [Top(t) EXCEPT !.phase = "run", !.calls = 0]
    <2>1. stack[t] # <<>> /\ f \in Frames /\ Top(t) \in Frames
      BY <1>8, TopType, FrameUpdates DEF Claim, At
    <2>2. Holds(f) /\ Slot(f) = Slot(Top(t))
      BY <2>1 DEF Frames, Holds, Slot
    <2>3. SetTop(t, f) /\ locked' = locked \cup {Slot(Top(t))}
      BY <1>8 DEF Claim
    <2> HIDE DEF f
    <2>4. QED
      BY <1>7, <2>1, <2>2, <2>3
  <1>9. ASSUME NEW t \in Threads, HandlerReturns(t)
        PROVE  LockHasOwner'
    <2> DEFINE f == [Top(t) EXCEPT !.phase = "unlock"]
    <2>1. stack[t] # <<>> /\ f \in Frames /\ Top(t) \in Frames
      BY <1>9, TopType, FrameUpdates DEF HandlerReturns, At
    <2>2. Holds(f) /\ Slot(f) = Slot(Top(t))
      BY <2>1 DEF Frames, Holds, Slot
    <2>3. SetTop(t, f) /\ locked' = locked
      BY <1>9 DEF HandlerReturns
    <2> HIDE DEF f
    <2>4. QED
      BY <1>7, <2>1, <2>2, <2>3
  <1>10. ASSUME NEW t \in Threads, Unlock(t)
         PROVE  LockHasOwner'
    <2> DEFINE f == IF Top(t).list = "user" THEN [Top(t) EXCEPT !.phase = "after"]
                                            ELSE NextHook(Top(t))
    <2>1. stack[t] # <<>> /\ f \in Frames
      BY <1>10, TopType, FrameUpdates DEF Unlock, At
    <2>2. SetTop(t, f) /\ locked' = locked \ {Slot(Top(t))}
      BY <1>10 DEF Unlock
    <2> HIDE DEF f
    <2>3. \A s \in locked' : s \in locked /\ ~Runs(t, Len(stack[t]), s)
      BY <2>2 DEF Runs, Top
    <2>4. Len(stack[t]) \in Nat
      BY DEF TypeOK
    <2>5. QED
      BY <2>1, <2>2, <2>3, <2>4, SetTopShape, TopStepKeepsOwners
  <1>11. ASSUME NEW t \in Threads, HandlerEmits(t)
         PROVE  LockHasOwner'
    <2> DEFINE n == Len(stack[t])
               caller == [Top(t) EXCEPT !.calls = @ + 1]
    <2>1. PICK c \in Nested :
            stack' = [stack EXCEPT ![t] = Append([@ EXCEPT ![Len(@)] = caller],
                                               NewFrame(c.ev, Passed(t, c.info)))]
      BY <1>11 DEF HandlerEmits
    <2>2. c.ev \in Events /\ c.info \in InfoArgs \cup {Own}
      BY ConstantsAssumption
    <2>3. stack[t] # <<>> /\ n < MaxDepth /\ n \in Nat /\ Top(t) \in Frames
          /\ Top(t).phase = "run" /\ locked' = locked
      BY <1>11, TopType DEF HandlerEmits, At, TypeOK
    <2>4. NewFrame(c.ev, Passed(t, c.info)) \in Frames
      BY <2>2, <2>3, NewFrameType
    <2>5. caller \in Frames
      <3>1. Top(t).calls + 1 \in 0..MaxCalls
        BY <1>11, <2>3, ConstantsAssumption DEF HandlerEmits, Frames
      <3>2. QED
        BY <2>3, <3>1 DEF Frames
    <2>6. Holds(caller) /\ Slot(caller) = Slot(Top(t))
      BY <2>3 DEF Frames, Holds, Slot
    <2> HIDE DEF caller
    <2>7. /\ stack' \in [Threads -> Seq(Frames)]
          /\ \A u \in Threads : u # t => stack'[u] = stack[u]
          /\ Len(stack'[t]) = n + 1
          /\ stack'[t][n] = caller
          /\ \A d \in 1..(n - 1) : stack'[t][d] = stack[t][d]
      BY <2>1, <2>3, <2>4, <2>5, PushShape
    <2>8. ASSUME NEW s \in locked'
          PROVE  \/ s \in locked /\ ~Runs(t, n, s)
                 \/ Holds(stack'[t][n]) /\ Slot(stack'[t][n]) = s
      BY <2>3, <2>6, <2>7 DEF Runs, Top
    <2>9. QED
      BY <2>3, <2>7, <2>8, TopStepKeepsOwners
  <1>12. ASSUME NEW t \in Threads, NEW flag \in Flags, HandlerPrevents(t, flag)
         PROVE  LockHasOwner'
    <2> SUFFICES ASSUME NEW s \in locked
                 PROVE  \E u \in Threads : \E d \in 1..Len(stack'[u]) : Runs(u, d, s)'
      BY <1>12 DEF HandlerPrevents, LockHasOwner
    <2>1. PICK u \in Threads : \E d \in 1..Len(stack[u]) : Runs(u, d, s)
      BY DEF LockHasOwner
    <2>2. PICK d \in 1..Len(stack[u]) : Runs(u, d, s)
      BY <2>1
    <2>3. Len(stack'[u]) = Len(stack[u])
      BY <1>12, PreventShape
    <2>4. CASE u # t
      BY <1>12, <2>2, <2>3, <2>4, PreventShape DEF Runs
    <2>5. CASE u = t
      <3>1. PICK a \in SUBSET Flags : stack'[t][d] = [stack[t][d] EXCEPT !.asked = a]
        BY <1>12, <2>5, PreventShape
      <3>2. stack[t][d] \in Frames
        BY <2>5 DEF TypeOK
      <3>3. Runs(t, d, s)'
        BY <2>2, <2>5, <3>1, <3>2 DEF Runs, Holds, Slot, Frames
      <3>4. QED
        BY <2>3, <2>5, <3>3
    <2>6. QED
      BY <2>4, <2>5
  <1>13. QED
    BY <1>1, <1>2, <1>5, <1>6, <1>8, <1>9, <1>10, <1>11, <1>12
       DEF Next, Dispatch, AddHook, Start, vars

\* For any number of threads: a hook marked busy is being run by some thread,
\* so no interleaving of call_event leaves a hook locked for ever.
THEOREM LocksHaveOwners == Spec => []LockHasOwner
  <1>1. Init => LockHasOwner
    BY DEF Init, LockHasOwner
  <1>2. QED
    BY <1>1, OwnerStep, TypeCorrect, PTL DEF Spec

-----------------------------------------------------------------------------
(* One thread never re-enters a hook. *)

\* The four ways in which a step of the only thread changes its innermost
\* activation and the locks.
LEMMA OneThreadTopStep ==
    ASSUME TypeOK, OneThreadInv, NEW t, Threads = {t}, stack[t] # <<>>,
           NEW f \in Frames, SetTop(t, f),
           \/ /\ ~Holds(Top(t)) /\ ~Holds(f) /\ locked' = locked
              /\ f.phase = "claim" => Slot(f) \notin locked
           \/ /\ Holds(Top(t)) /\ Holds(f) /\ Slot(f) = Slot(Top(t))
              /\ locked' = locked
           \/ /\ Top(t).phase = "claim" /\ Holds(f) /\ Slot(f) = Slot(Top(t))
              /\ locked' = locked \cup {Slot(f)}
           \/ /\ Holds(Top(t)) /\ ~Holds(f) /\ f.phase # "claim"
              /\ locked' = locked \ {Slot(Top(t))}
    PROVE  OneThreadInv'
  <1> DEFINE n == Len(stack[t])
  <1>1. n \in Nat \ {0} /\ t \in Threads
    BY DEF TypeOK
  <1>2. /\ Len(stack'[t]) = n
        /\ stack'[t][n] = f
        /\ \A d \in 1..(n - 1) : stack'[t][d] = stack[t][d]
        /\ stack'[t] \in Seq(Frames)
    BY <1>1, SetTopShape
  <1>3. \A d \in 1..n : d = n \/ d \in 1..(n - 1)
    BY <1>1
  <1>4. Top(t)' = f /\ Top(t) = stack[t][n]
    BY <1>2 DEF Top
  <1>5. n \in 1..n
    BY <1>1
  <1>6. Holds(f) => f.phase # "claim"
    BY DEF Holds
  <1>7. HoldersLocked'
    <2> SUFFICES ASSUME NEW d \in 1..n, Holds(stack'[t][d])
                 PROVE  Slot(stack'[t][d]) \in locked'
      BY <1>2 DEF HoldersLocked
    <2>1. CASE d = n
      BY <2>1, <1>2, <1>4, <1>5 DEF OneThreadInv, HoldersLocked
    <2>2. CASE d \in 1..(n - 1)
      <3>1. stack'[t][d] = stack[t][d] /\ d # n
        BY <1>1, <1>2, <2>2
      <3>2. Slot(stack[t][d]) \in locked
        BY <3>1 DEF OneThreadInv, HoldersLocked
      <3>3. Holds(Top(t)) => Slot(stack[t][d]) # Slot(Top(t))
        BY <1>1, <1>4, <1>5, <3>1 DEF OneThreadInv, NoReentry
      <3>4. QED
        BY <3>1, <3>2, <3>3 DEF Holds
    <2>3. QED
      BY <1>3, <2>1, <2>2
  <1>8. ClaimsAreFree'
    BY <1>4, <1>6 DEF ClaimsAreFree, At
  <1>9. NoReentry'
    <2> SUFFICES ASSUME NEW d1 \in 1..n, NEW d2 \in 1..n, d1 < d2,
                        Holds(stack'[t][d1]), Holds(stack'[t][d2])
                 PROVE  Slot(stack'[t][d1]) # Slot(stack'[t][d2])
      BY <1>1, <1>2 DEF NoReentry
    <2>1. d1 \in 1..(n - 1) /\ stack'[t][d1] = stack[t][d1] /\ d1 # d2
      BY <1>1, <1>2
    <2>2. CASE d2 = n
      <3>1. Holds(f)
        BY <1>2, <2>2
      <3>2. CASE Holds(Top(t))
        BY <1>1, <1>2, <1>4, <1>5, <2>1, <2>2, <3>1, <3>2 DEF OneThreadInv, NoReentry
      <3>3. CASE Top(t).phase = "claim" /\ Slot(f) = Slot(Top(t))
        <4>1. Slot(Top(t)) \notin locked
          BY <1>1, <3>3 DEF OneThreadInv, ClaimsAreFree, At
        <4>2. Slot(stack[t][d1]) \in locked
          BY <2>1 DEF OneThreadInv, HoldersLocked
        <4>3. QED
          BY <1>2, <2>1, <2>2, <3>3, <4>1, <4>2
      <3>4. QED
        BY <3>1, <3>2, <3>3
    <2>3. CASE d2 \in 1..(n - 1)
      BY <1>1, <1>2, <2>1, <2>3 DEF OneThreadInv, NoReentry
    <2>4. QED
      BY <1>3, <2>2, <2>3
  <1>10. QED
    BY <1>7, <1>8, <1>9 DEF OneThreadInv

\* Leaving an activation that runs no handler.
LEMMA OneThreadPopStep ==
    ASSUME TypeOK, OneThreadInv, OuterRun, NEW t, Threads = {t}, stack[t] # <<>>,
           Pop(t), locked' = locked
    PROVE  OneThreadInv'
  <1> DEFINE n == Len(stack[t])
  <1>1. n \in Nat \ {0} /\ t \in Threads
    BY DEF TypeOK
  <1>2. /\ stack'[t] \in Seq(Frames)
        /\ Len(stack'[t]) = n - 1
        /\ \A d \in 1..(n - 1) : stack'[t][d] = stack[t][d] /\ d \in 1..n /\ d < n
    BY <1>1, PopShape
  <1>3. HoldersLocked'
    BY <1>1, <1>2 DEF OneThreadInv, HoldersLocked
  <1>4. ClaimsAreFree'
    <2> SUFFICES ASSUME stack'[t] # <<>>, Top(t)'.phase = "claim"
                 PROVE  FALSE
      BY DEF ClaimsAreFree, At
    <2>1. n - 1 \in 1..(n - 1)
      BY <1>1, <1>2
    <2>2. Top(t)' = stack[t][n - 1]
      BY <1>2, <2>1 DEF Top
    <2>3. stack[t][n - 1].phase = "run"
      BY <1>1, <1>2, <2>1 DEF OuterRun
    <2>4. QED
      BY <2>2, <2>3
  <1>5. NoReentry'
    <2> SUFFICES ASSUME NEW d1 \in 1..(n - 1), NEW d2 \in 1..(n - 1), d1 # d2,
                        Holds(stack'[t][d1]), Holds(stack'[t][d2])
                 PROVE  Slot(stack'[t][d1]) # Slot(stack'[t][d2])
      BY <1>1, <1>2 DEF NoReentry
    <2>1. /\ d1 \in 1..n /\ stack'[t][d1] = stack[t][d1]
          /\ d2 \in 1..n /\ stack'[t][d2] = stack[t][d2]
      BY <1>2
    <2>2. QED
      BY <1>1, <2>1 DEF OneThreadInv, NoReentry
  <1>6. QED
    BY <1>3, <1>4, <1>5 DEF OneThreadInv

\* The same two steps and the shape of the stacks, for any number of threads.
LEMMA StackTopStep ==
    ASSUME TypeOK, StackInv, NEW t \in Threads, stack[t] # <<>>,
           NEW f \in Frames, SetTop(t, f), UNCHANGED <<hooks, started>>,
           f.phase \in {"claim", "run", "unlock"} => Slot(f) \in RegisteredSlots
    PROVE  StackInv'
  <1> DEFINE n == Len(stack[t])
  <1>1. n \in Nat \ {0} /\ n \in 1..n /\ \A d \in 1..n : d = n \/ d \in 1..(n - 1)
    BY DEF TypeOK
  <1>2. /\ \A u \in Threads : Len(stack'[u]) = Len(stack[u])
        /\ \A u \in Threads : u # t => stack'[u] = stack[u]
        /\ stack'[t][n] = f
        /\ \A d \in 1..(n - 1) : stack'[t][d] = stack[t][d]
    BY SetTopShape
  <1>3. RegisteredSlots' = RegisteredSlots
    BY DEF RegisteredSlots, UserSlots
  <1>4. OuterRun'
    BY <1>1, <1>2 DEF StackInv, OuterRun
  <1>5. SlotsExist'
    BY <1>1, <1>2, <1>3 DEF StackInv, SlotsExist
  <1>6. QuietBeforeStart'
    BY DEF StackInv, QuietBeforeStart
  <1>7. QED
    BY <1>4, <1>5, <1>6 DEF StackInv

LEMMA StackPopStep ==
    ASSUME TypeOK, StackInv, NEW t \in Threads, stack[t] # <<>>, Pop(t),
           UNCHANGED <<hooks, started>>
    PROVE  StackInv'
  <1> DEFINE n == Len(stack[t])
  <1>1. n \in Nat \ {0}
    BY DEF TypeOK
  <1>2. /\ \A u \in Threads : u # t => stack'[u] = stack[u]
        /\ Len(stack'[t]) = n - 1
        /\ \A d \in 1..(n - 1) : stack'[t][d] = stack[t][d] /\ d \in 1..n /\ d < n
    BY <1>1, PopShape
  <1>3. RegisteredSlots' = RegisteredSlots
    BY DEF RegisteredSlots, UserSlots
  <1>4. OuterRun'
    BY <1>1, <1>2 DEF StackInv, OuterRun
  <1>5. SlotsExist'
    BY <1>1, <1>2, <1>3 DEF StackInv, SlotsExist
  <1>6. QuietBeforeStart'
    BY DEF StackInv, QuietBeforeStart
  <1>7. QED
    BY <1>4, <1>5, <1>6 DEF StackInv

\* What a step of HandlerEmits leaves behind.
LEMMA EmitsShape ==
    ASSUME TypeOK, NEW t \in Threads, HandlerEmits(t)
    PROVE  \E f, g \in Frames :
              /\ stack[t] # <<>> /\ Top(t) \in Frames /\ Top(t).phase = "run"
              /\ f.phase = "run" /\ Slot(f) = Slot(Top(t)) /\ g.phase = "scan"
              /\ stack' \in [Threads -> Seq(Frames)]
              /\ \A u \in Threads : u # t => stack'[u] = stack[u]
              /\ Len(stack'[t]) = Len(stack[t]) + 1
              /\ stack'[t][Len(stack[t])] = f
              /\ stack'[t][Len(stack[t]) + 1] = g
              /\ \A d \in 1..(Len(stack[t]) - 1) : stack'[t][d] = stack[t][d]
  <1> DEFINE n == Len(stack[t])
             caller == [Top(t) EXCEPT !.calls = @ + 1]
  <1>1. PICK c \in Nested :
          stack' = [stack EXCEPT ![t] = Append([@ EXCEPT ![Len(@)] = caller],
                                             NewFrame(c.ev, Passed(t, c.info)))]
    BY DEF HandlerEmits
  <1>2. c.ev \in Events /\ c.info \in InfoArgs \cup {Own}
    BY ConstantsAssumption
  <1>3. stack[t] # <<>> /\ n < MaxDepth /\ Top(t) \in Frames /\ Top(t).phase = "run"
    BY TopType DEF HandlerEmits, At
  <1> DEFINE g == NewFrame(c.ev, Passed(t, c.info))
  <1>4. g \in Frames /\ g.phase = "scan"
    BY <1>2, <1>3, NewFrameType DEF NewFrame
  <1>5. caller \in Frames
    <2>1. Top(t).calls + 1 \in 0..MaxCalls
      BY <1>3, ConstantsAssumption DEF HandlerEmits, Frames
    <2>2. QED
      BY <1>3, <2>1 DEF Frames
  <1>6. caller.phase = "run" /\ Slot(caller) = Slot(Top(t))
    BY <1>3 DEF Frames, Slot
  <1> HIDE DEF caller, g
  <1>7. /\ stack' \in [Threads -> Seq(Frames)]
        /\ \A u \in Threads : u # t => stack'[u] = stack[u]
        /\ Len(stack'[t]) = n + 1
        /\ stack'[t][n] = caller
        /\ stack'[t][n + 1] = g
        /\ \A d \in 1..(n - 1) : stack'[t][d] = stack[t][d]
    BY <1>1, <1>3, <1>4, <1>5, PushShape DEF g
  <1>8. QED
    BY <1>3, <1>4, <1>5, <1>6, <1>7

LEMMA SlotRegistered ==
    ASSUME NEW e \in Events
    PROVE  /\ \A i \in 1..Len(hooks[e]) : <<"user", e, i>> \in RegisteredSlots
           /\ \A i \in 1..Defaults[e] : <<"default", e, i>> \in RegisteredSlots
  <1> DEFINE U(x) == {<<"user", x, i>> : i \in 1..Len(hooks[x])}
             D(x) == {<<"default", x, i>> : i \in 1..Defaults[x]}
  <1>1. U(e) \subseteq UserSlots
    <2> DEFINE size == [x \in Events |-> Len(hooks[x])]
    <2>1. size[e] = Len(hooks[e])
      OBVIOUS
    <2> HIDE DEF size
    <2>2. U(e) \subseteq SlotsOf("user", size)
      BY <2>1 DEF SlotsOf
    <2>3. QED
      BY <2>2 DEF UserSlots, size
  <1>2. D(e) \subseteq DefaultSlots
    BY DEF DefaultSlots, SlotsOf
  <1>3. QED
    BY <1>1, <1>2 DEF RegisteredSlots

LEMMA StackStep == TypeOK /\ StackInv /\ [Next]_vars => StackInv'
  <1> SUFFICES ASSUME TypeOK, StackInv, [Next]_vars
               PROVE  StackInv'
    OBVIOUS
  <1>1. ASSUME NEW evs \in (SUBSET Events) \ {{}}, AddHook(evs)
        PROVE  StackInv'
    <2>1. \A t \in Threads : stack'[t] = <<>>
      BY <1>1 DEF AddHook, StackInv, QuietBeforeStart
    <2>2. QED
      BY <2>1 DEF StackInv, OuterRun, SlotsExist, QuietBeforeStart
  <1>2. ASSUME Start
        PROVE  StackInv'
    <2>1. \A t \in Threads : stack'[t] = <<>>
      BY <1>2 DEF Start, StackInv, QuietBeforeStart
    <2>2. QED
      BY <2>1 DEF StackInv, OuterRun, SlotsExist, QuietBeforeStart
  <1>3. ASSUME NEW t \in Threads, Emit(t)
        PROVE  StackInv'
    <2>1. PICK e, i : stack' = [stack EXCEPT ![t] = <<NewFrame(e, i)>>]
      BY <1>3 DEF Emit
    <2>2. /\ stack'[t] = <<NewFrame(e, i)>>
          /\ \A u \in Threads : u # t => stack'[u] = stack[u]
      BY <2>1 DEF TypeOK
    <2>3. Len(stack'[t]) = 1 /\ stack'[t][1].phase = "scan"
      BY <2>2 DEF NewFrame
    <2>4. RegisteredSlots' = RegisteredSlots
      BY <1>3 DEF RegisteredSlots, UserSlots, Emit
    <2>5. OuterRun'
      <3> SUFFICES ASSUME NEW u \in Threads, NEW d \in 1..Len(stack'[u]), d < Len(stack'[u])
                   PROVE  stack'[u][d].phase = "run"
        BY DEF OuterRun
      <3>1. CASE u = t
        <4>1. d \in 1..1 /\ d < 1
          BY <2>3, <3>1
        <4>2. QED
          BY <4>1
      <3>2. CASE u # t
        BY <2>2, <3>2 DEF StackInv, OuterRun
      <3>3. QED
        BY <3>1, <3>2
    <2>6. SlotsExist'
      BY <2>2, <2>3, <2>4 DEF StackInv, SlotsExist
    <2>7. QED
      BY <1>3, <2>5, <2>6 DEF StackInv, QuietBeforeStart, Emit
  <1>4. ASSUME NEW t \in Threads, SkipBusy(t) \/ Continue(t) \/ BeginDefaults(t)
        PROVE  StackInv'
    <2>1. stack[t] # <<>> /\ Top(t) \in Frames /\ Top(t).phase \in {"scan", "after"}
      BY <1>4, TopType DEF SkipBusy, Continue, BeginDefaults, AtEnd, At
    <2>2. \E f \in Frames : SetTop(t, f) /\ f.phase = "scan"
      BY <1>4, <2>1, TopType, FrameUpdates
         DEF SkipBusy, Continue, BeginDefaults, AtEnd, At
    <2>3. UNCHANGED <<hooks, started>>
      BY <1>4 DEF SkipBusy, Continue, BeginDefaults
    <2>4. QED
      BY <2>1, <2>2, <2>3, StackTopStep
  <1>5. ASSUME NEW t \in Threads, FindFree(t)
        PROVE  StackInv'
    <2> DEFINE f == [Top(t) EXCEPT !.phase = "claim"]
    <2>1. stack[t] # <<>> /\ f \in Frames /\ Top(t) \in Frames
      BY <1>5, TopType, FrameUpdates DEF FindFree, At
    <2>2. Slot(f) = Slot(Top(t))
      BY <2>1 DEF Slot, Frames
    <2>3. Top(t).pos <= Size(Top(t))
      BY <1>5 DEF FindFree
    <2>4. Slot(Top(t)) \in RegisteredSlots
      <3>1. Top(t).ev \in Events /\ Top(t).pos \in Nat \ {0} /\ Top(t).list \in Lists
        BY <2>1 DEF Frames
      <3>2. CASE Top(t).list = "user"
        <4>1. Len(hooks[Top(t).ev]) \in Nat
          BY <3>1 DEF TypeOK
        <4>2. Top(t).pos \in 1..Len(hooks[Top(t).ev])
          BY <2>3, <3>1, <3>2, <4>1 DEF Size
        <4>3. QED
          BY <3>1, <3>2, <4>2, SlotRegistered DEF Slot
      <3>3. CASE Top(t).list = "default"
        <4>1. Top(t).pos \in 1..Defaults[Top(t).ev]
          BY <2>3, <3>1, <3>3, ConstantsAssumption DEF Size
        <4>2. QED
          BY <3>1, <3>3, <4>1, SlotRegistered DEF Slot
      <3>4. QED
        BY <3>1, <3>2, <3>3 DEF Lists
    <2>5. SetTop(t, f) /\ UNCHANGED <<hooks, started>>
      BY <1>5 DEF FindFree
    <2> HIDE DEF f
    <2>6. QED
      BY <2>1, <2>2, <2>4, <2>5, StackTopStep
  <1>6. ASSUME NEW t \in Threads, Claim(t) \/ HandlerReturns(t)
        PROVE  StackInv'
    <2>1. stack[t] # <<>> /\ Top(t) \in Frames /\ Top(t).phase \in {"claim", "run"}
      BY <1>6, TopType DEF Claim, HandlerReturns, At
    <2>2. Slot(Top(t)) \in RegisteredSlots
      BY <2>1 DEF StackInv, SlotsExist, Top, TypeOK
    <2>3. \E f \in Frames : SetTop(t, f) /\ Slot(f) = Slot(Top(t))
      <3>1. /\ [Top(t) EXCEPT !.phase = "run", !.calls = 0] \in Frames
            /\ Slot([Top(t) EXCEPT !.phase = "run", !.calls = 0]) = Slot(Top(t))
        BY <2>1, FrameUpdates DEF Frames, Slot
      <3>2. /\ [Top(t) EXCEPT !.phase = "unlock"] \in Frames
            /\ Slot([Top(t) EXCEPT !.phase = "unlock"]) = Slot(Top(t))
        BY <2>1, FrameUpdates DEF Frames, Slot
      <3>3. QED
        BY <1>6, <3>1, <3>2 DEF Claim, HandlerReturns
    <2>4. UNCHANGED <<hooks, started>>
      BY <1>6 DEF Claim, HandlerReturns
    <2>5. QED
      BY <2>1, <2>2, <2>3, <2>4, StackTopStep
  <1>7. ASSUME NEW t \in Threads, Unlock(t)
        PROVE  StackInv'
    <2>1. stack[t] # <<>> /\ Top(t) \in Frames
      BY <1>7, TopType DEF Unlock, At
    <2>2. \E f \in Frames : SetTop(t, f) /\ f.phase \in {"scan", "after"}
      BY <1>7, <2>1, TopType, FrameUpdates DEF Unlock
    <2>3. UNCHANGED <<hooks, started>>
      BY <1>7 DEF Unlock
    <2>4. QED
      BY <2>1, <2>2, <2>3, StackTopStep
  <1>8. ASSUME NEW t \in Threads, StopFurther(t) \/ SkipDefaults(t) \/ Finish(t)
        PROVE  StackInv'
    BY <1>8, StackPopStep DEF StopFurther, SkipDefaults, Finish, AtEnd, At
  <1>9. ASSUME NEW t \in Threads, NEW flag \in Flags, HandlerPrevents(t, flag)
        PROVE  StackInv'
    <2>1. /\ \A u \in Threads : Len(stack'[u]) = Len(stack[u])
          /\ \A u \in Threads : u # t => stack'[u] = stack[u]
      BY <1>9, PreventShape
    <2>2. \A d \in 1..Len(stack[t]) :
             /\ stack'[t][d].phase = stack[t][d].phase
             /\ Slot(stack'[t][d]) = Slot(stack[t][d])
      <3> SUFFICES ASSUME NEW d \in 1..Len(stack[t])
                   PROVE  /\ stack'[t][d].phase = stack[t][d].phase
                          /\ Slot(stack'[t][d]) = Slot(stack[t][d])
        OBVIOUS
      <3>1. PICK a \in SUBSET Flags : stack'[t][d] = [stack[t][d] EXCEPT !.asked = a]
        BY <1>9, PreventShape
      <3>2. stack[t][d] \in Frames
        BY DEF TypeOK
      <3>3. QED
        BY <3>1, <3>2 DEF Frames, Slot
    <2>3. RegisteredSlots' = RegisteredSlots
      BY <1>9 DEF RegisteredSlots, UserSlots, HandlerPrevents
    <2>4. OuterRun'
      BY <2>1, <2>2 DEF StackInv, OuterRun
    <2>5. SlotsExist'
      BY <2>1, <2>2, <2>3 DEF StackInv, SlotsExist
    <2>6. QED
      BY <1>9, <2>4, <2>5 DEF StackInv, QuietBeforeStart, HandlerPrevents, At
  <1>10. ASSUME NEW t \in Threads, HandlerEmits(t)
         PROVE  StackInv'
    <2> DEFINE n == Len(stack[t])
    <2>1. PICK f, g \in Frames :
            /\ stack[t] # <<>> /\ Top(t) \in Frames /\ Top(t).phase = "run"
            /\ f.phase = "run" /\ Slot(f) = Slot(Top(t)) /\ g.phase = "scan"
            /\ \A u \in Threads : u # t => stack'[u] = stack[u]
            /\ Len(stack'[t]) = n + 1
            /\ stack'[t][n] = f /\ stack'[t][n + 1] = g
            /\ \A d \in 1..(n - 1) : stack'[t][d] = stack[t][d]
      BY <1>10, EmitsShape
    <2>2. n \in Nat \ {0}
          /\ \A d \in 1..(n + 1) : d = n + 1 \/ d = n \/ d \in 1..(n - 1)
      BY <2>1 DEF TypeOK
    <2>3. RegisteredSlots' = RegisteredSlots
      BY <1>10 DEF RegisteredSlots, UserSlots, HandlerEmits
    <2>4. Slot(f) \in RegisteredSlots
      BY <2>1, <2>2 DEF StackInv, SlotsExist, Top
    <2>5. OuterRun'
      <3> SUFFICES ASSUME NEW u \in Threads, NEW d \in 1..Len(stack'[u]), d < Len(stack'[u])
                   PROVE  stack'[u][d].phase = "run"
        BY DEF OuterRun
      <3>1. CASE u # t
        BY <2>1, <3>1 DEF StackInv, OuterRun
      <3>2. CASE u = t /\ d = n
        BY <2>1, <3>2
      <3>3. CASE u = t /\ d # n
        <4>1. d \in 1..(n - 1) /\ d \in 1..n /\ d < n
          BY <2>1, <2>2, <3>3
        <4>2. QED
          BY <2>1, <3>3, <4>1 DEF StackInv, OuterRun
      <3>4. QED
        BY <3>1, <3>2, <3>3
    <2>6. SlotsExist'
      <3> SUFFICES ASSUME NEW u \in Threads, NEW d \in 1..Len(stack'[u]),
                          stack'[u][d].phase \in {"claim", "run", "unlock"}
                   PROVE  Slot(stack'[u][d]) \in RegisteredSlots
        BY <2>3 DEF SlotsExist
      <3>1. CASE u # t
        BY <2>1, <3>1 DEF StackInv, SlotsExist
      <3>2. CASE u = t /\ d = n
        BY <2>1, <2>4, <3>2
      <3>3. CASE u = t /\ d # n
        <4>1. d \in 1..(n - 1) /\ d \in 1..n
          BY <2>1, <2>2, <3>3
        <4>2. QED
          BY <2>1, <3>3, <4>1 DEF StackInv, SlotsExist
      <3>4. QED
        BY <3>1, <3>2, <3>3
    <2>7. QED
      BY <1>10, <2>1, <2>5, <2>6 DEF StackInv, QuietBeforeStart, HandlerEmits
  <1>11. CASE UNCHANGED vars
    BY <1>11 DEF vars, StackInv, OuterRun, SlotsExist, QuietBeforeStart, RegisteredSlots,
                 UserSlots
  <1>12. QED
    BY <1>1, <1>2, <1>3, <1>4, <1>5, <1>6, <1>7, <1>8, <1>9, <1>10, <1>11
       DEF Next, Dispatch

LEMMA OneThreadStep ==
    ASSUME NEW t, Threads = {t}
    PROVE  TypeOK /\ StackInv /\ OneThreadInv /\ [Next]_vars => OneThreadInv'
  <1> SUFFICES ASSUME TypeOK, StackInv, OneThreadInv, [Next]_vars
               PROVE  OneThreadInv'
    OBVIOUS
  <1> t \in Threads
    OBVIOUS
  <1>1. ASSUME UNCHANGED <<stack, locked>>
        PROVE  OneThreadInv'
    BY <1>1 DEF OneThreadInv, HoldersLocked, ClaimsAreFree, NoReentry, At, Top
  <1>2. ASSUME Emit(t)
        PROVE  OneThreadInv'
    <2>1. PICK e, i : stack' = [stack EXCEPT ![t] = <<NewFrame(e, i)>>]
      BY <1>2 DEF Emit
    <2>2. stack'[t] = <<NewFrame(e, i)>>
      BY <2>1 DEF TypeOK
    <2>3. Len(stack'[t]) = 1 /\ stack'[t][1].phase = "scan"
      BY <2>2 DEF NewFrame
    <2>4. HoldersLocked'
      BY <2>3 DEF HoldersLocked, Holds
    <2>5. ClaimsAreFree'
      BY <2>3 DEF ClaimsAreFree, At, Top
    <2>6. NoReentry'
      BY <2>3 DEF NoReentry, Holds
    <2>7. QED
      BY <2>4, <2>5, <2>6 DEF OneThreadInv
  <1>3. ASSUME SkipBusy(t) \/ Continue(t) \/ BeginDefaults(t)
        PROVE  OneThreadInv'
    <2>1. stack[t] # <<>> /\ Top(t) \in Frames /\ Top(t).phase \in {"scan", "after"}
      BY <1>3, TopType DEF SkipBusy, Continue, BeginDefaults, AtEnd, At
    <2>2. \E f \in Frames : SetTop(t, f) /\ f.phase = "scan"
      BY <1>3, <2>1, TopType, FrameUpdates
         DEF SkipBusy, Continue, BeginDefaults, AtEnd, At
    <2>3. locked' = locked
      BY <1>3 DEF SkipBusy, Continue, BeginDefaults
    <2>4. QED
      BY <2>1, <2>2, <2>3, OneThreadTopStep DEF Holds
  <1>4. ASSUME FindFree(t)
        PROVE  OneThreadInv'
    <2> DEFINE f == [Top(t) EXCEPT !.phase = "claim"]
    <2>1. stack[t] # <<>> /\ f \in Frames /\ Top(t) \in Frames /\ Top(t).phase = "scan"
      BY <1>4, TopType, FrameUpdates DEF FindFree, At
    <2>2. Slot(f) = Slot(Top(t)) /\ f.phase = "claim"
      BY <2>1 DEF Slot, Frames
    <2>3. SetTop(t, f) /\ locked' = locked /\ Slot(Top(t)) \notin locked
      BY <1>4 DEF FindFree
    <2> HIDE DEF f
    <2>4. ~Holds(Top(t)) /\ ~Holds(f)
      BY <2>1, <2>2 DEF Holds
    <2>5. QED
      BY <2>1, <2>2, <2>3, <2>4, OneThreadTopStep
  <1>5. ASSUME Claim(t)
        PROVE  OneThreadInv'
    <2> DEFINE f == [Top(t) EXCEPT !.phase = "run", !.calls = 0]
    <2>1. stack[t] # <<>> /\ f \in Frames /\ Top(t) \in Frames /\ Top(t).phase = "claim"
      BY <1>5, TopType, FrameUpdates DEF Claim, At
    <2>2. Slot(f) = Slot(Top(t)) /\ Holds(f)
      BY <2>1 DEF Slot, Frames, Holds
    <2>3. SetTop(t, f) /\ locked' = locked \cup {Slot(Top(t))}
      BY <1>5 DEF Claim
    <2> HIDE DEF f
    <2>4. QED
      BY <2>1, <2>2, <2>3, OneThreadTopStep
  <1>6. ASSUME HandlerReturns(t)
        PROVE  OneThreadInv'
    <2> DEFINE f == [Top(t) EXCEPT !.phase = "unlock"]
    <2>1. stack[t] # <<>> /\ f \in Frames /\ Top(t) \in Frames /\ Top(t).phase = "run"
      BY <1>6, TopType, FrameUpdates DEF HandlerReturns, At
    <2>2. Slot(f) = Slot(Top(t)) /\ Holds(f) /\ Holds(Top(t))
      BY <2>1 DEF Slot, Frames, Holds
    <2>3. SetTop(t, f) /\ locked' = locked
      BY <1>6 DEF HandlerReturns
    <2> HIDE DEF f
    <2>4. QED
      BY <2>1, <2>2, <2>3, OneThreadTopStep
  <1>7. ASSUME Unlock(t)
        PROVE  OneThreadInv'
    <2>1. stack[t] # <<>> /\ Top(t) \in Frames /\ Holds(Top(t))
      BY <1>7, TopType DEF Unlock, At, Holds
    <2>2. \E f \in Frames : SetTop(t, f) /\ f.phase \in {"scan", "after"}
      BY <1>7, <2>1, TopType, FrameUpdates DEF Unlock
    <2>3. locked' = locked \ {Slot(Top(t))}
      BY <1>7 DEF Unlock
    <2>4. \A f : f.phase \in {"scan", "after"} => ~Holds(f) /\ f.phase # "claim"
      BY DEF Holds
    <2>5. QED
      BY <2>1, <2>2, <2>3, <2>4, OneThreadTopStep
  <1>8. ASSUME StopFurther(t) \/ SkipDefaults(t) \/ Finish(t)
        PROVE  OneThreadInv'
    BY <1>8, OneThreadPopStep
       DEF StopFurther, SkipDefaults, Finish, AtEnd, At, StackInv
  <1>9. ASSUME NEW flag \in Flags, HandlerPrevents(t, flag)
        PROVE  OneThreadInv'
    <2>1. Len(stack'[t]) = Len(stack[t]) /\ locked' = locked /\ stack[t] # <<>>
          /\ Len(stack[t]) \in Nat /\ stack'[t] \in Seq(Frames)
      BY <1>9, PreventShape DEF HandlerPrevents, At, TypeOK
    <2>2. \A d \in 1..Len(stack[t]) :
             /\ stack'[t][d].phase = stack[t][d].phase
             /\ Slot(stack'[t][d]) = Slot(stack[t][d])
      <3> SUFFICES ASSUME NEW d \in 1..Len(stack[t])
                   PROVE  /\ stack'[t][d].phase = stack[t][d].phase
                          /\ Slot(stack'[t][d]) = Slot(stack[t][d])
        OBVIOUS
      <3>1. PICK a \in SUBSET Flags : stack'[t][d] = [stack[t][d] EXCEPT !.asked = a]
        BY <1>9, PreventShape
      <3>2. stack[t][d] \in Frames
        BY DEF TypeOK
      <3>3. QED
        BY <3>1, <3>2 DEF Frames, Slot
    <2>3. HoldersLocked'
      BY <2>1, <2>2 DEF OneThreadInv, HoldersLocked, Holds
    <2>4. ClaimsAreFree'
      <3>1. Len(stack[t]) \in 1..Len(stack[t])
        BY <2>1
      <3>2. stack[t][Len(stack[t])].phase = "run"
        BY <1>9 DEF HandlerPrevents, At, Top
      <3>3. QED
        BY <2>1, <2>2, <3>1, <3>2 DEF ClaimsAreFree, At, Top
    <2>5. NoReentry'
      BY <2>1, <2>2 DEF OneThreadInv, NoReentry, Holds
    <2>6. QED
      BY <2>3, <2>4, <2>5 DEF OneThreadInv
  <1>10. ASSUME HandlerEmits(t)
         PROVE  OneThreadInv'
    <2> DEFINE n == Len(stack[t])
    <2>1. PICK f, g \in Frames :
            /\ stack[t] # <<>> /\ Top(t) \in Frames /\ Top(t).phase = "run"
            /\ f.phase = "run" /\ Slot(f) = Slot(Top(t)) /\ g.phase = "scan"
            /\ Len(stack'[t]) = n + 1
            /\ stack'[t][n] = f /\ stack'[t][n + 1] = g
            /\ \A d \in 1..(n - 1) : stack'[t][d] = stack[t][d]
      BY <1>10, EmitsShape
    <2>2. n \in Nat \ {0} /\ n \in 1..n
          /\ \A d \in 1..(n + 1) : d = n + 1 \/ d \in 1..n
      BY <2>1 DEF TypeOK
    <2>3. locked' = locked
      BY <1>10 DEF HandlerEmits
    <2>4. \A d \in 1..n : /\ Holds(stack'[t][d]) = Holds(stack[t][d])
                          /\ Slot(stack'[t][d]) = Slot(stack[t][d])
      <3> SUFFICES ASSUME NEW d \in 1..n
                   PROVE  /\ Holds(stack'[t][d]) = Holds(stack[t][d])
                          /\ Slot(stack'[t][d]) = Slot(stack[t][d])
        OBVIOUS
      <3>1. CASE d = n
        BY <2>1, <3>1 DEF Holds, Top
      <3>2. CASE d # n
        <4>1. d \in 1..(n - 1)
          BY <2>2, <3>2
        <4>2. QED
          BY <2>1, <4>1
      <3>3. QED
        BY <3>1, <3>2
    <2>5. ~Holds(stack'[t][n + 1]) /\ Top(t)' = g
      BY <2>1 DEF Holds, Top
    <2>6. HoldersLocked'
      BY <2>1, <2>2, <2>3, <2>4, <2>5 DEF OneThreadInv, HoldersLocked
    <2>7. ClaimsAreFree'
      BY <2>1, <2>5 DEF ClaimsAreFree, At
    <2>8. NoReentry'
      <3> SUFFICES ASSUME NEW d1 \in 1..(n + 1), NEW d2 \in 1..(n + 1), d1 # d2,
                          Holds(stack'[t][d1]), Holds(stack'[t][d2])
                   PROVE  Slot(stack'[t][d1]) # Slot(stack'[t][d2])
        BY <2>1 DEF NoReentry
      <3>1. d1 \in 1..n /\ d2 \in 1..n
        BY <2>2, <2>5
      <3>2. QED
        BY <2>4, <3>1 DEF OneThreadInv, NoReentry
    <2>9. QED
      BY <2>6, <2>7, <2>8 DEF OneThreadInv
  <1>11. QED
    BY <1>1, <1>2, <1>3, <1>4, <1>5, <1>6, <1>7, <1>8, <1>9, <1>10
       DEF Next, Dispatch, AddHook, Start, vars

LEMMA OneThreadInit == Init => StackInv /\ OneThreadInv
  BY DEF Init, StackInv, OuterRun, SlotsExist, QuietBeforeStart,
         OneThreadInv, HoldersLocked, ClaimsAreFree, NoReentry, At

\* The shape of the stacks, for any number of threads.
LEMMA StackInvariant == Spec => []StackInv
  BY OneThreadInit, StackStep, TypeCorrect, PTL DEF Spec

\* With one thread a hook copy is never run twice at once.
THEOREM HooksDoNotReenter ==
    ASSUME NEW t, Threads = {t}
    PROVE  Spec => []NoReentry
  <1>1. OneThreadInv => NoReentry
    BY DEF OneThreadInv
  <1>2. QED
    BY <1>1, OneThreadInit, OneThreadStep, TypeCorrect, StackInvariant, PTL DEF Spec

-----------------------------------------------------------------------------
(* Bounded nesting. *)

\* The union of finitely many finite sets of slots.
LEMMA SlotsFinite ==
    ASSUME NEW list, NEW n \in [Events -> Nat]
    PROVE  IsFiniteSet(SlotsOf(list, n))
  <1> DEFINE U(e) == {<<list, e, i>> : i \in 1..n[e]}
             S == {U(e) : e \in Events}
  <1>1. ASSUME NEW e \in Events
        PROVE  IsFiniteSet(U(e))
    <2> DEFINE g == [i \in 1..n[e] |-> <<list, e, i>>]
    <2>1. IsFiniteSet(1..n[e])
      BY FS_Interval
    <2>2. g \in Surjection(1..n[e], U(e))
      BY DEF Surjection
    <2>3. QED
      BY <2>1, <2>2, FS_Surjection
  <1> HIDE DEF U
  <1>2. IsFiniteSet(S)
    <2> DEFINE h == [e \in Events |-> U(e)]
    <2>1. h \in Surjection(Events, S)
      BY DEF Surjection
    <2>2. QED
      BY <2>1, FS_Surjection, ConstantsAssumption
  <1>3. \A T \in S : IsFiniteSet(T)
    BY <1>1
  <1>4. IsFiniteSet(UNION S)
    BY <1>2, <1>3, FS_UNION
  <1>5. QED
    BY <1>4 DEF U, SlotsOf

LEMMA RegisteredFinite ==
    ASSUME TypeOK
    PROVE  IsFiniteSet(RegisteredSlots)
  <1> DEFINE n == [e \in Events |-> Len(hooks[e])]
  <1>1. n \in [Events -> Nat]
    BY DEF TypeOK
  <1> HIDE DEF n
  <1>2. IsFiniteSet(SlotsOf("user", n))
    BY <1>1, SlotsFinite
  <1>3. IsFiniteSet(SlotsOf("default", Defaults))
    BY SlotsFinite, ConstantsAssumption
  <1>4. IsFiniteSet(UserSlots)
    BY <1>2 DEF UserSlots, n
  <1>5. IsFiniteSet(DefaultSlots)
    BY <1>3 DEF DefaultSlots
  <1>6. QED
    BY <1>4, <1>5, FS_Union DEF RegisteredSlots

LEMMA DepthFollows ==
    ASSUME TypeOK, StackInv, NoReentry
    PROVE  DepthBound
  <1> SUFFICES ASSUME NEW t \in Threads,
                      Len(stack[t]) > Cardinality(RegisteredSlots) + 1
               PROVE  FALSE
    <2>1. \A t \in Threads : Len(stack[t]) \in Nat
      BY DEF TypeOK
    <2>2. Cardinality(RegisteredSlots) \in Nat
      BY RegisteredFinite, FS_CardinalityType
    <2>3. QED
      BY <2>1, <2>2 DEF DepthBound
  <1> DEFINE n == Len(stack[t])
             outer == 1..(n - 1)
             slot == [d \in outer |-> Slot(stack[t][d])]
  <1>1. n \in Nat /\ Cardinality(RegisteredSlots) \in Nat
    BY RegisteredFinite, FS_CardinalityType DEF TypeOK
  <1>2. IsFiniteSet(outer) /\ Cardinality(outer) > Cardinality(RegisteredSlots)
    <2>1. 1 \in Int /\ n - 1 \in Int /\ ~(1 > n - 1)
      BY <1>1
    <2>2. IsFiniteSet(1..(n - 1)) /\ Cardinality(1..(n - 1)) = n - 1
      <3>1. Cardinality(1..(n - 1)) = (n - 1) - 1 + 1
        BY <2>1, FS_Interval
      <3>2. (n - 1) - 1 + 1 = n - 1
        BY <1>1
      <3>3. IsFiniteSet(1..(n - 1))
        BY <2>1, FS_Interval
      <3>4. QED
        BY <3>1, <3>2, <3>3
    <2>3. QED
      BY <1>1, <2>2
  <1>3. \A d \in outer : /\ d \in 1..n /\ d < n
                         /\ stack[t][d].phase = "run"
                         /\ Slot(stack[t][d]) \in RegisteredSlots
    BY <1>1 DEF StackInv, OuterRun, SlotsExist
  <1>4. slot \in [outer -> RegisteredSlots]
    BY <1>3
  <1>5. PICK d1, d2 \in outer : d1 # d2 /\ slot[d1] = slot[d2]
    <2> HIDE DEF outer, slot
    <2>1. Cardinality(RegisteredSlots) < Cardinality(outer)
      BY <1>1, <1>2, FS_CardinalityType
    <2>2. IsFiniteSet(RegisteredSlots)
      BY RegisteredFinite
    <2>3. QED
      BY <1>2, <1>4, <2>1, <2>2, FS_PigeonHole
  <1>6. Slot(stack[t][d1]) # Slot(stack[t][d2])
    BY <1>3, <1>5 DEF NoReentry, Holds
  <1>7. QED
    BY <1>5, <1>6

\* With one thread call_event never nests deeper than the number of hook
\* copies plus one, whatever MaxDepth and whatever the handlers emit.
THEOREM NestingIsBounded ==
    ASSUME NEW t, Threads = {t}
    PROVE  Spec => []DepthBound
  <1>1. TypeOK /\ StackInv /\ NoReentry => DepthBound
    BY DepthFollows
  <1>2. QED
    BY <1>1, TypeCorrect, StackInvariant, HooksDoNotReenter, PTL

-----------------------------------------------------------------------------
(* What a hook prevents, for any number of threads. *)

\* An activation's EventInfo is static or in a frame no deeper than its own.
InfoBelow(f, t, d) == f.info \in StaticInfos \/ \E k \in 1..d : f.info = <<t, k>>

\* What was asked of its EventInfo is set there; of an EventInfo built for it, and
\* while its user hooks run, nothing else is.
Remembers(f, t, d) ==
    /\ \A flag \in f.asked : <<f.info, flag>> \in prevented
    /\ f.info = <<t, d>> /\ f.list = "user" =>
           \A flag \in Flags : <<f.info, flag>> \in prevented => flag \in f.asked

\* Nothing was asked of one that runs default hooks, and one that was asked to go
\* no further is on its way out.
Obeys(f) ==
    /\ f.list = "default" => f.asked = {} /\ f.phase # "after"
    /\ "further" \in f.asked => f.phase \in {"run", "unlock", "after"}

Minds(f, t, d) == InfoBelow(f, t, d) /\ Remembers(f, t, d) /\ Obeys(f)
PreventInv == \A t \in Threads : \A d \in 1..Len(stack[t]) : Minds(stack[t][d], t, d)

\* An EventInfo in a frame is no static one, and in no frame of another thread.
LEMMA InfosDiffer ==
    ASSUME NEW t \in Threads, NEW d \in Nat, NEW f, InfoBelow(f, t, d)
    PROVE  /\ \A u \in Threads, k \in Nat : u # t \/ k > d => f.info # <<u, k>>
           /\ \A g : \A u \in Threads, k \in Nat :
                 InfoBelow(g, u, k) /\ u # t /\ f.info = <<t, d>> => g.info # f.info
  <1>1. \A i \in StaticInfos, v \in Threads, k \in Nat : i # <<v, k>>
    BY ConstantsAssumption
  <1>2. \A u \in Threads, k \in Nat : u # t \/ k > d => f.info # <<u, k>>
    BY <1>1 DEF InfoBelow
  <1>3. ASSUME NEW g, NEW u \in Threads, NEW k \in Nat,
               InfoBelow(g, u, k), u # t, f.info = <<t, d>>
        PROVE  g.info # f.info
    BY <1>1, <1>3 DEF InfoBelow
  <1>4. QED
    BY <1>2, <1>3

\* What is passed.
LEMMA PassedIs ==
    ASSUME NEW t \in Threads
    PROVE  /\ Passed(t, Fresh) = <<t, Len(stack[t]) + 1>>
           /\ Passed(t, Own) = Top(t).info
           /\ \A i \in StaticInfos : Passed(t, i) = i
  BY ConstantsAssumption DEF Passed, InfoArgs

\* A step that replaces the innermost activation by one that minds.
LEMMA MindsTopStep ==
    ASSUME TypeOK, PreventInv, NEW t \in Threads, stack[t] # <<>>, NEW f \in Frames,
           SetTop(t, f), prevented' = prevented, Minds(f, t, Len(stack[t]))
    PROVE  PreventInv'
  <1> DEFINE n == Len(stack[t])
  <1>1. n \in Nat \ {0} /\ \A d \in 1..n : d = n \/ d \in 1..(n - 1)
    BY DEF TypeOK
  <1>2. /\ \A u \in Threads : Len(stack'[u]) = Len(stack[u])
        /\ \A u \in Threads : u # t => stack'[u] = stack[u]
        /\ stack'[t][n] = f
        /\ \A d \in 1..(n - 1) : stack'[t][d] = stack[t][d]
    BY SetTopShape
  <1> SUFFICES ASSUME NEW u \in Threads, NEW d \in 1..Len(stack'[u])
               PROVE  Minds(stack[u][d], u, d)'
    BY DEF PreventInv
  <1>4. Minds(stack'[u][d], u, d)
    BY <1>1, <1>2 DEF PreventInv
  <1>5. QED
    BY <1>4 DEF Minds, InfoBelow, Remembers, Obeys

LEMMA MindsPopStep ==
    ASSUME TypeOK, PreventInv, NEW t \in Threads, stack[t] # <<>>, Pop(t),
           prevented' = prevented
    PROVE  PreventInv'
  <1> DEFINE n == Len(stack[t])
  <1>1. n \in Nat \ {0}
    BY DEF TypeOK
  <1>2. /\ \A u \in Threads : u # t => stack'[u] = stack[u]
        /\ Len(stack'[t]) = n - 1
        /\ \A d \in 1..(n - 1) : stack'[t][d] = stack[t][d] /\ d \in 1..n
    BY <1>1, PopShape
  <1> SUFFICES ASSUME NEW u \in Threads, NEW d \in 1..Len(stack'[u])
               PROVE  Minds(stack[u][d], u, d)'
    BY DEF PreventInv
  <1>3. Minds(stack'[u][d], u, d)
    BY <1>1, <1>2 DEF PreventInv
  <1>4. QED
    BY <1>3 DEF Minds, InfoBelow, Remembers, Obeys

\* An activation that stays at its event and its list.
LEMMA StillMinds ==
    ASSUME NEW t, NEW d, NEW f, NEW g, Minds(f, t, d), Obeys(g),
           g.info = f.info, g.asked = f.asked, g.list = f.list
    PROVE  Minds(g, t, d)
  BY DEF Minds, InfoBelow, Remembers

\* Building an EventInfo for a new activation leaves those of the others alone.
LEMMA MindsAfterPass ==
    ASSUME TypeOK, NEW t \in Threads, NEW arg, Pass(t, arg), NEW u \in Threads, NEW d \in Nat,
           u = t => d <= Len(stack[t]), NEW f, f.asked \subseteq Flags, Minds(f, u, d)
    PROVE  Minds(f, u, d)'
  <1>1. Len(stack[t]) \in Nat
    BY DEF TypeOK
  <1>2. f.info # <<t, Len(stack[t]) + 1>>
    BY <1>1, InfosDiffer DEF Minds
  <1>3. \A flag : <<f.info, flag>> \in prevented' <=> <<f.info, flag>> \in prevented
    BY <1>2, PassedIs DEF Pass
  <1>4. QED
    BY <1>3 DEF Minds, InfoBelow, Remembers, Obeys

\* A new activation minds.
LEMMA NewMinds ==
    ASSUME TypeOK, PreventInv, NEW t \in Threads, NEW e \in Events,
           NEW arg \in InfoArgs \cup {Own}, Pass(t, arg), arg = Own => stack[t] # <<>>,
           NEW f, f = NewFrame(e, Passed(t, arg)), NEW n, n = Len(stack[t])
    PROVE  Minds(f, t, n + 1)'
  <1> DEFINE i == Passed(t, arg)
  <1>1. n \in Nat
    BY DEF TypeOK
  <1>2. f.info = i /\ f.asked = {} /\ f.list = "user" /\ f.phase = "scan"
    BY DEF NewFrame
  <1>3. i \in StaticInfos \/ \E k \in 1..(n + 1) : i = <<t, k>>
    <2>1. CASE arg = Fresh
      BY <1>1, <2>1, PassedIs
    <2>2. CASE arg = Own
      <3>1. n \in 1..n /\ Top(t) = stack[t][n]
        BY <2>2, TopType DEF Top
      <3>2. InfoBelow(Top(t), t, n)
        BY <3>1 DEF PreventInv, Minds
      <3>3. i = Top(t).info
        BY <2>2, PassedIs
      <3>4. QED
        BY <1>1, <3>2, <3>3 DEF InfoBelow
    <2>3. CASE arg \in StaticInfos
      BY <2>3, PassedIs
    <2>4. QED
      BY <2>1, <2>2, <2>3 DEF InfoArgs
  <1>4. i = <<t, n + 1>> => \A flag \in Flags : <<i, flag>> \notin prevented'
    <2>1. CASE arg = Fresh
      BY <2>1 DEF Pass
    <2>2. CASE arg = Own
      <3>1. n \in 1..n /\ Top(t) = stack[t][n]
        BY <2>2, TopType DEF Top
      <3>2. InfoBelow(Top(t), t, n)
        BY <3>1 DEF PreventInv, Minds
      <3>3. i = Top(t).info
        BY <2>2, PassedIs
      <3>4. n + 1 \in Nat /\ n + 1 > n
        BY <1>1
      <3>5. QED
        BY <1>1, <3>2, <3>3, <3>4, InfosDiffer
    <2>3. CASE arg \in StaticInfos
      <3>1. i = arg
        BY <2>3, PassedIs
      <3>2. QED
        BY <1>1, <2>3, <3>1, ConstantsAssumption
    <2>4. QED
      BY <2>1, <2>2, <2>3 DEF InfoArgs
  <1>5. InfoBelow(f, t, n + 1) /\ Obeys(f)
    BY <1>2, <1>3 DEF InfoBelow, Obeys
  <1>6. /\ \A flag \in f.asked : <<f.info, flag>> \in prevented'
        /\ f.info = <<t, n + 1>> => \A flag \in Flags : <<f.info, flag>> \notin prevented'
    BY <1>2, <1>4
  <1>7. QED
    BY <1>5, <1>6 DEF Minds, InfoBelow, Obeys, Remembers

\* A handler that sets a flag: every activation of its thread that was given the
\* EventInfo notes it, and no other thread's has it for its own.
LEMMA MindsPrevents ==
    ASSUME TypeOK, StackInv, PreventInv,
           NEW t \in Threads, NEW flag \in Flags, HandlerPrevents(t, flag)
    PROVE  PreventInv'
  <1> DEFINE n == Len(stack[t])
             i == Top(t).info
  <1>1. n \in Nat \ {0} /\ Top(t) = stack[t][n] /\ Top(t).phase = "run"
    BY TopType DEF HandlerPrevents, At, Top
  <1>2. InfoBelow(Top(t), t, n)
    BY <1>1 DEF PreventInv, Minds
  <1>3. /\ \A u \in Threads : Len(stack'[u]) = Len(stack[u])
        /\ \A u \in Threads : u # t => stack'[u] = stack[u]
        /\ \A d \in 1..n : stack'[t][d] = Record(stack[t][d], i, flag)
    BY PreventShape DEF HandlerPrevents, TypeOK
  <1>4. prevented' = prevented \cup {<<i, flag>>}
    BY DEF HandlerPrevents
  <1>5. \A d \in 1..n : stack[t][d].phase = "run"
    BY <1>1 DEF StackInv, OuterRun
  <1> HIDE DEF i
  <1> SUFFICES ASSUME NEW u \in Threads, NEW d \in 1..Len(stack[u])
               PROVE  Minds(stack[u][d], u, d)'
    BY <1>3 DEF PreventInv
  <1> DEFINE f == stack[u][d]
             g == stack'[u][d]
  <1>6. f \in Frames /\ d \in Nat /\ Minds(f, u, d)
    BY DEF PreventInv, TypeOK
  <1>7. CASE u # t
    <2>1. g = f
      BY <1>3, <1>7
    <2>2. f.info = <<u, d>> => i # f.info
      BY <1>1, <1>2, <1>6, <1>7, InfosDiffer DEF Minds, i
    <2> HIDE DEF f, g
    <2>3. QED
      BY <1>4, <1>6, <2>1, <2>2 DEF Minds, InfoBelow, Remembers, Obeys, g
  <1>8. CASE u = t
    <2>1. g = Record(f, i, flag) /\ f.phase = "run"
      BY <1>3, <1>5, <1>8
    <2>2. CASE f.info = i /\ f.list = "user"
      <3>1. g = [f EXCEPT !.asked = f.asked \cup {flag}]
        BY <2>1, <2>2 DEF Record
      <3>2. g.info = f.info /\ g.list = "user" /\ g.phase = "run" /\ g.asked = f.asked \cup {flag}
        BY <1>6, <2>1, <2>2, <3>1 DEF Frames
      <3> HIDE DEF f, g
      <3>3. QED
        BY <1>4, <1>6, <2>2, <3>2 DEF Minds, InfoBelow, Remembers, Obeys, g
    <2>3. CASE ~(f.info = i /\ f.list = "user")
      <3>1. g = f
        BY <2>1, <2>3 DEF Record
      <3> HIDE DEF f, g
      <3>2. QED
        BY <1>4, <1>6, <2>3, <3>1 DEF Minds, InfoBelow, Remembers, Obeys, g
    <2>4. QED
      BY <2>2, <2>3
  <1>9. QED
    BY <1>7, <1>8

\* A handler that emits an event: one activation more.
LEMMA MindsEmits ==
    ASSUME TypeOK, PreventInv, NEW t \in Threads, HandlerEmits(t)
    PROVE  PreventInv'
  <1> DEFINE n == Len(stack[t])
  <1>1. PICK c \in Nested :
          /\ stack' = [stack EXCEPT ![t] = Append([@ EXCEPT ![Len(@)] = [Top(t) EXCEPT !.calls = @ + 1]],
                                             NewFrame(c.ev, Passed(t, c.info)))]
          /\ Pass(t, c.info)
    BY DEF HandlerEmits
  <1>2. c.ev \in Events /\ c.info \in InfoArgs \cup {Own}
    BY ConstantsAssumption
  <1>3. /\ stack[t] # <<>> /\ n < MaxDepth /\ n \in Nat \ {0}
        /\ Top(t) \in Frames /\ Top(t) = stack[t][n]
    BY TopType DEF HandlerEmits, At, Top
  <1>4. PICK new \in Frames : new = NewFrame(c.ev, Passed(t, c.info))
    BY <1>2, <1>3, NewFrameType
  <1>5. PICK caller \in Frames : caller = [Top(t) EXCEPT !.calls = @ + 1]
    <2> DEFINE k == Top(t).calls
    <2>1. k + 1 \in 0..MaxCalls
      <3>1. k \in 0..MaxCalls /\ k < MaxCalls
        BY <1>3 DEF HandlerEmits, Frames
      <3> HIDE DEF k
      <3>2. QED
        BY <3>1, ConstantsAssumption
    <2>2. [Top(t) EXCEPT !.calls = @ + 1] \in Frames
      BY <1>3, <2>1 DEF Frames
    <2>3. QED
      BY <2>2
  <1>6. Minds(caller, t, n)
    <2>1. Minds(Top(t), t, n)
      BY <1>3 DEF PreventInv
    <2>2. /\ caller.info = Top(t).info /\ caller.asked = Top(t).asked
          /\ caller.list = Top(t).list /\ caller.phase = Top(t).phase
      BY <1>3, <1>5 DEF Frames
    <2>3. Obeys(caller)
      BY <2>1, <2>2 DEF Minds, Obeys
    <2>4. QED
      BY <2>1, <2>2, <2>3, StillMinds
  <1>7. /\ \A u \in Threads : u # t => stack'[u] = stack[u]
        /\ Len(stack'[t]) = n + 1
        /\ stack'[t][n] = caller
        /\ stack'[t][n + 1] = new
        /\ \A d \in 1..(n - 1) : stack'[t][d] = stack[t][d]
    <2>1. stack' = [stack EXCEPT ![t] = Append([@ EXCEPT ![Len(@)] = caller], new)]
      BY <1>1, <1>4, <1>5
    <2>2. QED
      BY <1>3, <2>1, PushShape
  <1> SUFFICES ASSUME NEW u \in Threads, NEW d \in 1..Len(stack'[u])
               PROVE  Minds(stack[u][d], u, d)'
    BY DEF PreventInv
  <1>8. PICK f, k : f = stack'[u][d] /\ k = d
    OBVIOUS
  <1>9. ASSUME Minds(f, u, k)'
        PROVE  Minds(stack[u][d], u, d)'
    BY <1>8, <1>9 DEF Minds, InfoBelow, Remembers, Obeys
  <1>10. CASE u = t /\ d = n + 1
    <2>1. PICK m : m = n
      OBVIOUS
    <2>2. Minds(new, t, m + 1)'
      BY <1>1, <1>2, <1>3, <1>4, <2>1, NewMinds
    <2>3. Minds(f, u, k)'
      BY <1>7, <1>8, <1>10, <2>1, <2>2 DEF Minds, InfoBelow, Remembers, Obeys
    <2>4. QED
      BY <1>9, <2>3
  <1>11. CASE u = t /\ d = n
    <2>1. f = caller /\ k = n /\ caller.asked \subseteq Flags
      BY <1>7, <1>8, <1>11 DEF Frames
    <2>2. Minds(f, u, k)
      BY <1>6, <1>11, <2>1
    <2>3. QED
      BY <1>1, <1>3, <1>9, <1>11, <2>1, <2>2, MindsAfterPass
  <1>12. CASE u # t \/ d \in 1..(n - 1)
    <2>1. d \in 1..Len(stack[u]) /\ f = stack[u][d]
      BY <1>3, <1>7, <1>8, <1>12
    <2>2. f \in Frames /\ d \in Nat
      BY <2>1 DEF TypeOK
    <2>3. f.asked \subseteq Flags /\ Minds(f, u, k) /\ k \in Nat
      BY <1>8, <2>1, <2>2 DEF Frames, PreventInv
    <2>4. u = t => k <= n
      BY <1>3, <1>8, <1>12
    <2>5. QED
      BY <1>1, <1>9, <2>3, <2>4, MindsAfterPass
  <1>13. QED
    BY <1>3, <1>7, <1>10, <1>11, <1>12

\* The same of a thread's first activation.
LEMMA MindsEmit ==
    ASSUME TypeOK, PreventInv, NEW t \in Threads, Emit(t)
    PROVE  PreventInv'
  <1>1. PICK c \in Emits :
          /\ stack' = [stack EXCEPT ![t] = <<NewFrame(c.ev, Passed(t, c.info))>>]
          /\ Pass(t, c.info)
    BY DEF Emit
  <1>2. c.ev \in Events /\ c.info \in InfoArgs \cup {Own} /\ c.info # Own
    BY ConstantsAssumption
  <1>3. stack[t] = <<>> /\ Len(stack[t]) = 0
    BY DEF Emit
  <1>4. PICK new : new = NewFrame(c.ev, Passed(t, c.info))
    OBVIOUS
  <1>5. stack'[t] = <<new>> /\ \A u \in Threads : u # t => stack'[u] = stack[u]
    BY <1>1, <1>4 DEF TypeOK
  <1>6. Minds(new, t, 0 + 1)'
    BY <1>1, <1>2, <1>3, <1>4, NewMinds
  <1> SUFFICES ASSUME NEW u \in Threads, NEW d \in 1..Len(stack'[u])
               PROVE  Minds(stack[u][d], u, d)'
    BY DEF PreventInv
  <1>7. PICK f, k : f = stack'[u][d] /\ k = d
    OBVIOUS
  <1>8. ASSUME Minds(f, u, k)'
        PROVE  Minds(stack[u][d], u, d)'
    BY <1>7, <1>8 DEF Minds, InfoBelow, Remembers, Obeys
  <1>9. CASE u = t
    <2>1. f = new /\ k = 0 + 1
      BY <1>5, <1>7, <1>9
    <2>2. QED
      BY <1>6, <1>8, <1>9, <2>1
  <1>10. CASE u # t
    <2>1. d \in 1..Len(stack[u]) /\ f = stack[u][d]
      BY <1>5, <1>7, <1>10
    <2>2. f \in Frames /\ d \in Nat
      BY <2>1 DEF TypeOK
    <2>3. f.asked \subseteq Flags /\ Minds(f, u, k) /\ k \in Nat
      BY <1>7, <2>1, <2>2 DEF Frames, PreventInv
    <2>4. QED
      BY <1>1, <1>8, <1>10, <2>3, MindsAfterPass
  <1>11. QED
    BY <1>9, <1>10

\* No step makes an activation forget what its hooks have asked for.
LEMMA PreventStep == TypeOK /\ StackInv /\ PreventInv /\ [Next]_vars => PreventInv'
  <1> SUFFICES ASSUME TypeOK, StackInv, PreventInv, [Next]_vars
               PROVE  PreventInv'
    OBVIOUS
  <1>1. ASSUME UNCHANGED <<stack, prevented>>
        PROVE  PreventInv'
    BY <1>1 DEF PreventInv, Minds, InfoBelow, Remembers, Obeys
  \* The innermost activation goes on, with the same EventInfo and list.
  <1>2. ASSUME NEW t \in Threads, stack[t] # <<>>, NEW f \in Frames, SetTop(t, f),
               prevented' = prevented,
               f.info = Top(t).info, f.asked = Top(t).asked, f.list = Top(t).list, Obeys(f)
        PROVE  PreventInv'
    <2>1. Len(stack[t]) \in 1..Len(stack[t])
      BY <1>2, TopType
    <2>2. Minds(Top(t), t, Len(stack[t]))
      BY <2>1 DEF PreventInv, Top
    <2>3. Minds(f, t, Len(stack[t]))
      BY <1>2, <2>2, StillMinds
    <2>4. QED
      BY <1>2, <2>3, MindsTopStep
  <1>3. ASSUME NEW t \in Threads, stack[t] # <<>>
        PROVE  Top(t) \in Frames /\ Obeys(Top(t)) /\ Minds(Top(t), t, Len(stack[t]))
    <2>1. Len(stack[t]) \in 1..Len(stack[t]) /\ Top(t) \in Frames
      BY <1>3, TopType
    <2>2. QED
      BY <2>1 DEF PreventInv, Top, Minds
  <1>4. ASSUME NEW t \in Threads, SkipBusy(t)
        PROVE  PreventInv'
    <2> DEFINE f == NextHook(Top(t))
    <2>1. stack[t] # <<>> /\ f \in Frames /\ Top(t) \in Frames /\ Top(t).phase = "scan"
      BY <1>4, TopType DEF SkipBusy, At
    <2>2. /\ f.info = Top(t).info /\ f.asked = Top(t).asked
          /\ f.list = Top(t).list /\ f.phase = "scan"
      BY <2>1 DEF NextHook, Frames
    <2>3. SetTop(t, f) /\ prevented' = prevented
      BY <1>4 DEF SkipBusy
    <2> HIDE DEF f
    <2>4. QED
      BY <1>2, <1>3, <2>1, <2>2, <2>3 DEF Obeys
  <1>5. ASSUME NEW t \in Threads, FindFree(t)
        PROVE  PreventInv'
    <2> DEFINE f == [Top(t) EXCEPT !.phase = "claim"]
    <2>1. stack[t] # <<>> /\ Top(t) \in Frames /\ Top(t).phase = "scan" /\ f \in Frames
      BY <1>5, TopType, FrameUpdates DEF FindFree, At
    <2>2. /\ f.info = Top(t).info /\ f.asked = Top(t).asked
          /\ f.list = Top(t).list /\ f.phase = "claim"
      BY <2>1 DEF Frames
    <2>3. SetTop(t, f) /\ prevented' = prevented
      BY <1>5 DEF FindFree
    <2> HIDE DEF f
    <2>4. QED
      BY <1>2, <1>3, <2>1, <2>2, <2>3 DEF Obeys
  <1>6. ASSUME NEW t \in Threads, Claim(t)
        PROVE  PreventInv'
    <2> DEFINE f == [Top(t) EXCEPT !.phase = "run", !.calls = 0]
    <2>1. stack[t] # <<>> /\ Top(t) \in Frames /\ f \in Frames
      BY <1>6, TopType, FrameUpdates DEF Claim, At
    <2>2. /\ f.info = Top(t).info /\ f.asked = Top(t).asked
          /\ f.list = Top(t).list /\ f.phase = "run"
      BY <2>1 DEF Frames
    <2>3. SetTop(t, f) /\ prevented' = prevented
      BY <1>6 DEF Claim
    <2> HIDE DEF f
    <2>4. QED
      BY <1>2, <1>3, <2>1, <2>2, <2>3 DEF Obeys
  <1>7. ASSUME NEW t \in Threads, HandlerReturns(t)
        PROVE  PreventInv'
    <2> DEFINE f == [Top(t) EXCEPT !.phase = "unlock"]
    <2>1. stack[t] # <<>> /\ Top(t) \in Frames /\ f \in Frames
      BY <1>7, TopType, FrameUpdates DEF HandlerReturns, At
    <2>2. /\ f.info = Top(t).info /\ f.asked = Top(t).asked
          /\ f.list = Top(t).list /\ f.phase = "unlock"
      BY <2>1 DEF Frames
    <2>3. SetTop(t, f) /\ prevented' = prevented
      BY <1>7 DEF HandlerReturns
    <2> HIDE DEF f
    <2>4. QED
      BY <1>2, <1>3, <2>1, <2>2, <2>3 DEF Obeys
  <1>8. ASSUME NEW t \in Threads, Unlock(t)
        PROVE  PreventInv'
    <2>1. stack[t] # <<>> /\ Top(t) \in Frames /\ NextHook(Top(t)) \in Frames
      BY <1>8, TopType DEF Unlock, At
    <2> DEFINE f == [Top(t) EXCEPT !.phase = "after"]
               g == NextHook(Top(t))
    <2>2. /\ f \in Frames /\ f.info = Top(t).info /\ f.asked = Top(t).asked
          /\ f.list = Top(t).list /\ f.phase = "after"
      BY <2>1 DEF Frames
    <2>3. /\ g.info = Top(t).info /\ g.asked = Top(t).asked
          /\ g.list = Top(t).list /\ g.phase = "scan"
      BY <2>1 DEF NextHook, Frames
    <2>4. prevented' = prevented /\ SetTop(t, IF Top(t).list = "user" THEN f ELSE g)
      BY <1>8 DEF Unlock
    <2>5. Top(t).list \in {"user", "default"}
      BY <2>1 DEF Frames, Lists
    <2> HIDE DEF f, g
    <2>6. CASE Top(t).list = "user"
      BY <1>2, <1>3, <2>1, <2>2, <2>4, <2>6 DEF Obeys
    <2>7. CASE Top(t).list = "default"
      BY <1>2, <1>3, <2>1, <2>3, <2>4, <2>7 DEF Obeys, g
    <2>8. QED
      BY <2>5, <2>6, <2>7
  <1>9. ASSUME NEW t \in Threads, Continue(t)
        PROVE  PreventInv'
    <2> DEFINE f == NextHook(Top(t))
    <2>1. stack[t] # <<>> /\ f \in Frames /\ Top(t) \in Frames /\ Top(t).phase = "after"
      BY <1>9, TopType DEF Continue, At
    <2>2. /\ f.info = Top(t).info /\ f.asked = Top(t).asked
          /\ f.list = Top(t).list /\ f.phase = "scan"
      BY <2>1 DEF NextHook, Frames
    <2>3. /\ SetTop(t, f) /\ prevented' = prevented
          /\ <<Top(t).info, "further">> \notin prevented
      BY <1>9 DEF Continue
    <2>4. "further" \notin Top(t).asked
      BY <1>3, <2>1, <2>3 DEF Minds, Remembers
    <2> HIDE DEF f
    <2>5. QED
      BY <1>2, <1>3, <2>1, <2>2, <2>3, <2>4 DEF Obeys
  <1>10. ASSUME NEW t \in Threads, BeginDefaults(t)
         PROVE  PreventInv'
    <2> DEFINE f == [Top(t) EXCEPT !.list = "default", !.pos = 1]
    <2>1. stack[t] # <<>> /\ Top(t) \in Frames /\ f \in Frames /\ Top(t).phase = "scan"
      BY <1>10, TopType, FrameUpdates DEF BeginDefaults, AtEnd, At
    <2>2. /\ f.info = Top(t).info /\ f.asked = Top(t).asked
          /\ f.list = "default" /\ f.phase = "scan"
      BY <2>1 DEF Frames
    <2>3. /\ SetTop(t, f) /\ prevented' = prevented
          /\ \A flag \in Flags : <<Top(t).info, flag>> \notin prevented
      BY <1>10 DEF BeginDefaults
    <2>4. Top(t).asked = {}
      BY <1>3, <2>1, <2>3 DEF Minds, Remembers, Frames
    <2> HIDE DEF f
    <2>5. Minds(f, t, Len(stack[t]))
      BY <1>3, <2>1, <2>2, <2>4 DEF Minds, InfoBelow, Remembers, Obeys
    <2>6. QED
      BY <2>1, <2>3, <2>5, MindsTopStep
  <1>11. ASSUME NEW t \in Threads, StopFurther(t) \/ SkipDefaults(t) \/ Finish(t)
         PROVE  PreventInv'
    BY <1>11, MindsPopStep DEF StopFurther, SkipDefaults, Finish, AtEnd, At
  <1>12. QED
    BY <1>1, <1>4, <1>5, <1>6, <1>7, <1>8, <1>9, <1>10, <1>11, MindsPrevents, MindsEmits,
       MindsEmit DEF Next, Dispatch, AddHook, Start, vars

LEMMA PreventInvariant == Spec => []PreventInv
  <1>1. Init => PreventInv
    BY DEF Init, PreventInv
  <1>2. QED
    BY <1>1, PreventStep, TypeCorrect, StackInvariant, PTL DEF Spec

\* Whatever the other threads do with the same EventInfo: once a user hook has set
\* prevent_further no hook of the event is run, and once it has set prevent_default
\* no default hook is.
THEOREM PreventionHonoured == Spec => HonoursPrevention
  <1> DEFINE Honours == \A t \in Threads : Claim(t) =>
                 IF Top(t).list = "user" THEN "further" \notin Top(t).asked
                                         ELSE Top(t).asked = {}
  <1>1. TypeOK /\ PreventInv => Honours
    <2> SUFFICES ASSUME TypeOK, PreventInv, NEW t \in Threads, Claim(t)
                 PROVE  IF Top(t).list = "user" THEN "further" \notin Top(t).asked
                                                ELSE Top(t).asked = {}
      OBVIOUS
    <2>1. stack[t] # <<>> /\ Top(t).phase = "claim"
      BY DEF Claim, At
    <2>2. Top(t) \in Frames /\ Len(stack[t]) \in 1..Len(stack[t])
      BY <2>1, TopType
    <2>3. Obeys(Top(t)) /\ Top(t).list \in {"user", "default"}
      BY <2>2 DEF PreventInv, Minds, Top, Frames, Lists
    <2>4. QED
      BY <2>1, <2>3 DEF Obeys
  <1>2. TypeOK /\ PreventInv => [Honours]_vars
    BY <1>1
  <1>3. QED
    BY <1>2, TypeCorrect, PreventInvariant, PTL DEF HonoursPrevention

\* A dispatch with an EventInfo of its own is cut short only if one of its hooks, or
\* a handler further in that was given the same one, has asked for it.
THEOREM EndsAsAsked == Spec => EndsOnlyOnRequest
  <1> DEFINE Ends == \A t \in Threads :
                 /\ StopFurther(t) \/ SkipDefaults(t)
                 /\ Top(t).info = <<t, Len(stack[t])>>
                 => Top(t).asked # {}
  <1>1. TypeOK /\ PreventInv => Ends
    <2> SUFFICES ASSUME TypeOK, PreventInv, NEW t \in Threads, StopFurther(t) \/ SkipDefaults(t),
                        Top(t).info = <<t, Len(stack[t])>>
                 PROVE  Top(t).asked # {}
      OBVIOUS
    <2>1. stack[t] # <<>> /\ \E flag \in Flags : <<Top(t).info, flag>> \in prevented
      BY DEF StopFurther, SkipDefaults, AtEnd, At, Flags
    <2>2. Top(t) \in Frames /\ Len(stack[t]) \in 1..Len(stack[t])
      BY <2>1, TopType
    <2>3. Minds(Top(t), t, Len(stack[t])) /\ Top(t).list \in {"user", "default"}
      BY <2>2 DEF PreventInv, Top, Frames, Lists
    <2>4. Top(t).list = "user"
      BY <2>3 DEF Minds, Obeys, StopFurther, SkipDefaults, AtEnd, At
    <2>5. QED
      BY <2>1, <2>3, <2>4 DEF Minds, Remembers
  <1>2. TypeOK /\ PreventInv => [Ends]_vars
    BY <1>1
  <1>3. QED
    BY <1>2, TypeCorrect, PreventInvariant, PTL DEF EndsOnlyOnRequest

-----------------------------------------------------------------------------
(* Dispatch descends. *)

\* The flags of an EventInfo that are not up.
Unset(info, p) ==
    (IF <<info, "further">> \in p THEN 0 ELSE 1) + (IF <<info, "default">> \in p THEN 0 ELSE 1)

\* The hooks that an activation has still to look at, with one more for the step from
\* one list to the other.
Left(f, size) == IF f.pos > size THEN 0 ELSE (size - f.pos) + 1
Ahead(f, h) == IF f.list = "user" THEN Left(f, Len(h[f.ev])) + 1 + Defaults[f.ev]
               ELSE Left(f, Defaults[f.ev])
Stage(f) == IF f.phase = "scan" THEN 5 ELSE IF f.phase = "claim" THEN 4
            ELSE IF f.phase = "run" THEN 3 ELSE IF f.phase = "unlock" THEN 2 ELSE 1
Place(f, h) == 6 * Ahead(f, h) + Stage(f)

\* The work an activation has left: its place counts for more than all that a handler
\* can do there, which is to emit MaxCalls events and to set two flags.
Rank(f, h, p) == Place(f, h) * (MaxCalls + 3) + ((MaxCalls - f.calls) + Unset(f.info, p))
Work(t) ==
    [d \in 1..MaxDepth |-> IF d <= Len(stack[t]) THEN Rank(stack[t][d], hooks, prevented) ELSE 0]

\* v is less than w at the outermost activation where they differ.
Descends(n, v, w) == \E d \in 1..n : v[d] < w[d] /\ \A e \in 1..(d - 1) : v[e] = w[e]

\* A set of numbers that is not empty has a least one.
LEMMA LeastIs ==
    ASSUME NEW T \in SUBSET Nat, T # {}
    PROVE  \E x \in T : \A y \in T : x <= y
  <1>1. PICK x \in T : \A y \in T : <<y, x>> \notin OpToRel(<, Nat)
    BY NatLessThanWellFounded, WFMin
  <1>2. \A y \in T : ~ (y < x)
    BY <1>1 DEF OpToRel
  <1>3. QED
    BY <1>2

\* The order of works is well-founded: nothing descends for ever.
THEOREM DescentEnds ==
    ASSUME NEW n \in Nat
    PROVE  IsWellFoundedOn({r \in [1..n -> Nat] \X [1..n -> Nat] : Descends(n, r[1], r[2])},
                           [1..n -> Nat])
  <1> DEFINE S == [1..n -> Nat]
             R == {r \in S \X S : Descends(n, r[1], r[2])}
             Below(k, v, w) == \E d \in 1..k : v[d] < w[d] /\ \A e \in 1..(d - 1) : v[e] = w[e]
  <1>1. ASSUME NEW T \in SUBSET S, T # {}  PROVE \E x \in T : \A y \in T : <<y, x>> \notin R
    <2> DEFINE Least(k) == \E x \in T : \A y \in T : ~Below(k, y, x)
               Lacking == {k \in 0..n : ~Least(k)}
    <2>1. Least(0)
      BY <1>1
    <2>2. ASSUME NEW k \in 0..n, k + 1 \in 0..n, Least(k)  PROVE Least(k + 1)
      <3>1. PICK x \in T : \A y \in T : ~Below(k, y, x)
        BY <2>2
      <3> DEFINE Same == {y \in T : \A e \in 1..k : y[e] = x[e]}
                 Heads == {y[k + 1] : y \in Same}
      <3>2. k + 1 \in 1..n /\ x \in Same
        BY <2>2
      <3>3. \A y \in T, d \in 1..n : y[d] \in Nat
        BY <1>1
      <3>4. Heads \in SUBSET Nat /\ Heads # {}
        BY <3>2, <3>3
      <3>5. PICK h \in Heads : \A g \in Heads : h <= g
        <4> HIDE DEF Heads
        <4>1. QED
          BY <3>4, LeastIs
      <3>6. PICK y \in Same : y[k + 1] = h
        OBVIOUS
      <3>7. ASSUME NEW z \in T, Below(k + 1, z, y)  PROVE FALSE
        <4>1. PICK d \in 1..(k + 1) : z[d] < y[d] /\ \A e \in 1..(d - 1) : z[e] = y[e]
          BY <3>7
        <4>2. CASE d \in 1..k
          <5>1. \A e \in 1..(d - 1) : e \in 1..k
            BY <2>2, <4>2
          <5>2. z[d] < x[d] /\ \A e \in 1..(d - 1) : z[e] = x[e]
            BY <3>6, <4>1, <4>2, <5>1
          <5>3. QED
            BY <3>1, <4>2, <5>2
        <4>3. CASE d = k + 1
          <5>1. \A e \in 1..k : e \in 1..(d - 1)
            BY <2>2, <4>3
          <5>2. z \in Same
            BY <3>6, <4>1, <5>1
          <5>3. h <= z[k + 1]
            BY <3>5, <5>2
          <5>4. QED
            BY <3>2, <3>3, <3>6, <4>1, <4>3, <5>3
        <4>4. QED
          BY <2>2, <4>1, <4>2, <4>3
      <3>8. QED
        BY <3>6, <3>7
    <2>3. Lacking = {}
      <3> SUFFICES ASSUME Lacking # {}  PROVE FALSE
        OBVIOUS
      <3>1. PICK k \in Lacking : \A j \in Lacking : k <= j
        <4>1. Lacking \in SUBSET Nat
          OBVIOUS
        <4> HIDE DEF Lacking
        <4>2. QED
          BY <4>1, LeastIs
      <3> HIDE DEF Least
      <3>2. k \in 0..n /\ ~Least(k) /\ k # 0
        BY <2>1
      <3>3. k - 1 \in 0..n /\ (k - 1) + 1 = k /\ k - 1 \notin Lacking
        <4> HIDE DEF Lacking
        <4>1. QED
          BY <3>1, <3>2
      <3>4. Least(k - 1)
        BY <3>3
      <3>5. Least((k - 1) + 1)
        BY <2>2, <3>2, <3>3, <3>4
      <3>6. QED
        BY <3>2, <3>3, <3>5
    <2>4. Least(n)
      <3> HIDE DEF Least
      <3>1. QED
        BY <2>3
    <2>5. \A y, x \in T : <<y, x>> \in R <=> Below(n, y, x)
      BY DEF Descends
    <2>6. QED
      <3> HIDE DEF R, Below
      <3>1. QED
        BY <2>4, <2>5
  <1>2. QED
    <2> HIDE DEF R, S
    <2>1. IsWellFoundedOn(R, S)
      BY <1>1, MinWF
    <2>2. QED
      BY <2>1 DEF R, S

\* What has not grown before a place where it has shrunk descends.
LEMMA ShrunkDescends ==
    ASSUME NEW n \in Nat, NEW v \in [1..n -> Nat], NEW w \in [1..n -> Nat],
           NEW k \in 1..n, v[k] < w[k], \A e \in 1..(k - 1) : v[e] <= w[e]
    PROVE  Descends(n, v, w)
  <1> DEFINE T == {d \in 1..n : v[d] < w[d]}
  <1>1. T \in SUBSET Nat /\ k \in T
    OBVIOUS
  <1>2. PICK d \in T : \A e \in T : d <= e
    <2> HIDE DEF T
    <2>1. QED
      BY <1>1, LeastIs
  <1>3. d <= k /\ d \in 1..n /\ v[d] < w[d]
    BY <1>1, <1>2
  <1>4. ASSUME NEW e \in 1..(d - 1)  PROVE v[e] = w[e]
    <2>1. e \in 1..(k - 1) /\ e \in 1..n /\ ~(d <= e)
      BY <1>3
    <2>2. ~(v[e] < w[e])
      BY <1>2, <2>1
    <2>3. QED
      BY <2>1, <2>2
  <1>5. QED
    BY <1>3, <1>4 DEF Descends

\* There are two flags.
LEMMA UnsetIs ==
    ASSUME NEW i, NEW p
    PROVE  Unset(i, p) \in 0..2
  BY DEF Unset

\* The more is up, the less is left; and a flag that goes up leaves less.
LEMMA UnsetShrinks ==
    ASSUME NEW i, NEW p, NEW q, \A flag \in Flags : <<i, flag>> \in p => <<i, flag>> \in q
    PROVE  /\ Unset(i, q) <= Unset(i, p)
           /\ (\E flag \in Flags : <<i, flag>> \notin p /\ <<i, flag>> \in q)
                 => Unset(i, q) < Unset(i, p)
  <1>1. /\ <<i, "further">> \in p => <<i, "further">> \in q
        /\ <<i, "default">> \in p => <<i, "default">> \in q
    BY DEF Flags
  <1>2. (\E flag \in Flags : <<i, flag>> \notin p /\ <<i, flag>> \in q)
           => \/ <<i, "further">> \notin p /\ <<i, "further">> \in q
              \/ <<i, "default">> \notin p /\ <<i, "default">> \in q
    BY DEF Flags
  <1>3. QED
    BY <1>1, <1>2 DEF Unset

\* The numbers that make up a rank.
LEMMA RankIs ==
    ASSUME NEW f \in Frames, NEW h \in [Events -> Seq(1..MaxHooks)], NEW p
    PROVE  /\ Ahead(f, h) \in Nat /\ Stage(f) \in 1..5 /\ Place(f, h) \in Nat \ {0}
           /\ MaxCalls - f.calls \in 0..MaxCalls /\ MaxCalls \in Nat
           /\ Rank(f, h, p) \in Nat \ {0}
  <1>1. /\ f.ev \in Events /\ f.pos \in Nat \ {0} /\ f.calls \in 0..MaxCalls
        /\ f.list \in Lists /\ f.phase \in {"scan", "claim", "run", "unlock", "after"}
    BY DEF Frames
  <1>2. Len(h[f.ev]) \in Nat /\ Defaults[f.ev] \in Nat /\ MaxCalls \in Nat
    BY <1>1, ConstantsAssumption
  <1>3. \A n \in Nat : Left(f, n) \in Nat
    BY <1>1 DEF Left
  <1>4. Ahead(f, h) \in Nat
    <2>1. Left(f, Len(h[f.ev])) \in Nat /\ Left(f, Defaults[f.ev]) \in Nat
      BY <1>2, <1>3
    <2>2. QED
      BY <1>2, <2>1 DEF Ahead
  <1>5. Stage(f) \in 1..5
    BY <1>1 DEF Stage
  <1>6. Place(f, h) \in Nat \ {0}
    BY <1>4, <1>5 DEF Place
  <1>7. MaxCalls - f.calls \in 0..MaxCalls
    BY <1>1, <1>2
  <1>8. Rank(f, h, p) \in Nat \ {0}
    <2> DEFINE r == (MaxCalls - f.calls) + Unset(f.info, p)
    <2>1. r \in Nat
      BY <1>2, <1>7, UnsetIs
    <2>2. Rank(f, h, p) = Place(f, h) * (MaxCalls + 3) + r
      BY DEF Rank
    <2> HIDE DEF r
    <2>3. ASSUME NEW a \in Nat \ {0}, NEW b \in Nat, NEW c \in Nat
          PROVE  a * (b + 3) + c \in Nat \ {0}
      <3>1. a * (b + 3) = a * b + 3 * a /\ a * b \in Nat
        OBVIOUS
      <3>2. QED
        BY <3>1
    <2>4. QED
      BY <1>2, <1>6, <2>1, <2>2, <2>3
  <1>9. QED
    BY <1>2, <1>4, <1>5, <1>6, <1>7, <1>8

\* A place counts for more than what is done there.
LEMMA Outweighs ==
    ASSUME NEW a \in Nat, NEW b \in Nat, a < b, NEW k \in Nat, NEW r \in 0..(k + 2), NEW s \in Nat
    PROVE  a * (k + 3) + r < b * (k + 3) + s
  <1>1. b - a \in Nat /\ b - a >= 1
    OBVIOUS
  <1>2. ASSUME NEW d \in Nat, d >= 1, NEW m \in Nat  PROVE m <= d * m
    <2>1. d - 1 \in Nat /\ (d - 1) * m \in Nat /\ d * m = (d - 1) * m + m
      BY <1>2
    <2>2. QED
      BY <2>1
  <1>3. k + 3 <= (b - a) * (k + 3)
    BY <1>1, <1>2
  <1>4. (b - a) * (k + 3) = b * (k + 3) - a * (k + 3)
    OBVIOUS
  <1>5. a * (k + 3) \in Nat /\ b * (k + 3) \in Nat
    OBVIOUS
  <1>6. ASSUME NEW x \in Nat, NEW y \in Nat, k + 3 <= y - x  PROVE x + r < y + s
    BY <1>6
  <1>7. QED
    BY <1>3, <1>4, <1>5, <1>6

\* An activation that has come further has less work left.
LEMMA FurtherIsLess ==
    ASSUME NEW f \in Frames, NEW g \in Frames, NEW h \in [Events -> Seq(1..MaxHooks)],
           NEW p, NEW q, Place(g, h) < Place(f, h)
    PROVE  Rank(g, h, q) < Rank(f, h, p)
  <1> DEFINE r == (MaxCalls - g.calls) + Unset(g.info, q)
             s == (MaxCalls - f.calls) + Unset(f.info, p)
  <1>1. r \in 0..(MaxCalls + 2) /\ s \in Nat /\ MaxCalls \in Nat
    <2>1. /\ MaxCalls - g.calls \in 0..MaxCalls /\ MaxCalls - f.calls \in 0..MaxCalls
          /\ MaxCalls \in Nat
      BY RankIs
    <2>2. Unset(g.info, q) \in 0..2 /\ Unset(f.info, p) \in 0..2
      BY UnsetIs
    <2>3. QED
      BY <2>1, <2>2
  <1>2. Place(g, h) \in Nat /\ Place(f, h) \in Nat
    BY RankIs
  <1>3. /\ Rank(g, h, q) = Place(g, h) * (MaxCalls + 3) + r
        /\ Rank(f, h, p) = Place(f, h) * (MaxCalls + 3) + s
    BY DEF Rank
  <1> HIDE DEF r, s
  <1>4. QED
    BY <1>1, <1>2, <1>3, Outweighs

\* One that stays where it is has less if it has called more, or more flags are up.
LEMMA SamePlace ==
    ASSUME NEW f \in Frames, NEW g \in Frames, NEW h \in [Events -> Seq(1..MaxHooks)],
           NEW p, NEW q,
           g.ev = f.ev /\ g.info = f.info /\ g.list = f.list /\ g.pos = f.pos /\ g.phase = f.phase
    PROVE  /\ Place(g, h) = Place(f, h)
           /\ g.calls >= f.calls /\ Unset(f.info, q) <= Unset(f.info, p)
                 => /\ Rank(g, h, q) <= Rank(f, h, p)
                    /\ g.calls > f.calls \/ Unset(f.info, q) < Unset(f.info, p)
                          => Rank(g, h, q) < Rank(f, h, p)
  <1>1. Place(g, h) = Place(f, h)
    BY DEF Place, Ahead, Stage, Left
  <1> DEFINE r == (MaxCalls - g.calls) + Unset(g.info, q)
             s == (MaxCalls - f.calls) + Unset(f.info, p)
             w == Place(f, h) * (MaxCalls + 3)
  <1>2. Rank(g, h, q) = w + r /\ Rank(f, h, p) = w + s
    BY <1>1 DEF Rank
  <1>3. /\ f.calls \in Nat /\ g.calls \in Nat /\ MaxCalls \in Nat
        /\ Unset(f.info, q) \in Nat /\ Unset(f.info, p) \in Nat
    <2>1. f.calls \in 0..MaxCalls /\ g.calls \in 0..MaxCalls /\ MaxCalls \in Nat
      BY ConstantsAssumption DEF Frames
    <2>2. Unset(f.info, q) \in 0..2 /\ Unset(f.info, p) \in 0..2
      BY UnsetIs
    <2>3. QED
      BY <2>1, <2>2
  <1>4. /\ g.calls >= f.calls /\ Unset(f.info, q) <= Unset(f.info, p)
              => /\ r <= s
                 /\ g.calls > f.calls \/ Unset(f.info, q) < Unset(f.info, p) => r < s
    BY <1>3
  <1>5. r \in Int /\ s \in Int /\ w \in Int
    <2>1. Place(f, h) \in Nat
      BY RankIs
    <2>2. QED
      BY <1>3, <2>1
  <1> HIDE DEF r, s, w
  <1>6. QED
    BY <1>1, <1>2, <1>4, <1>5

\* Each way on is further.
LEMMA WaysOn ==
    ASSUME NEW f \in Frames, NEW h \in [Events -> Seq(1..MaxHooks)],
           NEW size \in Nat,
           size = IF f.list = "user" THEN Len(h[f.ev]) ELSE Defaults[f.ev]
    PROVE  /\ f.phase \in {"scan", "unlock", "after"} /\ f.pos <= size
                 => Place(NextHook(f), h) < Place(f, h)
           /\ f.phase = "scan" => Place([f EXCEPT !.phase = "claim"], h) < Place(f, h)
           /\ f.phase = "claim" => Place([f EXCEPT !.phase = "run", !.calls = 0], h) < Place(f, h)
           /\ f.phase = "run" => Place([f EXCEPT !.phase = "unlock"], h) < Place(f, h)
           /\ f.phase = "unlock" => Place([f EXCEPT !.phase = "after"], h) < Place(f, h)
           /\ f.phase = "scan" /\ f.list = "user" /\ f.pos > size
                 => Place([f EXCEPT !.list = "default", !.pos = 1], h) < Place(f, h)
  <1>1. /\ f.ev \in Events /\ f.pos \in Nat \ {0} /\ f.list \in Lists
        /\ Len(h[f.ev]) \in Nat /\ Defaults[f.ev] \in Nat
    BY ConstantsAssumption DEF Frames
  <1>2. Ahead(f, h) \in Nat /\ Stage(f) \in 1..5
    BY RankIs
  <1>3. ASSUME NEW g \in Frames, g.ev = f.ev, g.list = f.list, g.pos = f.pos
        PROVE  Ahead(g, h) = Ahead(f, h)
    BY <1>3 DEF Ahead, Left
  <1>4. ASSUME NEW g \in Frames, g.ev = f.ev, g.list = f.list, g.pos = f.pos, Stage(g) < Stage(f)
        PROVE  Place(g, h) < Place(f, h)
    <2>1. Stage(g) \in 1..5 /\ Ahead(g, h) = Ahead(f, h)
      BY <1>3, <1>4, RankIs
    <2>2. QED
      BY <1>2, <1>4, <2>1 DEF Place
  <1>5. f.phase = "scan" => Place([f EXCEPT !.phase = "claim"], h) < Place(f, h)
    <2> DEFINE g == [f EXCEPT !.phase = "claim"]
    <2>1. g \in Frames /\ g.ev = f.ev /\ g.list = f.list /\ g.pos = f.pos /\ g.phase = "claim"
      BY FrameUpdates DEF Frames
    <2> HIDE DEF g
    <2>2. f.phase = "scan" => Stage(g) < Stage(f)
      BY <2>1 DEF Stage
    <2>3. QED
      BY <1>4, <2>1, <2>2 DEF g
  <1>6. f.phase = "claim" => Place([f EXCEPT !.phase = "run", !.calls = 0], h) < Place(f, h)
    <2> DEFINE g == [f EXCEPT !.phase = "run", !.calls = 0]
    <2>1. g \in Frames /\ g.ev = f.ev /\ g.list = f.list /\ g.pos = f.pos /\ g.phase = "run"
      BY FrameUpdates DEF Frames
    <2> HIDE DEF g
    <2>2. f.phase = "claim" => Stage(g) < Stage(f)
      BY <2>1 DEF Stage
    <2>3. QED
      BY <1>4, <2>1, <2>2 DEF g
  <1>7. f.phase = "run" => Place([f EXCEPT !.phase = "unlock"], h) < Place(f, h)
    <2> DEFINE g == [f EXCEPT !.phase = "unlock"]
    <2>1. g \in Frames /\ g.ev = f.ev /\ g.list = f.list /\ g.pos = f.pos /\ g.phase = "unlock"
      BY FrameUpdates DEF Frames
    <2> HIDE DEF g
    <2>2. f.phase = "run" => Stage(g) < Stage(f)
      BY <2>1 DEF Stage
    <2>3. QED
      BY <1>4, <2>1, <2>2 DEF g
  <1>8. f.phase = "unlock" => Place([f EXCEPT !.phase = "after"], h) < Place(f, h)
    <2> DEFINE g == [f EXCEPT !.phase = "after"]
    <2>1. g \in Frames /\ g.ev = f.ev /\ g.list = f.list /\ g.pos = f.pos /\ g.phase = "after"
      BY FrameUpdates DEF Frames
    <2> HIDE DEF g
    <2>2. f.phase = "unlock" => Stage(g) < Stage(f)
      BY <2>1 DEF Stage
    <2>3. QED
      BY <1>4, <2>1, <2>2 DEF g
  <1>9. ASSUME f.phase \in {"scan", "unlock", "after"}, f.pos <= size
        PROVE  Place(NextHook(f), h) < Place(f, h)
    <2> DEFINE g == NextHook(f)
    <2>1. /\ g.ev = f.ev /\ g.list = f.list /\ g.pos = f.pos + 1 /\ g.phase = "scan"
      BY DEF NextHook, Frames
    <2> HIDE DEF g
    <2>2. Left(g, size) = Left(f, size) - 1 /\ Left(f, size) \in Nat
      BY <1>1, <1>9, <2>1 DEF Left
    <2>3. Ahead(g, h) = Ahead(f, h) - 1
      <3>1. CASE f.list = "user"
        <4>1. /\ Ahead(g, h) = Left(g, size) + 1 + Defaults[f.ev]
              /\ Ahead(f, h) = Left(f, size) + 1 + Defaults[f.ev]
          BY <2>1, <3>1 DEF Ahead
        <4>2. QED
          BY <1>1, <2>2, <4>1
      <3>2. CASE f.list # "user"
        <4>1. Ahead(g, h) = Left(g, size) /\ Ahead(f, h) = Left(f, size)
          BY <2>1, <3>2 DEF Ahead
        <4>2. QED
          BY <2>2, <4>1
      <3>3. QED
        BY <3>1, <3>2
    <2>4. Stage(g) = 5
      BY <2>1 DEF Stage
    <2>5. QED
      BY <1>2, <2>3, <2>4 DEF Place, g
  <1>10. ASSUME f.phase = "scan", f.list = "user", f.pos > size
         PROVE  Place([f EXCEPT !.list = "default", !.pos = 1], h) < Place(f, h)
    <2> DEFINE g == [f EXCEPT !.list = "default", !.pos = 1]
    <2>1. g.ev = f.ev /\ g.list = "default" /\ g.pos = 1 /\ g.phase = "scan"
      BY <1>10 DEF Frames
    <2> HIDE DEF g
    <2>2. Ahead(f, h) = 1 + Defaults[f.ev]
      BY <1>1, <1>10 DEF Ahead, Left
    <2>3. Ahead(g, h) = Defaults[f.ev]
      BY <1>1, <2>1 DEF Ahead, Left
    <2>4. Stage(g) = 5 /\ Stage(f) = 5
      BY <1>10, <2>1 DEF Stage
    <2>5. QED
      BY <1>1, <2>2, <2>3, <2>4 DEF Place, g
  <1>11. QED
    BY <1>5, <1>6, <1>7, <1>8, <1>9, <1>10

\* The nesting stays within its bound, and an activation that is at a hook is not past
\* the end of its list.
SizeIn(f, h) == IF f.list = "user" THEN Len(h[f.ev]) ELSE Defaults[f.ev]
FitsFrame(f, h) == f.phase # "scan" => f.pos <= SizeIn(f, h)
DescentInv ==
    \A t \in Threads :
        /\ Len(stack[t]) <= MaxDepth
        /\ \A d \in 1..Len(stack[t]) : FitsFrame(stack[t][d], hooks)

\* The size the model uses, at the present hooks.
LEMMA SizeIs == ASSUME NEW f  PROVE Size(f) = SizeIn(f, hooks)
  BY DEF Size, SizeIn

\* What the innermost activation becomes keeps the two.
LEMMA FitsTopStep ==
    ASSUME TypeOK, DescentInv, NEW t \in Threads, stack[t] # <<>>, UNCHANGED hooks,
           NEW f \in Frames, SetTop(t, f), FitsFrame(f, hooks)
    PROVE  DescentInv'
  <1>1. /\ \A u \in Threads : Len(stack'[u]) = Len(stack[u])
        /\ \A u \in Threads : u # t => stack'[u] = stack[u]
        /\ stack'[t][Len(stack[t])] = f
        /\ \A d \in 1..(Len(stack[t]) - 1) : stack'[t][d] = stack[t][d]
    BY SetTopShape
  <1>2. hooks' = hooks
    OBVIOUS
  <1>3. Len(stack[t]) \in Nat
    BY DEF TypeOK
  <1>4. \A d \in 1..Len(stack[t]) : d \in 1..(Len(stack[t]) - 1) \/ d = Len(stack[t])
    BY <1>3
  <1>5. ASSUME NEW u \in Threads, NEW d \in 1..Len(stack'[u])  PROVE FitsFrame(stack'[u][d], hooks')
    <2>1. CASE u # t
      <3>1. stack'[u] = stack[u]
        BY <1>1, <2>1
      <3>2. QED
        BY <1>2, <1>5, <3>1 DEF DescentInv
    <2>2. CASE u = t /\ d \in 1..(Len(stack[t]) - 1)
      <3>1. stack'[u][d] = stack[t][d] /\ d \in 1..Len(stack[t])
        BY <1>1, <1>3, <2>2
      <3>2. FitsFrame(stack[t][d], hooks)
        BY <3>1 DEF DescentInv
      <3>3. QED
        BY <3>1, <3>2 DEF FitsFrame, SizeIn
    <2>3. CASE u = t /\ d = Len(stack[t])
      BY <1>1, <2>3 DEF FitsFrame, SizeIn
    <2>4. QED
      BY <1>1, <1>4, <2>1, <2>2, <2>3
  <1>6. QED
    BY <1>1, <1>5 DEF DescentInv

\* And so does its return.
LEMMA FitsPopStep ==
    ASSUME TypeOK, DescentInv, NEW t \in Threads, stack[t] # <<>>, UNCHANGED hooks, Pop(t)
    PROVE  DescentInv'
  <1>1. /\ \A u \in Threads : u # t => stack'[u] = stack[u]
        /\ Len(stack'[t]) = Len(stack[t]) - 1
        /\ \A d \in 1..(Len(stack[t]) - 1) : stack'[t][d] = stack[t][d]
        /\ Len(stack[t]) \in Nat \ {0}
    BY PopShape, TopType
  <1>2. MaxDepth \in Nat
    BY ConstantsAssumption
  <1>3. ASSUME NEW u \in Threads, NEW d \in 1..Len(stack'[u])
        PROVE  FitsFrame(stack'[u][d], hooks') /\ Len(stack'[u]) <= MaxDepth
    <2>1. CASE u # t
      BY <1>1, <2>1 DEF DescentInv, FitsFrame, SizeIn
    <2>2. CASE u = t
      <3>1. stack'[u][d] = stack[t][d] /\ d \in 1..Len(stack[t])
        BY <1>1, <2>2
      <3>2. FitsFrame(stack[t][d], hooks)
        BY <3>1 DEF DescentInv
      <3>3. Len(stack'[u]) <= MaxDepth
        BY <1>1, <1>2, <2>2 DEF DescentInv
      <3>4. QED
        BY <3>1, <3>2, <3>3 DEF FitsFrame, SizeIn
    <2>3. QED
      BY <2>1, <2>2
  <1>4. ASSUME NEW u \in Threads  PROVE Len(stack'[u]) <= MaxDepth
    <2>1. CASE u # t
      BY <1>1, <2>1 DEF DescentInv
    <2>2. CASE u = t
      BY <1>1, <1>2, <2>2 DEF DescentInv
    <2>3. QED
      BY <2>1, <2>2
  <1>5. QED
    BY <1>3, <1>4 DEF DescentInv

\* Every step keeps them.
LEMMA DescentStep == TypeOK /\ StackInv /\ DescentInv /\ [Next]_vars => DescentInv'
  <1> SUFFICES ASSUME TypeOK, StackInv, DescentInv, [Next]_vars  PROVE DescentInv'
    OBVIOUS
  <1>1. ASSUME UNCHANGED <<hooks, stack>>  PROVE DescentInv'
    BY <1>1 DEF DescentInv, FitsFrame, SizeIn
  <1>2. ASSUME NEW evs, AddHook(evs)  PROVE DescentInv'
    <2>1. \A t \in Threads : stack'[t] = <<>>
      BY <1>2 DEF AddHook, StackInv, QuietBeforeStart
    <2>2. QED
      BY <2>1, ConstantsAssumption DEF DescentInv
  <1>3. CASE Start
    BY <1>1, <1>3 DEF Start
  <1>4. ASSUME NEW t \in Threads, Emit(t)  PROVE DescentInv'
    <2>1. PICK c \in Emits : stack' = [stack EXCEPT ![t] = <<NewFrame(c.ev, Passed(t, c.info))>>]
      BY <1>4 DEF Emit
    <2>2. /\ \A u \in Threads : u # t => stack'[u] = stack[u]
          /\ Len(stack'[t]) = 1 /\ stack'[t][1].phase = "scan"
          /\ MaxDepth \in Nat /\ MaxDepth > 0 /\ hooks' = hooks
      BY <1>4, <2>1, ConstantsAssumption DEF TypeOK, NewFrame, Emit
    <2>3. ASSUME NEW u \in Threads
          PROVE  Len(stack'[u]) <= MaxDepth /\ \A d \in 1..Len(stack'[u]) : FitsFrame(stack'[u][d], hooks')
      <3>1. CASE u # t
        BY <2>2, <3>1 DEF DescentInv, FitsFrame, SizeIn
      <3>2. CASE u = t
        <4>1. Len(stack'[u]) = 1
          BY <2>2, <3>2
        <4>2. Len(stack'[u]) <= MaxDepth /\ \A d \in 1..Len(stack'[u]) : d = 1
          BY <2>2, <4>1
        <4>3. QED
          BY <2>2, <3>2, <4>2 DEF FitsFrame
      <3>3. QED
        BY <3>1, <3>2
    <2>4. QED
      BY <2>3 DEF DescentInv
  <1>5. ASSUME NEW t \in Threads, stack[t] # <<>>
        PROVE  /\ Top(t) \in Frames /\ FitsFrame(Top(t), hooks) /\ Len(stack[t]) \in 1..Len(stack[t])
               /\ NextHook(Top(t)) \in Frames /\ FitsFrame(NextHook(Top(t)), hooks)
    <2>1. /\ Top(t) \in Frames /\ Len(stack[t]) \in 1..Len(stack[t])
          /\ NextHook(Top(t)) \in Frames /\ NextHook(Top(t)).phase = "scan"
      BY <1>5, TopType
    <2>2. QED
      BY <2>1 DEF DescentInv, Top, FitsFrame
  <1>6. ASSUME NEW t \in Threads, SkipBusy(t) \/ Continue(t)  PROVE DescentInv'
    BY <1>5, <1>6, FitsTopStep DEF SkipBusy, Continue, At
  <1>7. ASSUME NEW t \in Threads, FindFree(t) \/ Claim(t) \/ HandlerReturns(t)
        PROVE  DescentInv'
    <2>1. PICK f \in {[Top(t) EXCEPT !.phase = "claim"], [Top(t) EXCEPT !.phase = "unlock"],
                      [Top(t) EXCEPT !.phase = "run", !.calls = 0]} : SetTop(t, f)
      BY <1>7 DEF FindFree, Claim, HandlerReturns
    <2>2. stack[t] # <<>> /\ hooks' = hooks /\ (Top(t).phase # "scan" \/ Top(t).pos <= SizeIn(Top(t), hooks))
      BY <1>7, SizeIs DEF FindFree, Claim, HandlerReturns, At
    <2>3. Top(t) \in Frames /\ Top(t).pos <= SizeIn(Top(t), hooks)
      BY <1>5, <2>2 DEF FitsFrame
    <2>4. f \in Frames /\ f.pos = Top(t).pos /\ SizeIn(f, hooks) = SizeIn(Top(t), hooks)
      <3>1. f \in Frames
        BY <2>1, <2>3, FrameUpdates
      <3>2. f.pos = Top(t).pos /\ f.list = Top(t).list /\ f.ev = Top(t).ev
        BY <2>1, <2>3 DEF Frames
      <3>3. QED
        BY <3>1, <3>2 DEF SizeIn
    <2>5. QED
      BY <2>1, <2>2, <2>3, <2>4, FitsTopStep DEF FitsFrame
  <1>8. ASSUME NEW t \in Threads, Unlock(t)  PROVE DescentInv'
    <2>1. stack[t] # <<>> /\ hooks' = hooks /\ Top(t).phase = "unlock"
      BY <1>8 DEF Unlock, At
    <2>2. CASE Top(t).list = "user"
      <3> DEFINE f == [Top(t) EXCEPT !.phase = "after"]
      <3>1. SetTop(t, f)
        BY <1>8, <2>2 DEF Unlock
      <3>2. Top(t) \in Frames /\ Top(t).pos <= SizeIn(Top(t), hooks)
        BY <1>5, <2>1 DEF FitsFrame
      <3>3. f \in Frames /\ f.pos = Top(t).pos /\ SizeIn(f, hooks) = SizeIn(Top(t), hooks)
        BY <3>2, FrameUpdates DEF Frames, SizeIn
      <3>4. FitsFrame(f, hooks)
        BY <3>2, <3>3 DEF FitsFrame
      <3> HIDE DEF f
      <3>5. QED
        BY <2>1, <3>1, <3>3, <3>4, FitsTopStep
    <2>3. CASE Top(t).list # "user"
      BY <1>5, <1>8, <2>1, <2>3, FitsTopStep DEF Unlock
    <2>4. QED
      BY <2>2, <2>3
  <1>9. ASSUME NEW t \in Threads, StopFurther(t) \/ SkipDefaults(t) \/ Finish(t)
        PROVE  DescentInv'
    BY <1>9, FitsPopStep DEF StopFurther, SkipDefaults, Finish, AtEnd, At
  <1>10. ASSUME NEW t \in Threads, BeginDefaults(t)  PROVE DescentInv'
    <2> DEFINE f == [Top(t) EXCEPT !.list = "default", !.pos = 1]
    <2>1. stack[t] # <<>> /\ hooks' = hooks /\ Top(t).phase = "scan" /\ SetTop(t, f)
      BY <1>10 DEF BeginDefaults, AtEnd, At
    <2>2. f \in Frames /\ f.phase = "scan"
      BY <1>5, <2>1, FrameUpdates
    <2>3. FitsFrame(f, hooks)
      BY <2>2 DEF FitsFrame
    <2> HIDE DEF f
    <2>4. QED
      BY <2>1, <2>2, <2>3, FitsTopStep
  <1>11. ASSUME NEW t \in Threads, NEW flag \in Flags, HandlerPrevents(t, flag)
         PROVE  DescentInv'
    <2>1. /\ \A u \in Threads : Len(stack'[u]) = Len(stack[u])
          /\ \A u \in Threads : u # t => stack'[u] = stack[u]
          /\ \A d \in 1..Len(stack[t]) :
                \E a \in SUBSET Flags : stack'[t][d] = [stack[t][d] EXCEPT !.asked = a]
          /\ hooks' = hooks
      BY <1>11, PreventShape DEF HandlerPrevents
    <2>2. ASSUME NEW u \in Threads, NEW d \in 1..Len(stack'[u])  PROVE FitsFrame(stack'[u][d], hooks')
      <3>1. CASE u # t
        BY <2>1, <3>1 DEF DescentInv, FitsFrame, SizeIn
      <3>2. CASE u = t
        <4>1. PICK a \in SUBSET Flags : stack'[t][d] = [stack[t][d] EXCEPT !.asked = a]
          BY <2>1, <3>2
        <4>2. stack[t][d] \in Frames /\ FitsFrame(stack[t][d], hooks)
          BY <2>1, <3>2 DEF TypeOK, DescentInv
        <4>3. /\ stack'[t][d].phase = stack[t][d].phase /\ stack'[t][d].pos = stack[t][d].pos
              /\ stack'[t][d].list = stack[t][d].list /\ stack'[t][d].ev = stack[t][d].ev
          BY <4>1, <4>2 DEF Frames
        <4>4. QED
          BY <2>1, <3>2, <4>2, <4>3 DEF FitsFrame, SizeIn
      <3>3. QED
        BY <3>1, <3>2
    <2>3. QED
      BY <2>1, <2>2 DEF DescentInv
  <1>12. ASSUME NEW t \in Threads, HandlerEmits(t)  PROVE DescentInv'
    <2>1. PICK f, g \in Frames :
              /\ stack[t] # <<>> /\ Top(t) \in Frames /\ Top(t).phase = "run"
              /\ f.phase = "run" /\ Slot(f) = Slot(Top(t)) /\ g.phase = "scan"
              /\ \A u \in Threads : u # t => stack'[u] = stack[u]
              /\ Len(stack'[t]) = Len(stack[t]) + 1
              /\ stack'[t][Len(stack[t])] = f
              /\ stack'[t][Len(stack[t]) + 1] = g
              /\ \A d \in 1..(Len(stack[t]) - 1) : stack'[t][d] = stack[t][d]
      BY <1>12, EmitsShape
    <2>2. Len(stack[t]) < MaxDepth /\ hooks' = hooks /\ MaxDepth \in Nat /\ Len(stack[t]) \in Nat
      BY <1>12, ConstantsAssumption DEF HandlerEmits, TypeOK
    <2>3. FitsFrame(f, hooks)
      BY <1>5, <2>1 DEF FitsFrame, Slot, SizeIn
    <2>4. ASSUME NEW u \in Threads, NEW d \in 1..Len(stack'[u])  PROVE FitsFrame(stack'[u][d], hooks')
      <3>1. CASE u # t
        BY <2>1, <2>2, <3>1 DEF DescentInv, FitsFrame, SizeIn
      <3>2. CASE u = t /\ d \in 1..(Len(stack[t]) - 1)
        <4>1. stack'[u][d] = stack[t][d] /\ d \in 1..Len(stack[t])
          BY <2>1, <2>2, <3>2
        <4>2. FitsFrame(stack[t][d], hooks)
          BY <4>1 DEF DescentInv
        <4>3. QED
          BY <2>2, <4>1, <4>2 DEF FitsFrame, SizeIn
      <3>3. CASE u = t /\ d = Len(stack[t])
        BY <2>1, <2>2, <2>3, <3>3 DEF FitsFrame, SizeIn
      <3>4. CASE u = t /\ d = Len(stack[t]) + 1
        BY <2>1, <3>4 DEF FitsFrame
      <3>5. QED
        BY <2>1, <2>2, <3>1, <3>2, <3>3, <3>4
    <2>5. \A u \in Threads : Len(stack'[u]) <= MaxDepth
      BY <2>1, <2>2 DEF DescentInv
    <2>6. QED
      BY <2>4, <2>5 DEF DescentInv
  <1>13. CASE UNCHANGED vars
    BY <1>1, <1>13 DEF vars
  <1>14. QED
    BY <1>2, <1>3, <1>4, <1>6, <1>7, <1>8, <1>9, <1>10, <1>11, <1>12, <1>13
    DEF Next, Dispatch

\* The work of a thread with the stack s.
WorkOf(s, h, p) == [d \in 1..MaxDepth |-> IF d <= Len(s) THEN Rank(s[d], h, p) ELSE 0]

\* It has a number for every depth: the rank of the activation there, or 0.
LEMMA WorkIs ==
    ASSUME NEW s \in Seq(Frames), NEW h \in [Events -> Seq(1..MaxHooks)], NEW p
    PROVE  /\ WorkOf(s, h, p) \in [1..MaxDepth -> Nat]
           /\ \A d \in 1..MaxDepth :
                 /\ d <= Len(s) => /\ WorkOf(s, h, p)[d] = Rank(s[d], h, p)
                                   /\ WorkOf(s, h, p)[d] > 0
                 /\ d > Len(s) => WorkOf(s, h, p)[d] = 0
  <1>1. Len(s) \in Nat /\ MaxDepth \in Nat
    BY ConstantsAssumption
  <1>2. ASSUME NEW d \in 1..MaxDepth, d <= Len(s)  PROVE Rank(s[d], h, p) \in Nat \ {0}
    <2>1. d \in 1..Len(s)
      BY <1>1, <1>2
    <2>2. s[d] \in Frames
      BY <2>1
    <2>3. QED
      BY <2>2, RankIs
  <1>3. QED
    BY <1>1, <1>2 DEF WorkOf

\* A thread whose innermost activation has less to do, or none, has less work left, and
\* so it has if that activation has begun another one.
LEMMA InnermostDescends ==
    ASSUME NEW s \in Seq(Frames), NEW r \in Seq(Frames),
           NEW h \in [Events -> Seq(1..MaxHooks)], NEW p, NEW q,
           Len(s) \in 1..MaxDepth, Len(r) >= Len(s) - 1,
           \A d \in 1..(Len(s) - 1) : Rank(r[d], h, q) <= Rank(s[d], h, p),
           Len(r) >= Len(s) => Rank(r[Len(s)], h, q) < Rank(s[Len(s)], h, p)
    PROVE  Descends(MaxDepth, WorkOf(r, h, q), WorkOf(s, h, p))
  <1> DEFINE v == WorkOf(r, h, q)
             w == WorkOf(s, h, p)
             k == Len(s)
  <1>1. /\ v \in [1..MaxDepth -> Nat] /\ w \in [1..MaxDepth -> Nat] /\ MaxDepth \in Nat
        /\ Len(r) \in Nat /\ k \in 1..MaxDepth
    BY WorkIs, ConstantsAssumption
  <1>2. v[k] < w[k]
    <2>1. w[k] = Rank(s[k], h, p) /\ w[k] > 0
      <3>1. \A d \in 1..MaxDepth : d <= Len(s) => w[d] = Rank(s[d], h, p) /\ w[d] > 0
        BY WorkIs
      <3> HIDE DEF w
      <3>2. QED
        BY <1>1, <3>1
    <2>2. CASE Len(r) >= k
      <3>1. v[k] = Rank(r[k], h, q)
        BY <1>1, <2>2, WorkIs
      <3>2. QED
        BY <2>1, <2>2, <3>1
    <2>3. CASE Len(r) < k
      <3>1. v[k] = 0
        BY <1>1, <2>3, WorkIs
      <3>2. QED
        BY <2>1, <3>1
    <2>4. QED
      BY <1>1, <2>2, <2>3
  <1>3. ASSUME NEW e \in 1..(k - 1)  PROVE v[e] <= w[e]
    <2>1. e \in 1..MaxDepth /\ e <= Len(r) /\ e <= Len(s)
      BY <1>1
    <2>2. v[e] = Rank(r[e], h, q) /\ w[e] = Rank(s[e], h, p)
      BY <2>1, WorkIs
    <2>3. QED
      BY <2>2
  <1> HIDE DEF v, w, k
  <1>4. Descends(MaxDepth, v, w)
    BY <1>1, <1>2, <1>3, ShrunkDescends
  <1>5. QED
    BY <1>4 DEF v, w

\* Work is what WorkOf makes of the state, before a step and after it.
LEMMA WorkOfState ==
    ASSUME NEW t
    PROVE  /\ Work(t) = WorkOf(stack[t], hooks, prevented)
           /\ Work(t)' = WorkOf(stack'[t], hooks', prevented')
  BY DEF Work, WorkOf

-----------------------------------------------------------------------------
\* The flags of an EventInfo stay up while an activation that was given it lasts.
LEMMA FlagsStay ==
    ASSUME TypeOK, PreventInv, Next, NEW t \in Threads, NEW d \in 1..Len(stack[t]),
           NEW flag \in Flags, <<stack[t][d].info, flag>> \in prevented
    PROVE  <<stack[t][d].info, flag>> \in prevented'
  <1> DEFINE i == stack[t][d].info
  <1>1. d \in Nat /\ Len(stack[t]) \in Nat /\ InfoBelow(stack[t][d], t, d)
    BY DEF TypeOK, PreventInv, Minds
  <1>2. \A u \in Threads, k \in Nat : u # t \/ k > d => i # <<u, k>>
    BY <1>1, InfosDiffer
  <1>3. ASSUME NEW u \in Threads, NEW arg, Pass(u, arg)  PROVE <<i, flag>> \in prevented'
    <2>1. CASE arg = Fresh
      <3>1. Len(stack[u]) + 1 \in Nat /\ (u # t \/ Len(stack[u]) + 1 > d)
        BY <1>1 DEF TypeOK
      <3>2. i # Passed(u, arg)
        BY <1>2, <2>1, <3>1, PassedIs
      <3> HIDE DEF i
      <3>3. QED
        BY <1>3, <2>1, <3>2 DEF Pass, i
    <2>2. QED
      BY <1>3, <2>1 DEF Pass
  <1>4. ASSUME NEW u \in Threads, Emit(u) \/ Dispatch(u)  PROVE <<i, flag>> \in prevented'
    <2>1. CASE prevented' = prevented
      BY <2>1
    <2>2. CASE Emit(u) \/ HandlerEmits(u)
      <3>1. \E arg : Pass(u, arg)
        BY <2>2 DEF Emit, HandlerEmits
      <3>2. QED
        BY <1>3, <3>1
    <2>3. CASE \E f \in Flags : HandlerPrevents(u, f)
      BY <2>3 DEF HandlerPrevents
    <2>4. QED
      BY <1>4, <2>1, <2>2, <2>3
      DEF Dispatch, SkipBusy, FindFree, Claim, HandlerReturns, Unlock, StopFurther, Continue,
          SkipDefaults, BeginDefaults, Finish
  <1>5. QED
    BY <1>4 DEF Next, AddHook, Start

\* So an activation that is left as it is has no more to do after a step.
LEMMA RankStays ==
    ASSUME TypeOK, PreventInv, Next, NEW t \in Threads, NEW d \in 1..Len(stack[t]),
           NEW f \in Frames, f.ev = stack[t][d].ev, f.info = stack[t][d].info,
           f.list = stack[t][d].list, f.pos = stack[t][d].pos, f.phase = stack[t][d].phase,
           f.calls = stack[t][d].calls
    PROVE  Rank(f, hooks, prevented') <= Rank(stack[t][d], hooks, prevented)
  <1> DEFINE g == stack[t][d]
  <1>1. g \in Frames /\ hooks \in [Events -> Seq(1..MaxHooks)]
    BY DEF TypeOK
  <1>2. Unset(g.info, prevented') <= Unset(g.info, prevented)
    BY FlagsStay, UnsetShrinks
  <1>3. f.calls >= g.calls
    <2>1. f.calls \in 0..MaxCalls /\ f.calls = g.calls
      BY DEF Frames
    <2>2. QED
      BY <2>1
  <1> HIDE DEF g
  <1>4. QED
    BY <1>1, <1>2, <1>3, SamePlace DEF g

\* The innermost activation moves on.
LEMMA MovesOn ==
    ASSUME TypeOK, PreventInv, DescentInv, Next, NEW t \in Threads, stack[t] # <<>>,
           UNCHANGED hooks, NEW f \in Frames, SetTop(t, f), Place(f, hooks) < Place(Top(t), hooks)
    PROVE  Descends(MaxDepth, Work(t)', Work(t))
  <1> DEFINE s == stack[t]
             r == stack'[t]
  <1>1. /\ s \in Seq(Frames) /\ r \in Seq(Frames) /\ hooks \in [Events -> Seq(1..MaxHooks)]
        /\ Len(s) \in 1..MaxDepth /\ Len(r) = Len(s)
        /\ r[Len(s)] = f /\ s[Len(s)] = Top(t) /\ Top(t) \in Frames
        /\ \A d \in 1..(Len(s) - 1) : r[d] = s[d]
    BY SetTopShape, TopType DEF TypeOK, Top, DescentInv
  <1>2. Rank(f, hooks, prevented') < Rank(Top(t), hooks, prevented)
    BY <1>1, FurtherIsLess
  <1>3. ASSUME NEW d \in 1..(Len(s) - 1)
        PROVE  Rank(r[d], hooks, prevented') <= Rank(s[d], hooks, prevented)
    <2>1. d \in 1..Len(s) /\ r[d] = s[d] /\ s[d] \in Frames
      BY <1>1
    <2>2. QED
      BY <2>1, RankStays
  <1> HIDE DEF s, r
  <1>4. Descends(MaxDepth, WorkOf(r, hooks, prevented'), WorkOf(s, hooks, prevented))
    BY <1>1, <1>2, <1>3, InnermostDescends
  <1>5. QED
    BY <1>4, WorkOfState DEF s, r

\* The innermost activation returns.
LEMMA Returns ==
    ASSUME TypeOK, PreventInv, DescentInv, Next, NEW t \in Threads, stack[t] # <<>>,
           UNCHANGED hooks, Pop(t)
    PROVE  Descends(MaxDepth, Work(t)', Work(t))
  <1> DEFINE s == stack[t]
             r == stack'[t]
  <1>1. /\ s \in Seq(Frames) /\ r \in Seq(Frames) /\ hooks \in [Events -> Seq(1..MaxHooks)]
        /\ Len(s) \in 1..MaxDepth /\ Len(r) = Len(s) - 1
        /\ \A d \in 1..(Len(s) - 1) : r[d] = s[d]
    BY PopShape, TopType DEF TypeOK, DescentInv
  <1>2. ASSUME NEW d \in 1..(Len(s) - 1)
        PROVE  Rank(r[d], hooks, prevented') <= Rank(s[d], hooks, prevented)
    <2>1. d \in 1..Len(s) /\ r[d] = s[d] /\ s[d] \in Frames
      BY <1>1
    <2>2. QED
      BY <2>1, RankStays
  <1>3. ~(Len(r) >= Len(s)) /\ Len(r) >= Len(s) - 1
    BY <1>1
  <1> HIDE DEF s, r
  <1>4. Descends(MaxDepth, WorkOf(r, hooks, prevented'), WorkOf(s, hooks, prevented))
    BY <1>1, <1>2, <1>3, InnermostDescends
  <1>5. QED
    BY <1>4, WorkOfState DEF s, r

\* A handler sets a flag that was not up, and flags are not cleared while it runs.
LEMMA PreventsDescends ==
    ASSUME TypeOK, PreventInv, DescentInv, Next, NEW t \in Threads, NEW flag \in Flags,
           HandlerPrevents(t, flag)
    PROVE  Descends(MaxDepth, Work(t)', Work(t))
  <1> DEFINE s == stack[t]
             r == stack'[t]
             n == Len(stack[t])
  <1>1. /\ s \in Seq(Frames) /\ r \in Seq(Frames) /\ hooks \in [Events -> Seq(1..MaxHooks)]
        /\ n \in 1..MaxDepth /\ Len(r) = n /\ n \in 1..n /\ s[n] = Top(t) /\ hooks' = hooks
    <2>1. stack[t] # <<>> /\ hooks' = hooks
      BY DEF HandlerPrevents, At
    <2>2. QED
      BY <2>1, PreventShape, TopType DEF TypeOK, DescentInv, Top
  <1>2. ASSUME NEW d \in 1..n
        PROVE  /\ s[d] \in Frames /\ r[d] \in Frames
               /\ r[d].ev = s[d].ev /\ r[d].info = s[d].info /\ r[d].list = s[d].list
               /\ r[d].pos = s[d].pos /\ r[d].phase = s[d].phase /\ r[d].calls = s[d].calls
    <2>1. s[d] \in Frames /\ r[d] \in Frames
      BY <1>1
    <2>2. PICK a \in SUBSET Flags : r[d] = [s[d] EXCEPT !.asked = a]
      BY PreventShape
    <2> HIDE DEF s, r
    <2>3. QED
      BY <2>1, <2>2 DEF Frames
  <1>3. ASSUME NEW d \in 1..(n - 1)
        PROVE  Rank(r[d], hooks, prevented') <= Rank(s[d], hooks, prevented)
    <2>1. d \in 1..n
      BY <1>1
    <2>2. QED
      BY <1>2, <2>1, RankStays
  <1>4. Rank(r[n], hooks, prevented') < Rank(s[n], hooks, prevented)
    <2>1. /\ <<s[n].info, flag>> \notin prevented /\ <<s[n].info, flag>> \in prevented'
          /\ prevented \subseteq prevented'
      BY <1>1 DEF HandlerPrevents
    <2>2. Unset(s[n].info, prevented') < Unset(s[n].info, prevented)
      BY <2>1, UnsetShrinks
    <2>3. r[n].calls >= s[n].calls
      <3>1. r[n].calls = s[n].calls /\ r[n].calls \in 0..MaxCalls
        BY <1>1, <1>2 DEF Frames
      <3>2. QED
        BY <3>1
    <2>4. Unset(s[n].info, prevented') \in 0..2 /\ Unset(s[n].info, prevented) \in 0..2
      BY UnsetIs
    <2>5. Unset(s[n].info, prevented') <= Unset(s[n].info, prevented)
      BY <2>2, <2>4
    <2> HIDE DEF s, r, n
    <2>6. QED
      BY <1>1, <1>2, <2>2, <2>3, <2>5, SamePlace
  <1>5. Len(r) >= Len(s) - 1 /\ Len(s) = n
    BY <1>1
  <1> HIDE DEF s, r, n
  <1>6. Descends(MaxDepth, WorkOf(r, hooks, prevented'), WorkOf(s, hooks, prevented))
    BY <1>1, <1>3, <1>4, <1>5, InnermostDescends
  <1>7. QED
    BY <1>1, <1>6, WorkOfState DEF s, r

\* A handler that emits has one event less to emit.
LEMMA EmitsDescends ==
    ASSUME TypeOK, PreventInv, DescentInv, Next, NEW t \in Threads, HandlerEmits(t)
    PROVE  Descends(MaxDepth, Work(t)', Work(t))
  <1> DEFINE s == stack[t]
             r == stack'[t]
             n == Len(stack[t])
             caller == [Top(t) EXCEPT !.calls = @ + 1]
  <1>1. PICK c \in Nested :
          stack' = [stack EXCEPT ![t] = Append([@ EXCEPT ![Len(@)] = caller],
                                             NewFrame(c.ev, Passed(t, c.info)))]
    BY DEF HandlerEmits
  <1>2. c.ev \in Events /\ c.info \in InfoArgs \cup {Own}
    BY ConstantsAssumption
  <1>3. /\ stack[t] # <<>> /\ n < MaxDepth /\ n \in Nat \ {0} /\ hooks' = hooks
        /\ Top(t) \in Frames /\ Top(t) = s[n] /\ Top(t).calls < MaxCalls
    BY TopType DEF HandlerEmits, At, Top
  <1>4. NewFrame(c.ev, Passed(t, c.info)) \in Frames
    BY <1>2, <1>3, NewFrameType
  <1>5. /\ caller \in Frames
        /\ caller.ev = Top(t).ev /\ caller.info = Top(t).info /\ caller.list = Top(t).list
        /\ caller.pos = Top(t).pos /\ caller.phase = Top(t).phase
        /\ caller.calls = Top(t).calls + 1 /\ Top(t).calls \in Nat
    <2> DEFINE k == Top(t).calls
    <2>1. k + 1 \in 0..MaxCalls /\ k \in Nat
      <3>1. k \in 0..MaxCalls /\ k < MaxCalls
        BY <1>3 DEF Frames
      <3> HIDE DEF k
      <3>2. QED
        BY <3>1, ConstantsAssumption
    <2>2. QED
      BY <1>3, <2>1 DEF Frames
  <1>6. /\ r \in Seq(Frames) /\ Len(r) = n + 1 /\ r[n] = caller
        /\ \A d \in 1..(n - 1) : r[d] = s[d]
    <2> HIDE DEF caller
    <2>1. QED
      BY <1>1, <1>3, <1>4, <1>5, PushShape
  <1>7. s \in Seq(Frames) /\ hooks \in [Events -> Seq(1..MaxHooks)] /\ MaxDepth \in Nat
    BY ConstantsAssumption DEF TypeOK
  <1>8. ASSUME NEW d \in 1..(n - 1)
        PROVE  Rank(r[d], hooks, prevented') <= Rank(s[d], hooks, prevented)
    <2>1. d \in 1..n /\ r[d] = s[d] /\ s[d] \in Frames
      BY <1>3, <1>6, <1>7
    <2>2. QED
      BY <2>1, RankStays
  <1>9. Rank(caller, hooks, prevented') < Rank(Top(t), hooks, prevented)
    <2>1. n \in 1..n
      BY <1>3
    <2>2. Unset(s[n].info, prevented') <= Unset(s[n].info, prevented)
      BY <2>1, FlagsStay, UnsetShrinks
    <2>3. caller.calls >= Top(t).calls /\ caller.calls > Top(t).calls
      BY <1>5
    <2> HIDE DEF caller, s, n
    <2>4. QED
      BY <1>3, <1>5, <1>7, <2>2, <2>3, SamePlace
  <1>10. Len(s) = n /\ n \in 1..MaxDepth /\ Len(r) >= n - 1
    BY <1>3, <1>6, <1>7
  <1> HIDE DEF s, r, n, caller
  <1>11. Descends(MaxDepth, WorkOf(r, hooks, prevented'), WorkOf(s, hooks, prevented))
    BY <1>3, <1>6, <1>7, <1>8, <1>9, <1>10, InnermostDescends
  <1>12. QED
    BY <1>3, <1>11, WorkOfState DEF s, r

\* One step of a dispatch, by its kinds.
LEMMA DispatchStep ==
    ASSUME TypeOK, PreventInv, DescentInv, Next, NEW t \in Threads, Dispatch(t)
    PROVE  Descends(MaxDepth, Work(t)', Work(t))
  <1> DEFINE f == Top(t)
             size == Size(f)
  <1>1. stack[t] # <<>> /\ hooks' = hooks
    BY DEF Dispatch, SkipBusy, FindFree, Claim, HandlerPrevents, HandlerEmits, HandlerReturns,
           Unlock, StopFurther, Continue, SkipDefaults, BeginDefaults, Finish, AtEnd, At
  <1>2. /\ f \in Frames /\ NextHook(f) \in Frames /\ hooks \in [Events -> Seq(1..MaxHooks)]
        /\ f.phase # "scan" => f.pos <= size
        /\ size \in Nat /\ size = IF f.list = "user" THEN Len(hooks[f.ev]) ELSE Defaults[f.ev]
    <2>1. f \in Frames /\ NextHook(f) \in Frames /\ Len(stack[t]) \in 1..Len(stack[t])
      BY <1>1, TopType
    <2>2. hooks \in [Events -> Seq(1..MaxHooks)] /\ FitsFrame(f, hooks)
      BY <2>1 DEF TypeOK, DescentInv, Top
    <2>3. f.ev \in Events
      BY <2>1 DEF Frames
    <2>4. Len(hooks[f.ev]) \in Nat /\ Defaults[f.ev] \in Nat
      BY <2>2, <2>3, ConstantsAssumption
    <2>5. QED
      BY <2>1, <2>2, <2>4, SizeIs DEF FitsFrame, SizeIn
  <1>3. ASSUME NEW g \in Frames, SetTop(t, g), Place(g, hooks) < Place(f, hooks)
        PROVE  Descends(MaxDepth, Work(t)', Work(t))
    BY <1>1, <1>3, MovesOn
  <1>4. /\ [f EXCEPT !.phase = "claim"] \in Frames
        /\ [f EXCEPT !.phase = "unlock"] \in Frames
        /\ [f EXCEPT !.phase = "after"] \in Frames
        /\ [f EXCEPT !.phase = "run", !.calls = 0] \in Frames
        /\ [f EXCEPT !.list = "default", !.pos = 1] \in Frames
    BY <1>2, FrameUpdates
  <1> HIDE DEF size
  <1>5. CASE SkipBusy(t)
    <2>1. f.phase = "scan" /\ f.pos <= size /\ SetTop(t, NextHook(f))
      BY <1>5 DEF SkipBusy, At, size
    <2> HIDE DEF f
    <2>2. QED
      BY <1>2, <1>3, <2>1, WaysOn
  <1>6. CASE Continue(t)
    <2>1. f.phase = "after" /\ SetTop(t, NextHook(f))
      BY <1>6 DEF Continue, At
    <2> HIDE DEF f
    <2>2. QED
      BY <1>2, <1>3, <2>1, WaysOn
  <1>7. CASE FindFree(t) \/ Claim(t) \/ HandlerReturns(t)
    <2>1. \/ f.phase = "scan" /\ SetTop(t, [f EXCEPT !.phase = "claim"])
          \/ f.phase = "claim" /\ SetTop(t, [f EXCEPT !.phase = "run", !.calls = 0])
          \/ f.phase = "run" /\ SetTop(t, [f EXCEPT !.phase = "unlock"])
      BY <1>7 DEF FindFree, Claim, HandlerReturns, At
    <2> HIDE DEF f
    <2>2. QED
      BY <1>2, <1>3, <1>4, <2>1, WaysOn
  <1>8. CASE Unlock(t)
    <2>1. /\ f.phase = "unlock"
          /\ SetTop(t, [f EXCEPT !.phase = "after"]) \/ SetTop(t, NextHook(f))
      BY <1>8 DEF Unlock, At
    <2> HIDE DEF f
    <2>2. QED
      BY <1>2, <1>3, <1>4, <2>1, WaysOn
  <1>9. CASE BeginDefaults(t)
    <2>1. /\ f.phase = "scan" /\ f.list = "user" /\ f.pos > size
          /\ SetTop(t, [f EXCEPT !.list = "default", !.pos = 1])
      BY <1>9 DEF BeginDefaults, AtEnd, At, size
    <2> HIDE DEF f
    <2>2. QED
      BY <1>2, <1>3, <1>4, <2>1, WaysOn
  <1>10. CASE StopFurther(t) \/ SkipDefaults(t) \/ Finish(t)
    BY <1>1, <1>10, Returns DEF StopFurther, SkipDefaults, Finish
  <1>11. QED
    BY <1>5, <1>6, <1>7, <1>8, <1>9, <1>10, PreventsDescends, EmitsDescends DEF Dispatch

\* Nothing that happens elsewhere gives a thread more work.
LEMMA OthersStep ==
    ASSUME TypeOK, TypeOK', StackInv, PreventInv, Next, NEW t \in Threads,
           ~Emit(t), ~Dispatch(t), NEW d \in 1..MaxDepth
    PROVE  Work(t)'[d] <= Work(t)[d]
  <1> DEFINE s == stack[t]
  <1>1. /\ s \in Seq(Frames) /\ hooks \in [Events -> Seq(1..MaxHooks)]
        /\ hooks' \in [Events -> Seq(1..MaxHooks)]
    BY DEF TypeOK
  <1>2. ASSUME NEW u \in Threads, u # t, Emit(u) \/ Dispatch(u)
        PROVE  stack'[t] = s /\ hooks' = hooks
    BY <1>2 DEF TypeOK, Emit, Dispatch, SkipBusy, FindFree, Claim, HandlerPrevents, HandlerEmits,
                HandlerReturns, Unlock, StopFurther, Continue, SkipDefaults, BeginDefaults,
                Finish, SetTop, Pop
  <1>3. stack'[t] = s /\ (hooks' = hooks \/ s = <<>>)
    BY <1>2 DEF Next, AddHook, Start, StackInv, QuietBeforeStart
  <1>4. /\ Work(t) = WorkOf(s, hooks, prevented)
        /\ Work(t)' = WorkOf(s, hooks', prevented')
    BY <1>3, WorkOfState
  <1>5. CASE d > Len(s)
    <2>1. WorkOf(s, hooks, prevented)[d] = 0 /\ WorkOf(s, hooks', prevented')[d] = 0
      <3> HIDE DEF s
      <3>1. QED
        BY <1>1, <1>5, WorkIs
    <2>2. QED
      BY <1>4, <2>1
  <1>6. CASE d <= Len(s)
    <2>1. d \in 1..Len(s) /\ s[d] \in Frames /\ hooks' = hooks
      BY <1>1, <1>3, <1>6
    <2>2. Rank(s[d], hooks, prevented') <= Rank(s[d], hooks, prevented)
      BY <2>1, RankStays
    <2>3. /\ WorkOf(s, hooks, prevented)[d] = Rank(s[d], hooks, prevented)
          /\ WorkOf(s, hooks, prevented')[d] = Rank(s[d], hooks, prevented')
      <3> HIDE DEF s
      <3>1. QED
        BY <1>1, <1>6, WorkIs
    <2>4. QED
      BY <1>4, <2>1, <2>2, <2>3
  <1>7. QED
    <2>1. Len(s) \in Nat /\ d \in Int
      BY <1>1
    <2>2. QED
      BY <1>5, <1>6, <2>1

\* The bounds hold in every state.
LEMMA DescentInvariant == Spec => []DescentInv
  <1>1. Init => DescentInv
    BY ConstantsAssumption DEF Init, DescentInv
  <1>2. QED
    BY <1>1, DescentStep, TypeCorrect, StackInvariant, PTL DEF Spec

\* Every step between the entry and the return of call_event leaves the thread less to do,
\* in an order in which nothing descends for ever (DescentEnds), and no step of another
\* thread, no hook and no start of the loop leaves it more: only Emit does.  So call_event
\* returns if the handlers return and the thread is run, which is what FairSpec adds.
THEOREM DispatchDescends ==
    Spec => [][\A t \in Threads :
                  /\ Dispatch(t) => Descends(MaxDepth, Work(t)', Work(t))
                  /\ ~Emit(t) /\ ~Dispatch(t)
                        => \A d \in 1..MaxDepth : Work(t)'[d] <= Work(t)[d]]_vars
  <1> DEFINE LessToDo ==
               \A t \in Threads :
                  /\ Dispatch(t) => Descends(MaxDepth, Work(t)', Work(t))
                  /\ ~Emit(t) /\ ~Dispatch(t)
                        => \A d \in 1..MaxDepth : Work(t)'[d] <= Work(t)[d]
  <1>1. TypeOK /\ TypeOK' /\ StackInv /\ PreventInv /\ DescentInv /\ Next => LessToDo
    BY DispatchStep, OthersStep
  <1>2. TypeOK /\ TypeOK' /\ StackInv /\ PreventInv /\ DescentInv /\ [Next]_vars => [LessToDo]_vars
    BY <1>1
  <1> HIDE DEF LessToDo
  <1>3. Spec => [][LessToDo]_vars
    BY <1>2, TypeCorrect, StackInvariant, PreventInvariant, DescentInvariant, PTL DEF Spec
  <1>4. QED
    BY <1>3 DEF LessToDo
=============================================================================
