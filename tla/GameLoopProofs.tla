--------------------------- MODULE GameLoopProofs ---------------------------
(***************************************************************************)
(* Theorems about GameLoop, for any set of loops and any MaxFixed.         *)
(*                                                                         *)
(* TypeOK is inductive.  LifeCycleInv is inductive given TypeOK; it says   *)
(* how the main thread's program counter, main_event_loop, `cancelled` and *)
(* the detached threads of every loop hang together, and InitFirst,        *)
(* CrashOnlyAfterExit, ExitsOnce and the refinement follow from it.        *)
(***************************************************************************)
EXTENDS GameLoop, TLAPS

\* The inductive invariant.
PointerIsRunning == (IsOpen \/ pc[Main] = "precheck") => main_event_loop = running
WorkersFollowPointer ==
    \A w \in Workers : pc[w] # "none" =>
        \/ w[1] \in closed /\ w[1] \in cancelled
        \/ /\ running = w[1] /\ main_event_loop = w[1]
           /\ \/ pc[Main] \in {"test", "read", "unset"}
              \/ pc[Main] = "spawnHandler" /\ w[2] = "update"
ClosedAreCancelled == closed \subseteq cancelled
ExitIsCancelled == pc[Main] \in {"unset", "restore"} => running \in cancelled
OpenIsNotClosed == IsOpen => running \notin closed
EarlyRunsEmitNothing == pc[Main] \in {"outside", "claim", "precheck"} => Free(Main)
OnlyLiveWorkersEmit == \A w \in Workers : pc[w] # "test" => Free(w)

LifeCycleInv ==
    /\ PointerIsRunning
    /\ WorkersFollowPointer
    /\ ClosedAreCancelled
    /\ ExitIsCancelled
    /\ OpenIsNotClosed
    /\ EarlyRunsEmitNothing
    /\ OnlyLiveWorkersEmit

-----------------------------------------------------------------------------
(* The events a thread is given to emit are events. *)

LEMMA FrameType == ASSUME NEW n \in Nat PROVE Frame(n) \in Seq(Events)
BY DEF Frame, Events

LEMMA CommandType == CommandEvents \subseteq Seq(Events)
BY DEF CommandEvents, Events

LEMMA InputType ==
    ASSUME NEW before \in BeforeInput, NEW evs \in InputEvents
    PROVE  before \o evs \in Seq(Events)
<1>. "INPUT" \in Events /\ "UPDATE" \in Events
  BY DEF Events
<1>1. /\ <<>> \in Seq(Events)
      /\ <<"INPUT">> \in Seq(Events)
      /\ <<"UPDATE", "INPUT">> \in Seq(Events)
  OBVIOUS
<1>2. before \in Seq(Events) /\ evs \in Seq(Events)
  BY <1>1, CommandType DEF BeforeInput, InputEvents
<1>. QED  BY <1>2

\* A statement of task t sets its own program counter and agenda only.
LEMMA StepType ==
    ASSUME TypeOK, NEW t \in Tasks, NEW here, NEW there, NEW evs \in Seq(Events),
           there \in MainLabels \cup {"none", "ended"}, Step(t, here, there, evs)
    PROVE  /\ pc' \in [Tasks -> MainLabels \cup {"none", "ended"}]
           /\ agenda' \in [Tasks -> Seq(Events)]
           /\ pc'[t] = there
           /\ \A u \in Tasks : u # t => pc'[u] = pc[u] /\ agenda'[u] = agenda[u]
           /\ agenda'[t] = evs
BY DEF Step, TypeOK

LEMMA MainIsNoWorker == Main \in Tasks /\ \A w \in Workers : w \in Tasks /\ w # Main
BY ConstantsAssumption DEF Tasks

-----------------------------------------------------------------------------
LEMMA TypeInit == Init => TypeOK
<1>. SUFFICES ASSUME Init PROVE TypeOK
  OBVIOUS
<1>1. pc = [t \in Tasks |-> IF t = Main THEN "outside" ELSE "none"] /\ agenda = [t \in Tasks |-> <<>>]
  BY DEF Init
<1>2. \A w \in Workers : pc[w] = "none"
  BY <1>1, MainIsNoWorker
<1>3. pc[Main] = "outside"
  BY <1>1, MainIsNoWorker
<1>. QED  BY <1>1, <1>2, <1>3, ConstantsAssumption DEF Init, TypeOK, MainLabels

LEMMA TypeStep == TypeOK /\ [Next]_vars => TypeOK'
<1>. SUFFICES ASSUME TypeOK, [Next]_vars PROVE TypeOK'
  OBVIOUS
<1>. USE MainIsNoWorker
<1>1. ASSUME NEW l \in Loops, Call(l) PROVE TypeOK'
  BY <1>1, StepType, ConstantsAssumption DEF Call, TypeOK, MainLabels, Modes, Step
<1>2. CASE Refuse
  BY <1>2, StepType DEF Refuse, Return, TypeOK, MainLabels, Step
<1>3. CASE TakePointer
  BY <1>3, StepType, ConstantsAssumption DEF TakePointer, TypeOK, MainLabels, process, Step
<1>4. CASE CancelledEarly
  BY <1>4, StepType DEF CancelledEarly, Return, TypeOK, MainLabels, Step
<1>5. CASE Initialise
  <2>1. <<"INIT">> \in Seq(Events)
    BY DEF Events
  <2>. QED  BY <1>5, <2>1, StepType DEF Initialise, TypeOK, MainLabels, process, Step
<1>6. CASE InstallSignals
  BY <1>6, StepType DEF InstallSignals, TypeOK, MainLabels, Step
<1>7. CASE EnableModes
  BY <1>7, StepType DEF EnableModes, TypeOK, MainLabels, Modes, Step
<1>8. CASE SpawnUpdate
  BY <1>8 DEF SpawnUpdate, Spawn, TypeOK, MainLabels, process, Workers
<1>9. CASE SpawnHandler
  BY <1>9 DEF SpawnHandler, Spawn, TypeOK, MainLabels, process, Workers
<1>10. CASE Test
  BY <1>10, StepType DEF Test, TypeOK, MainLabels, process, Step
<1>11. CASE Read
  <2>1. PICK before \in BeforeInput, evs \in InputEvents :
            Step(Main, "read", "test", before \o evs)
    BY <1>11 DEF Read
  <2>2. before \o evs \in Seq(Events)
    BY InputType
  <2>. QED  BY <1>11, <2>1, <2>2, StepType DEF Read, TypeOK, MainLabels, process, Step
<1>21. CASE FailedRead
  <2>1. PICK e \in Events : Step(Main, "read", "test", <<e>>)
    BY <1>21 DEF FailedRead
  <2>2. <<e>> \in Seq(Events)
    OBVIOUS
  <2>. QED  BY <1>21, <2>1, <2>2, StepType DEF FailedRead, TypeOK, MainLabels, process, Step
<1>12. CASE LeaveLoop
  <2>1. <<"EXIT">> \in Seq(Events)
    BY DEF Events
  <2>. QED  BY <1>12, <2>1, StepType DEF LeaveLoop, TypeOK, MainLabels, process, Step
<1>13. CASE UnsetPointer
  BY <1>13, StepType DEF UnsetPointer, TypeOK, MainLabels, Step
<1>14. CASE Leave
  BY <1>14, StepType DEF Leave, Return, TypeOK, MainLabels, Step
<1>15. CASE ProgramEnds
  BY <1>15 DEF ProgramEnds, TypeOK
<1>16. ASSUME NEW w \in Workers, WorkerStep(w) PROVE TypeOK'
  <2>1. CASE UpdateFrame(w[1]) /\ w[2] = "update"
    <3>1. w = <<w[1], "update">>
      BY <2>1 DEF Workers
    <3>2. PICK n \in 0..MaxFixed : Step(w, "test", "test", Frame(n))
      BY <2>1, <3>1 DEF UpdateFrame
    <3>3. Frame(n) \in Seq(Events)
      BY FrameType, ConstantsAssumption
    <3>. QED  BY <2>1, <3>2, <3>3, StepType DEF UpdateFrame, TypeOK, MainLabels, process, Step
  <2>2. CASE HandlerRound(w[1]) /\ w[2] = "handler"
    <3>1. w = <<w[1], "handler">>
      BY <2>2 DEF Workers
    <3>2. PICK evs \in CommandEvents : Step(w, "test", "test", evs)
      BY <2>2, <3>1 DEF HandlerRound
    <3>. QED  BY <2>2, <3>2, CommandType, StepType DEF HandlerRound, TypeOK, MainLabels, process
  <2>3. CASE WorkerEnds(w)
    BY <2>3, StepType DEF WorkerEnds, TypeOK, MainLabels, process, Step
  <2>. QED  BY <1>16, <2>1, <2>2, <2>3 DEF WorkerStep
<1>17. ASSUME NEW t \in Tasks, Dispatched(t) PROVE TypeOK'
  BY <1>17 DEF Dispatched, Free, TypeOK, process
<1>18. ASSUME NEW l \in Loops, Cancel(l) PROVE TypeOK'
  BY <1>18 DEF Cancel, TypeOK, process
<1>19. CASE Sigint
  BY <1>19 DEF Sigint, TypeOK
<1>20. CASE UNCHANGED vars
  BY <1>20 DEF vars, process, TypeOK
<1>. QED
  BY <1>1, <1>2, <1>3, <1>4, <1>5, <1>6, <1>7, <1>8, <1>9, <1>10, <1>11, <1>12,
     <1>13, <1>14, <1>15, <1>16, <1>17, <1>18, <1>19, <1>20, <1>21 DEF Next, MainStep

\* Every variable of GameLoop keeps its type.
THEOREM TypeCorrect == Spec => []TypeOK
BY TypeInit, TypeStep, PTL DEF Spec
-----------------------------------------------------------------------------
\* What a step of a detached thread w may change.
WorkerMoves(w) ==
    /\ pc[w] = "test" /\ pc'[w] \in {"test", "ended"}
    /\ pc'[w] = "ended" => agenda'[w] = <<>> /\ w[1] \in cancelled
    /\ \A u \in Tasks : u # w => pc'[u] = pc[u] /\ agenda'[u] = agenda[u]
    /\ UNCHANGED <<main_event_loop, cancelled, running, process>>

LEMMA WorkerShape ==
    ASSUME TypeOK, NEW w \in Workers, WorkerStep(w) PROVE WorkerMoves(w)
<1>1. \A there, evs : Step(w, "test", there, evs) =>
         /\ pc[w] = "test" /\ pc'[w] = there /\ agenda'[w] = evs
         /\ \A u \in Tasks : u # w => pc'[u] = pc[u] /\ agenda'[u] = agenda[u]
  BY MainIsNoWorker DEF Step, TypeOK
<1>2. CASE w[2] = "update" /\ UpdateFrame(w[1])
  <2>1. w = <<w[1], "update">>
    BY <1>2 DEF Workers
  <2>. QED  BY <1>1, <1>2, <2>1 DEF UpdateFrame, WorkerMoves
<1>3. CASE w[2] = "handler" /\ HandlerRound(w[1])
  <2>1. w = <<w[1], "handler">>
    BY <1>3 DEF Workers
  <2>. QED  BY <1>1, <1>3, <2>1 DEF HandlerRound, WorkerMoves
<1>4. CASE WorkerEnds(w)
  BY <1>1, <1>4 DEF WorkerEnds, WorkerMoves
<1>. QED  BY <1>2, <1>3, <1>4 DEF WorkerStep

LEMMA LifeInit == Init => LifeCycleInv
<1>. SUFFICES ASSUME Init PROVE LifeCycleInv
  OBVIOUS
<1>1. pc[Main] = "outside" /\ \A w \in Workers : pc[w] = "none"
  BY MainIsNoWorker DEF Init
<1>2. \A t \in Tasks : agenda[t] = <<>>
  BY DEF Init
<1>. QED  BY <1>1, <1>2, MainIsNoWorker DEF Init, LifeCycleInv, PointerIsRunning, WorkersFollowPointer, ClosedAreCancelled,
         ExitIsCancelled, OpenIsNotClosed, EarlyRunsEmitNothing,
         OnlyLiveWorkersEmit, IsOpen, Free

LEMMA LifeStep == TypeOK /\ LifeCycleInv /\ [Next]_vars => LifeCycleInv'
<1>. SUFFICES ASSUME TypeOK, LifeCycleInv, [Next]_vars PROVE LifeCycleInv'
  OBVIOUS
<1>. USE MainIsNoWorker, ConstantsAssumption
<1>1. ASSUME NEW l \in Loops, Call(l) PROVE LifeCycleInv'
  BY <1>1 DEF Call, Step, Free, IsOpen, TypeOK, Workers, LifeCycleInv, PointerIsRunning, WorkersFollowPointer, ClosedAreCancelled,
         ExitIsCancelled, OpenIsNotClosed, EarlyRunsEmitNothing,
         OnlyLiveWorkersEmit
<1>2. ASSUME NEW l \in Loops, Cancel(l) PROVE LifeCycleInv'
  BY <1>2 DEF Cancel, process, Step, Free, IsOpen, TypeOK, Workers, LifeCycleInv, PointerIsRunning, WorkersFollowPointer, ClosedAreCancelled,
         ExitIsCancelled, OpenIsNotClosed, EarlyRunsEmitNothing,
         OnlyLiveWorkersEmit
<1>3. ASSUME NEW w \in Workers, WorkerStep(w) PROVE LifeCycleInv'
  <2>1. WorkerMoves(w)
    BY <1>3, WorkerShape
  <2>. QED
    BY <2>1
    DEF WorkerMoves, IsOpen, Free, TypeOK, process, LifeCycleInv, PointerIsRunning,
        WorkersFollowPointer, ClosedAreCancelled, ExitIsCancelled, OpenIsNotClosed,
        EarlyRunsEmitNothing, OnlyLiveWorkersEmit
<1>4. ASSUME NEW t \in Tasks, Dispatched(t) PROVE LifeCycleInv'
  BY <1>4 DEF Dispatched, Tasks, process, Step, Free, IsOpen, TypeOK, Workers, LifeCycleInv, PointerIsRunning, WorkersFollowPointer, ClosedAreCancelled,
         ExitIsCancelled, OpenIsNotClosed, EarlyRunsEmitNothing,
         OnlyLiveWorkersEmit
<1>5. CASE Refuse
  BY <1>5 DEF Refuse, Return, Step, Free, IsOpen, TypeOK, Workers, LifeCycleInv, PointerIsRunning, WorkersFollowPointer, ClosedAreCancelled,
         ExitIsCancelled, OpenIsNotClosed, EarlyRunsEmitNothing,
         OnlyLiveWorkersEmit
<1>6. CASE TakePointer
  BY <1>6 DEF TakePointer, process, Step, Free, IsOpen, TypeOK, Workers, LifeCycleInv, PointerIsRunning, WorkersFollowPointer, ClosedAreCancelled,
         ExitIsCancelled, OpenIsNotClosed, EarlyRunsEmitNothing,
         OnlyLiveWorkersEmit
<1>7. CASE CancelledEarly
  BY <1>7 DEF CancelledEarly, Return, Step, Free, IsOpen, TypeOK, Workers, LifeCycleInv, PointerIsRunning, WorkersFollowPointer, ClosedAreCancelled,
         ExitIsCancelled, OpenIsNotClosed, EarlyRunsEmitNothing,
         OnlyLiveWorkersEmit
<1>8. CASE Initialise
  BY <1>8 DEF Initialise, process, Step, Free, IsOpen, TypeOK, Workers, LifeCycleInv, PointerIsRunning, WorkersFollowPointer, ClosedAreCancelled,
         ExitIsCancelled, OpenIsNotClosed, EarlyRunsEmitNothing,
         OnlyLiveWorkersEmit
<1>9. CASE InstallSignals
  BY <1>9 DEF InstallSignals, Step, Free, IsOpen, TypeOK, Workers, LifeCycleInv, PointerIsRunning, WorkersFollowPointer, ClosedAreCancelled,
         ExitIsCancelled, OpenIsNotClosed, EarlyRunsEmitNothing,
         OnlyLiveWorkersEmit
<1>10. CASE EnableModes
  BY <1>10 DEF EnableModes, Step, Free, IsOpen, TypeOK, Workers, LifeCycleInv, PointerIsRunning, WorkersFollowPointer, ClosedAreCancelled,
         ExitIsCancelled, OpenIsNotClosed, EarlyRunsEmitNothing,
         OnlyLiveWorkersEmit
<1>11. CASE SpawnUpdate
  BY <1>11 DEF SpawnUpdate, Spawn, process, Step, Free, IsOpen, TypeOK, Workers, LifeCycleInv, PointerIsRunning, WorkersFollowPointer, ClosedAreCancelled,
         ExitIsCancelled, OpenIsNotClosed, EarlyRunsEmitNothing,
         OnlyLiveWorkersEmit
<1>12. CASE SpawnHandler
  BY <1>12 DEF SpawnHandler, Spawn, process, Step, Free, IsOpen, TypeOK, Workers, LifeCycleInv, PointerIsRunning, WorkersFollowPointer, ClosedAreCancelled,
         ExitIsCancelled, OpenIsNotClosed, EarlyRunsEmitNothing,
         OnlyLiveWorkersEmit
<1>13. CASE Test
  BY <1>13 DEF Test, process, Step, Free, IsOpen, TypeOK, Workers, LifeCycleInv, PointerIsRunning, WorkersFollowPointer, ClosedAreCancelled,
         ExitIsCancelled, OpenIsNotClosed, EarlyRunsEmitNothing,
         OnlyLiveWorkersEmit
<1>14. CASE Read
  BY <1>14 DEF Read, process, Step, Free, IsOpen, TypeOK, Workers, LifeCycleInv, PointerIsRunning, WorkersFollowPointer, ClosedAreCancelled,
         ExitIsCancelled, OpenIsNotClosed, EarlyRunsEmitNothing,
         OnlyLiveWorkersEmit
<1>15. CASE FailedRead
  BY <1>15 DEF FailedRead, process, Step, Free, IsOpen, TypeOK, Workers, LifeCycleInv, PointerIsRunning, WorkersFollowPointer, ClosedAreCancelled,
         ExitIsCancelled, OpenIsNotClosed, EarlyRunsEmitNothing,
         OnlyLiveWorkersEmit
<1>16. CASE LeaveLoop
  BY <1>16 DEF LeaveLoop, process, Step, Free, IsOpen, TypeOK, Workers, LifeCycleInv, PointerIsRunning, WorkersFollowPointer, ClosedAreCancelled,
         ExitIsCancelled, OpenIsNotClosed, EarlyRunsEmitNothing,
         OnlyLiveWorkersEmit
<1>17. CASE UnsetPointer
  BY <1>17 DEF UnsetPointer, Step, Free, IsOpen, TypeOK, Workers, LifeCycleInv, PointerIsRunning, WorkersFollowPointer, ClosedAreCancelled,
         ExitIsCancelled, OpenIsNotClosed, EarlyRunsEmitNothing,
         OnlyLiveWorkersEmit
<1>18. CASE Leave
  BY <1>18 DEF Leave, Return, Step, Free, IsOpen, TypeOK, Workers, LifeCycleInv, PointerIsRunning, WorkersFollowPointer, ClosedAreCancelled,
         ExitIsCancelled, OpenIsNotClosed, EarlyRunsEmitNothing,
         OnlyLiveWorkersEmit
<1>19. CASE ProgramEnds
  BY <1>19 DEF ProgramEnds, Step, Free, IsOpen, TypeOK, Workers, LifeCycleInv, PointerIsRunning, WorkersFollowPointer, ClosedAreCancelled,
         ExitIsCancelled, OpenIsNotClosed, EarlyRunsEmitNothing,
         OnlyLiveWorkersEmit
<1>20. CASE Sigint
  BY <1>20 DEF Sigint, Step, Free, IsOpen, TypeOK, Workers, LifeCycleInv, PointerIsRunning, WorkersFollowPointer, ClosedAreCancelled,
         ExitIsCancelled, OpenIsNotClosed, EarlyRunsEmitNothing,
         OnlyLiveWorkersEmit
<1>21. CASE UNCHANGED vars
  BY <1>21 DEF vars, process, Step, Free, IsOpen, TypeOK, Workers, LifeCycleInv, PointerIsRunning, WorkersFollowPointer, ClosedAreCancelled,
         ExitIsCancelled, OpenIsNotClosed, EarlyRunsEmitNothing,
         OnlyLiveWorkersEmit
<1>. QED
  BY <1>1, <1>2, <1>3, <1>4, <1>5, <1>6, <1>7, <1>8, <1>9, <1>10, <1>11, <1>12, <1>13, <1>14, <1>15, <1>16, <1>17, <1>18, <1>19, <1>20, <1>21 DEF Next, MainStep

\* The invariant the safety theorems rest on.
THEOREM LifeCycle == Spec => []LifeCycleInv
BY TypeCorrect, LifeInit, LifeStep, PTL DEF Spec

-----------------------------------------------------------------------------
\* While INIT is dispatched no other thread emits events of the loop.
THEOREM InitComesFirst == Spec => []InitFirst
<1>1. Init => InitFirst
  BY MainIsNoWorker DEF Init, InitFirst
<1>2. TypeOK /\ LifeCycleInv /\ InitFirst /\ [Next]_vars => InitFirst'
  <2>. SUFFICES ASSUME TypeOK, LifeCycleInv, InitFirst, [Next]_vars PROVE InitFirst'
    OBVIOUS
  <2>. USE MainIsNoWorker
  <2>1. CASE Initialise
    BY <2>1 DEF Initialise, Step, InitFirst, LifeCycleInv, WorkersFollowPointer, TypeOK
  <2>2. ASSUME NEW w \in Workers, WorkerStep(w) PROVE InitFirst'
    BY <2>2, WorkerShape DEF WorkerMoves, InitFirst, Free
  <2>3. ASSUME NEW t \in Tasks, Dispatched(t) PROVE InitFirst'
    BY <2>3 DEF Dispatched, InitFirst, Free, TypeOK
  <2>4. CASE UNCHANGED vars
    BY <2>4 DEF vars, InitFirst, Free
  <2>5. ASSUME NEW l \in Loops, Call(l) \/ Cancel(l) PROVE InitFirst'
    BY <2>5 DEF Call, Cancel, Step, InitFirst, Free, TypeOK
  <2>6. CASE Refuse \/ TakePointer \/ CancelledEarly \/ Test \/ Read \/ FailedRead
             \/ LeaveLoop \/ UnsetPointer \/ Leave \/ InstallSignals \/ EnableModes
    BY <2>6
    DEF Refuse, TakePointer, CancelledEarly, Test, Read, FailedRead, LeaveLoop,
        UnsetPointer, Leave, InstallSignals, EnableModes, Step, InitFirst, Free, TypeOK
  <2>7. CASE SpawnUpdate \/ SpawnHandler
    BY <2>7 DEF SpawnUpdate, SpawnHandler, Spawn, InitFirst, Free, TypeOK
  <2>8. CASE ProgramEnds \/ Sigint
    BY <2>8 DEF ProgramEnds, Sigint, InitFirst, Free
  <2>. QED
    BY <2>1, <2>2, <2>3, <2>4, <2>5, <2>6, <2>7, <2>8 DEF Next, MainStep
<1>. QED  BY <1>1, <1>2, TypeCorrect, LifeCycle, PTL DEF Spec

\* A segmentation fault in the SIGINT handler leaves no loop without its EXIT.
THEOREM CrashesAfterExit == Spec => []CrashOnlyAfterExit
<1>1. Init => CrashOnlyAfterExit
  BY DEF Init, CrashOnlyAfterExit
<1>2. TypeOK /\ LifeCycleInv /\ CrashOnlyAfterExit /\ [Next]_vars => CrashOnlyAfterExit'
  <2>. SUFFICES ASSUME TypeOK, LifeCycleInv, CrashOnlyAfterExit, [Next]_vars
                PROVE  CrashOnlyAfterExit'
    OBVIOUS
  <2>1. CASE Sigint
    <3>1. CASE main_event_loop # None \/ sigint = "default"
      BY <2>1, <3>1, ConstantsAssumption DEF Sigint, TypeOK, CrashOnlyAfterExit
    <3>2. CASE main_event_loop = None
      <4>1. \A w \in Workers : w[1] \in Loops
        BY DEF Workers
      <4>2. \A w \in Workers : pc[w] # "none" => w[1] \in closed
        BY <3>2, <4>1, ConstantsAssumption DEF LifeCycleInv, WorkersFollowPointer
      <4>. QED  BY <2>1, <4>2 DEF Sigint, CrashOnlyAfterExit
    <3>. QED  BY <3>1, <3>2
  <2>2. CASE UNCHANGED vars
    BY <2>2 DEF vars, process, CrashOnlyAfterExit
  <2>3. CASE Next /\ ~Sigint
    <3>1. fate = "alive" /\ fate' # "crashed"
      BY <2>3
      DEF Next, MainStep, Call, Cancel, Refuse, TakePointer, CancelledEarly, Initialise,
          InstallSignals, EnableModes, SpawnUpdate, SpawnHandler, Spawn, Test, Read,
          FailedRead, LeaveLoop, UnsetPointer, Leave, ProgramEnds, WorkerStep,
          UpdateFrame, HandlerRound, WorkerEnds, Dispatched, Step, process
    <3>. QED  BY <3>1 DEF CrashOnlyAfterExit
  <2>. QED  BY <2>1, <2>2, <2>3
<1>. QED  BY <1>1, <1>2, TypeCorrect, LifeCycle, PTL DEF Spec

\* No loop is run to its EXIT twice.
THEOREM ExitsAtMostOnce == Spec => ExitsOnce
<1>1. TypeOK /\ LifeCycleInv /\ [Next]_vars => [UnsetPointer => running \notin closed]_vars
  BY DEF LifeCycleInv, OpenIsNotClosed, IsOpen, UnsetPointer, Step
<1>. QED  BY <1>1, TypeCorrect, LifeCycle, PTL DEF Spec, ExitsOnce

\* The steps that leave the ownership as it is.
Stutters ==
    /\ main_event_loop' = main_event_loop
    /\ IsOpen' <=> IsOpen
    /\ IsOpen => running' = running
    /\ closed' = closed

\* do_event_loop implements exclusive ownership of main_event_loop.
THEOREM OwnershipImplemented == Spec => OwnsExclusively
<1>1. Init => Ownership!Init
  BY MainIsNoWorker DEF Init, Ownership!Init, IsOpen
<1>2. TypeOK /\ LifeCycleInv /\ [Next]_vars =>
        [Ownership!Next]_<<main_event_loop, IF IsOpen THEN {running} ELSE {}, closed>>
  <2>. SUFFICES ASSUME TypeOK, LifeCycleInv, [Next]_vars
                PROVE  [Ownership!Next]_<<main_event_loop, IF IsOpen THEN {running} ELSE {}, closed>>
    OBVIOUS
  <2>. USE MainIsNoWorker
  <2>1. CASE TakePointer
    <3>1. running \in Loops
      BY <2>1 DEF TakePointer, Step, TypeOK
    <3>2. ~IsOpen /\ ~IsOpen'
      BY <2>1 DEF TakePointer, Step, IsOpen, TypeOK
    <3>3. Ownership!Acquire(running)
      BY <2>1, <3>2 DEF TakePointer, Ownership!Acquire, process
    <3>. QED  BY <3>1, <3>3 DEF Ownership!Next
  <2>2. CASE Initialise
    <3>1. running \in Loops /\ running' = running /\ closed' = closed /\ main_event_loop' = main_event_loop
      BY <2>2 DEF Initialise, Step, TypeOK, process
    <3>2. ~IsOpen /\ IsOpen'
      BY <2>2 DEF Initialise, Step, IsOpen, TypeOK
    <3>3. main_event_loop = running /\ running \notin closed
      BY <2>2 DEF Initialise, Step, LifeCycleInv, PointerIsRunning, ClosedAreCancelled
    <3>4. Ownership!Open(running)
      BY <3>1, <3>2, <3>3 DEF Ownership!Open
    <3>. QED  BY <3>1, <3>4 DEF Ownership!Next
  <2>3. CASE UnsetPointer
    <3>1. running \in Loops /\ main_event_loop' = None /\ closed' = closed \cup {running}
      BY <2>3 DEF UnsetPointer, Step, TypeOK
    <3>2. IsOpen /\ ~IsOpen'
      BY <2>3 DEF UnsetPointer, Step, IsOpen, TypeOK
    <3>3. Ownership!Close(running)
      BY <3>1, <3>2 DEF Ownership!Close
    <3>. QED  BY <3>1, <3>3 DEF Ownership!Next
  <2>4. CASE Stutters
    BY <2>4 DEF Stutters
  <2>5. ASSUME NEW l \in Loops, Call(l) \/ Cancel(l) PROVE Stutters
    BY <2>5 DEF Stutters, Call, Cancel, Step, IsOpen, TypeOK, process
  <2>6. CASE Refuse \/ CancelledEarly \/ Test \/ Read \/ FailedRead \/ LeaveLoop \/ Leave
             \/ InstallSignals \/ EnableModes
    BY <2>6
    DEF Stutters, Refuse, CancelledEarly, Test, Read, FailedRead, LeaveLoop, Leave, Return,
        InstallSignals, EnableModes, Step, IsOpen, TypeOK, process
  <2>7. CASE SpawnUpdate \/ SpawnHandler
    BY <2>7 DEF Stutters, SpawnUpdate, SpawnHandler, Spawn, IsOpen, TypeOK, process
  <2>8. CASE ProgramEnds \/ Sigint
    BY <2>8 DEF Stutters, ProgramEnds, Sigint, IsOpen
  <2>9. ASSUME NEW w \in Workers, WorkerStep(w) PROVE Stutters
    BY <2>9, WorkerShape DEF Stutters, WorkerMoves, IsOpen, process
  <2>10. ASSUME NEW t \in Tasks, Dispatched(t) PROVE Stutters
    BY <2>10 DEF Stutters, Dispatched, IsOpen, process
  <2>11. CASE UNCHANGED vars
    BY <2>11 DEF Stutters, vars, IsOpen, process
  <2>. QED
    BY <2>1, <2>2, <2>3, <2>4, <2>5, <2>6, <2>7, <2>8, <2>9, <2>10, <2>11
    DEF Next, MainStep
<1>. QED  BY <1>1, <1>2, TypeCorrect, LifeCycle, PTL DEF Spec, OwnsExclusively, Ownership!Spec

\* So at most one loop is open, and it holds main_event_loop.
THEOREM OneOpenLoop == Spec => []Ownership!OneOpen
<1>1. LifeCycleInv => Ownership!OneOpen
  BY DEF LifeCycleInv, PointerIsRunning, OpenIsNotClosed, Ownership!OneOpen
<1>. QED  BY <1>1, LifeCycle, PTL

-----------------------------------------------------------------------------
\* The mouse is reported only between the statement that turns it on and the one
\* that turns it off, and these lie behind the call of signal(): a SIGINT in
\* between finds the handler.
BeforeSignals == pc[Main] \in {"outside", "claim", "precheck", "install"}
MouseInside == (fate = "alive" /\ "mouse" \in modes) =>
    sigint = "handler" /\ ~BeforeSignals /\ pc[Main] # "modes"
SignalsFirst == ~BeforeSignals => sigint = "handler"
MouseInv == MouseInside /\ SignalsFirst /\ MouseNeverLeftOn

LEMMA MouseStep == TypeOK /\ MouseInv /\ [Next]_vars => MouseInv'
<1>. SUFFICES ASSUME TypeOK, MouseInv, [Next]_vars PROVE MouseInv'
  OBVIOUS
<1>. USE MainIsNoWorker DEF MouseInv, MouseInside, SignalsFirst, MouseNeverLeftOn, BeforeSignals
<1>1. ASSUME NEW w \in Workers, WorkerStep(w) PROVE MouseInv'
  BY <1>1, WorkerShape DEF WorkerMoves, process
<1>2. ASSUME NEW t \in Tasks, Dispatched(t) PROVE MouseInv'
  BY <1>2 DEF Dispatched, process
<1>3. ASSUME NEW l \in Loops, Call(l) \/ Cancel(l) PROVE MouseInv'
  BY <1>3 DEF Call, Cancel, Step, TypeOK, process
<1>4. CASE Refuse \/ CancelledEarly \/ Leave
  BY <1>4 DEF Refuse, CancelledEarly, Leave, Return, Step, TypeOK
<1>5. CASE TakePointer \/ Initialise \/ InstallSignals \/ EnableModes
  BY <1>5 DEF TakePointer, Initialise, InstallSignals, EnableModes, Step, TypeOK, process
<1>6. CASE Test \/ Read \/ FailedRead \/ LeaveLoop \/ UnsetPointer
  BY <1>6 DEF Test, Read, FailedRead, LeaveLoop, UnsetPointer, Step, TypeOK, process
<1>7. CASE SpawnUpdate \/ SpawnHandler
  BY <1>7 DEF SpawnUpdate, SpawnHandler, Spawn, TypeOK, process
<1>8. CASE ProgramEnds \/ Sigint \/ UNCHANGED vars
  BY <1>8 DEF ProgramEnds, Sigint, vars, process
<1>. QED  BY <1>1, <1>2, <1>3, <1>4, <1>5, <1>6, <1>7, <1>8 DEF Next, MainStep

\* However the process ends, the terminal no longer reports the mouse
\* (MouseNeverLeftOn).
THEOREM MouseIsOff == Spec => []MouseNeverLeftOn
<1>1. Init => MouseInv
  BY MainIsNoWorker
  DEF Init, MouseInv, MouseInside, SignalsFirst, MouseNeverLeftOn, BeforeSignals
<1>2. MouseInv => MouseNeverLeftOn
  BY DEF MouseInv
<1>. QED  BY <1>1, <1>2, MouseStep, TypeCorrect, PTL DEF Spec

\* Once a loop's EXIT is under way none of its threads begins a frame or a round.
THEOREM ExitIsTheEnd == Spec => NothingBeginsAfterExit
<1>. DEFINE Over(w) == w[1] \in closed \/ (pc[Main] = "unset" /\ running = w[1])
            Ends == \A w \in Workers : Over(w) => Len(agenda'[w]) <= Len(agenda[w])
<1>1. TypeOK /\ LifeCycleInv /\ [Next]_vars => [Ends]_vars
  <2>. SUFFICES ASSUME TypeOK, LifeCycleInv, Next, NEW w \in Workers, Over(w)
                PROVE  Len(agenda'[w]) <= Len(agenda[w])
    BY DEF vars
  <2>. USE MainIsNoWorker
  <2>1. w[1] \in cancelled
    BY DEF LifeCycleInv, ClosedAreCancelled, ExitIsCancelled
  <2>2. agenda[w] \in Seq(Events) /\ Len(agenda[w]) \in Nat
    BY DEF TypeOK
  <2>3. agenda'[w] = agenda[w] => Len(agenda'[w]) <= Len(agenda[w])
    BY <2>2
  <2>4. agenda'[w] = << >> => Len(agenda'[w]) <= Len(agenda[w])
    BY <2>2
  <2>5. ASSUME NEW v \in Workers, WorkerStep(v) PROVE agenda'[w] = agenda[w] \/ agenda'[w] = << >>
    <3>1. CASE v # w
      BY <2>5, <3>1, WorkerShape DEF WorkerMoves
    <3>2. CASE v = w
      <4>1. w[2] = "update" => ~UpdateFrame(w[1])
        BY <2>1 DEF UpdateFrame
      <4>2. w[2] = "handler" => ~HandlerRound(w[1])
        BY <2>1 DEF HandlerRound
      <4>. QED  BY <2>5, <3>2, <4>1, <4>2 DEF WorkerStep, WorkerEnds, Step, TypeOK
    <3>. QED  BY <3>1, <3>2
  <2>6. ASSUME NEW t \in Tasks, Dispatched(t) PROVE Len(agenda'[w]) <= Len(agenda[w])
    <3>1. CASE t # w
      BY <2>3, <2>6, <3>1 DEF Dispatched, TypeOK
    <3>2. CASE t = w
      <4>1. agenda'[w] = Tail(agenda[w]) /\ agenda[w] # << >>
        BY <2>6, <3>2 DEF Dispatched, Free, TypeOK
      <4>2. Len(Tail(agenda[w])) = Len(agenda[w]) - 1
        BY <2>2, <4>1
      <4>. QED  BY <2>2, <4>1, <4>2
    <3>. QED  BY <3>1, <3>2
  <2>7. ASSUME NEW l \in Loops, Call(l) \/ Cancel(l) PROVE agenda'[w] = agenda[w]
    BY <2>7 DEF Call, Cancel, Step, TypeOK
  <2>8. CASE MainStep \/ Read \/ FailedRead \/ ProgramEnds \/ Sigint
    <3>. agenda'[w] = agenda[w]
      BY <2>8
      DEF MainStep, Refuse, TakePointer, CancelledEarly, Initialise, InstallSignals,
          EnableModes, SpawnUpdate, SpawnHandler, Spawn, Test, Read, FailedRead, LeaveLoop,
          UnsetPointer, Leave, ProgramEnds, Sigint, Step, TypeOK
    <3>. QED  BY <2>3
  <2>. QED  BY <2>3, <2>4, <2>5, <2>6, <2>7, <2>8 DEF Next
<1>. QED  BY <1>1, TypeCorrect, LifeCycle, PTL DEF Spec, NothingBeginsAfterExit
=============================================================================
