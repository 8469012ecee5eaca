------------------------------ MODULE GameLoop ------------------------------
(***************************************************************************)
(* The terminal game loop: do_event_loop of src/gmeng.cpp, the two         *)
(* threads it detaches, the SIGINT handler, and the events they emit.      *)
(*                                                                         *)
(* A thread that emits events holds them in its agenda: the head is the    *)
(* event whose dispatch (module EventLoop) is under way.  Hooks, console   *)
(* commands and loose threads of the program may cancel a loop at any      *)
(* time, and a signal arrives at any time.                                 *)
(***************************************************************************)
EXTENDS Integers, Sequences, FiniteSets

CONSTANTS
    Loops,      \* the program's EventLoop objects
    None,       \* a null EventLoop pointer
    Main,       \* the thread that calls do_event_loop
    MaxFixed    \* bound on the FIXED_UPDATEs of one frame (the 0.25 s clamp)

Workers == Loops \X {"update", "handler"}
Tasks == {Main} \cup Workers

ASSUME ConstantsAssumption ==
    /\ None \notin Loops
    /\ Main \notin Workers
    /\ MaxFixed \in Nat

Events == {"INIT", "UPDATE", "FIXED_UPDATE", "EXIT", "INPUT"}
Modes  == {"keyboard", "mouse", "raw"}   \* terminal modes do_event_loop turns on

VARIABLES
    main_event_loop,  \* the global pointer
    cancelled,        \* the loops whose cancelled field is true
    running,          \* the argument of the current call of do_event_loop
    pc,               \* task -> the statement it executes next
    agenda,           \* task -> the events it is to emit, the head being emitted
    sigint,           \* "default", or "handler" once signal() has been called
    modes,            \* the terminal modes that are on
    result,           \* what the last do_event_loop returned, -1 before
    closed,           \* history: the loops whose own EXIT has been dispatched
    fate              \* of the process

process == <<sigint, modes, result, closed, fate>>
vars == <<main_event_loop, cancelled, running, pc, agenda, process>>

-----------------------------------------------------------------------------
Free(t)  == agenda[t] = <<>>
Emits(t, e) == ~Free(t) /\ Head(agenda[t]) = e
LoopOf(t) == IF t = Main THEN running ELSE t[1]

\* Task t executes the statement `here` and goes on to `there`, emitting evs.
Step(t, here, there, evs) ==
    /\ fate = "alive" /\ Free(t) /\ pc[t] = here
    /\ pc' = [pc EXCEPT ![t] = there]
    /\ agenda' = [agenda EXCEPT ![t] = evs]

\* The events a console command emits: an empty command none, savelvl EXIT,
\* force_update two; every command is followed by UPDATE, all but `refresh`
\* by a second one.
CommandEvents ==
    {<<>>, <<"UPDATE">>, <<"UPDATE", "UPDATE">>, <<"EXIT", "UPDATE", "UPDATE">>,
     <<"UPDATE", "FIXED_UPDATE", "UPDATE", "UPDATE">>}

\* What the main thread emits for the bytes it has read: nothing (a focus
\* change, an unknown mouse code, a key code above 255), an input event with or
\* without MOUSE_CLICK_END_ANY before it, or the events of console commands,
\* before which toggling the console refreshes the screen.
BeforeInput == {<<>>, <<"INPUT">>, <<"UPDATE", "INPUT">>}
InputEvents == {<<"INPUT">>} \cup CommandEvents

Frame(n) == [i \in 1..n |-> "FIXED_UPDATE"] \o <<"UPDATE">>

Init ==
    /\ main_event_loop = None
    /\ cancelled = {}
    /\ running = None
    /\ pc = [t \in Tasks |-> IF t = Main THEN "outside" ELSE "none"]
    /\ agenda = [t \in Tasks |-> <<>>]
    /\ sigint = "default"
    /\ modes = {}
    /\ result = -1
    /\ closed = {}
    /\ fate = "alive"

-----------------------------------------------------------------------------
(* The main thread. *)

\* The program calls do_event_loop(l), which turns the keyboard protocol on
\* before it tests anything.
Call(l) ==
    /\ Step(Main, "outside", "claim", <<>>)
    /\ running' = l
    /\ modes' = modes \cup {"keyboard"}
    /\ UNCHANGED <<main_event_loop, cancelled, sigint, result, closed, fate>>

\* Mutant: the call is not seen to end.
ReturnStillRunning(code) == UNCHANGED running /\ result' = code

Return(code) == running' = None /\ result' = code

\* `if (Gmeng::main_event_loop != nullptr) return 1;`
Refuse ==
    /\ main_event_loop # None
    /\ Step(Main, "claim", "outside", <<>>)
    /\ Return(1)
    /\ UNCHANGED <<main_event_loop, cancelled, sigint, modes, closed, fate>>

\* Mutant: the pointer is taken from another loop.
TakePointerAnyway ==
    /\ Step(Main, "claim", "precheck", <<>>)
    /\ main_event_loop' = running
    /\ UNCHANGED <<cancelled, running, process>>

TakePointer ==
    /\ main_event_loop = None
    /\ Step(Main, "claim", "precheck", <<>>)
    /\ main_event_loop' = running
    /\ UNCHANGED <<cancelled, running, process>>

\* `if (ev->cancelled) return 1;`, the pointer stays set.
CancelledEarly ==
    /\ running \in cancelled
    /\ Step(Main, "precheck", "outside", <<>>)
    /\ Return(1)
    /\ UNCHANGED <<main_event_loop, cancelled, sigint, modes, closed, fate>>

\* Mutant: no `if (ev->cancelled) return 1;`.
InitialiseAnyway ==
    /\ Step(Main, "precheck", "install", <<"INIT">>)
    /\ UNCHANGED <<main_event_loop, cancelled, running, process>>

Initialise ==
    /\ running \notin cancelled
    /\ Step(Main, "precheck", "install", <<"INIT">>)
    /\ UNCHANGED <<main_event_loop, cancelled, running, process>>

\* Mutant: no signal().
InstallNoSignals ==
    /\ Step(Main, "install", "modes", <<>>)
    /\ UNCHANGED <<main_event_loop, cancelled, running, process>>

InstallSignals ==
    /\ Step(Main, "install", "modes", <<>>)
    /\ sigint' = "handler"
    /\ UNCHANGED <<main_event_loop, cancelled, running, modes, result, closed, fate>>

EnableModes ==
    /\ Step(Main, "modes", "spawnUpdate", <<>>)
    /\ modes' = modes \cup {"mouse", "raw"}
    /\ UNCHANGED <<main_event_loop, cancelled, running, sigint, result, closed, fate>>

\* create_thread: the new thread is detached and never joined.
Spawn(kind, here, there) ==
    /\ fate = "alive" /\ Free(Main) /\ pc[Main] = here
    /\ pc' = [pc EXCEPT ![Main] = there, ![<<running, kind>>] = "test"]
    /\ UNCHANGED <<main_event_loop, cancelled, running, agenda, process>>

SpawnUpdate  == Spawn("update", "spawnUpdate", "spawnHandler")
SpawnHandler == Spawn("handler", "spawnHandler", "test")

\* Mutant: `while (true)`.
TestAnyway ==
    /\ Step(Main, "test", "read", <<>>)
    /\ UNCHANGED <<main_event_loop, cancelled, running, process>>

\* `while (!ev->cancelled)`, and the read() that blocks until bytes arrive.
Test ==
    /\ running \notin cancelled
    /\ Step(Main, "test", "read", <<>>)
    /\ UNCHANGED <<main_event_loop, cancelled, running, process>>

Read ==
    /\ \E before \in BeforeInput, evs \in InputEvents :
          Step(Main, "read", "test", before \o evs)
    /\ UNCHANGED <<main_event_loop, cancelled, running, process>>

\* read() fails: `info` is dispatched although its EVENT was never written.
FailedRead ==
    /\ \E e \in Events : Step(Main, "read", "test", <<e>>)
    /\ UNCHANGED <<main_event_loop, cancelled, running, process>>

\* Mutant: the pointer is cleared before EXIT.
LeaveLoopUnset ==
    /\ running \in cancelled
    /\ Step(Main, "test", "unset", <<"EXIT">>)
    /\ main_event_loop' = None
    /\ UNCHANGED <<cancelled, running, process>>

LeaveLoop ==
    /\ running \in cancelled
    /\ Step(Main, "test", "unset", <<"EXIT">>)
    /\ UNCHANGED <<main_event_loop, cancelled, running, process>>

\* `Gmeng::main_event_loop = nullptr;` once EXIT has been dispatched.
UnsetPointer ==
    /\ Step(Main, "unset", "restore", <<>>)
    /\ main_event_loop' = None
    /\ closed' = closed \cup {running}
    /\ UNCHANGED <<cancelled, running, sigint, modes, result, fate>>

\* The terminal modes are disabled; clear_threads erases the handles of the
\* detached threads, which go on; `return 0;`.
Leave ==
    /\ Step(Main, "restore", "outside", <<>>)
    /\ modes' = {}
    /\ Return(0)
    /\ UNCHANGED <<main_event_loop, cancelled, sigint, closed, fate>>

\* The program ends between two calls of do_event_loop.
ProgramEnds ==
    /\ fate = "alive" /\ pc[Main] = "outside"
    /\ fate' = "ended"
    /\ UNCHANGED <<main_event_loop, cancelled, running, pc, agenda, sigint, modes, result, closed>>

MainStep ==
    \/ Refuse \/ TakePointer \/ CancelledEarly \/ Initialise
    \/ InstallSignals \/ EnableModes \/ SpawnUpdate \/ SpawnHandler
    \/ Test \/ LeaveLoop \/ UnsetPointer \/ Leave

-----------------------------------------------------------------------------
(* The detached threads of a loop, and what any thread may meet. *)

\* Mutant: the thread does not look at `cancelled`.
UpdateForever(l) ==
    /\ \E n \in 0..MaxFixed : Step(<<l, "update">>, "test", "test", Frame(n))
    /\ UNCHANGED <<main_event_loop, cancelled, running, process>>

\* `while( !ev->cancelled )` is tested once per frame: the FIXED_UPDATEs and
\* the UPDATE of a frame are all emitted once it has begun.
UpdateFrame(l) ==
    /\ l \notin cancelled
    /\ \E n \in 0..MaxFixed : Step(<<l, "update">>, "test", "test", Frame(n))
    /\ UNCHANGED <<main_event_loop, cancelled, running, process>>

\* One round of the handler thread: nothing, a refresh, or a console command.
HandlerRound(l) ==
    /\ l \notin cancelled
    /\ \E evs \in CommandEvents : Step(<<l, "handler">>, "test", "test", evs)
    /\ UNCHANGED <<main_event_loop, cancelled, running, process>>

WorkerEnds(w) ==
    /\ w[1] \in cancelled
    /\ Step(w, "test", "ended", <<>>)
    /\ UNCHANGED <<main_event_loop, cancelled, running, process>>

WorkerStep(w) ==
    \/ w[2] = "update" /\ UpdateFrame(w[1])
    \/ w[2] = "handler" /\ HandlerRound(w[1])
    \/ WorkerEnds(w)

\* The dispatch of an event ends.
Dispatched(t) ==
    /\ fate = "alive" /\ ~Free(t)
    /\ agenda' = [agenda EXCEPT ![t] = Tail(@)]
    /\ UNCHANGED <<main_event_loop, cancelled, running, pc, process>>

\* EventLoop::cancel, by a hook, a console command or a loose thread.
Cancel(l) ==
    /\ fate = "alive" /\ l \notin cancelled
    /\ cancelled' = cancelled \cup {l}
    /\ UNCHANGED <<main_event_loop, running, pc, agenda, process>>

\* SIGINT.  The handler writes through main_event_loop without a test: when
\* it is null the segmentation fault runs gmeng_handle_sigsegv, which disables
\* the keyboard protocol and the mouse and lets the process die.
Sigint ==
    /\ fate = "alive"
    /\ UNCHANGED <<main_event_loop, running, pc, agenda, sigint, result, closed>>
    /\ \/ /\ sigint = "default"
          /\ fate' = "killed"
          /\ UNCHANGED <<cancelled, modes>>
       \/ /\ sigint = "handler" /\ main_event_loop # None
          /\ cancelled' = cancelled \cup {main_event_loop}
          /\ UNCHANGED <<modes, fate>>
       \/ /\ sigint = "handler" /\ main_event_loop = None
          /\ fate' = "crashed"
          /\ modes' = modes \ {"keyboard", "mouse"}
          /\ UNCHANGED cancelled

Next ==
    \/ \E l \in Loops : Call(l) \/ Cancel(l)
    \/ MainStep \/ Read \/ FailedRead \/ ProgramEnds \/ Sigint
    \/ \E w \in Workers : WorkerStep(w)
    \/ \E t \in Tasks : Dispatched(t)

Spec == Init /\ [][Next]_vars

\* Threads are scheduled and dispatch ends (EventLoop!DispatchEnds).  Nothing
\* makes the program call, a user type, or a signal arrive.
FairSpec ==
    /\ Spec
    /\ WF_vars(MainStep)
    /\ \A w \in Workers : WF_vars(WorkerStep(w))
    /\ \A t \in Tasks : WF_vars(Dispatched(t))

\* The same, for a user who types.
TypingSpec == FairSpec /\ WF_vars(Read)

-----------------------------------------------------------------------------
MainLabels == {"outside", "claim", "precheck", "install", "modes", "spawnUpdate",
               "spawnHandler", "test", "read", "unset", "restore"}

TypeOK ==
    /\ main_event_loop \in Loops \cup {None}
    /\ cancelled \subseteq Loops
    /\ running \in Loops \cup {None}
    /\ running = None <=> pc[Main] = "outside"
    /\ pc \in [Tasks -> MainLabels \cup {"none", "ended"}]
    /\ pc[Main] \in MainLabels
    /\ \A w \in Workers : pc[w] \in {"none", "test", "ended"}
    /\ agenda \in [Tasks -> Seq(Events)]
    /\ sigint \in {"default", "handler"}
    /\ modes \subseteq Modes
    /\ result \in {-1, 0, 1}
    /\ closed \subseteq Loops
    /\ fate \in {"alive", "ended", "killed", "crashed"}

\* From the INIT of the running loop to the end of its EXIT.
IsOpen == pc[Main] \in {"install", "modes", "spawnUpdate", "spawnHandler",
                        "test", "read", "unset"}
Alive(w) == pc[w] = "test"

\* While INIT is dispatched for a loop no thread emits another event of that
\* loop (gmeng.cpp:763-789), not even one left over from an earlier
\* do_event_loop of the same object.
InitFirst ==
    (pc[Main] = "install" /\ ~Free(Main)) =>
        \A w \in Workers : w[1] = running => pc[w] = "none"

\* A loop is never run, and so never exits, a second time.
ExitsOnce == [][UnsetPointer => running \notin closed]_vars

\* SIGINT ends the process with a segmentation fault only when every loop that
\* was started has had its EXIT dispatched to the end (gmeng.cpp:610, 1180-1183).
CrashOnlyAfterExit ==
    fate = "crashed" => \A w \in Workers : pc[w] # "none" => w[1] \in closed

\* The terminal a process leaves never goes on reporting the mouse, "so the
\* terminal does not output dirty characters" (gmeng.cpp:793-795): not when
\* SIGINT kills it before signal() has been called for the first time, not when
\* the handler crashes on the null pointer, not when the program ends between
\* two loops, whichever way the last one was left.
MouseNeverLeftOn == fate # "alive" => "mouse" \notin modes

\* A thread that emits an event for a loop after the loop's EXIT belongs to a
\* frame or a round it began before: no new one begins once EXIT is under way.
NothingBeginsAfterExit ==
    [][\A w \in Workers :
         (w[1] \in closed \/ (pc[Main] = "unset" /\ running = w[1]))
             => Len(agenda'[w]) <= Len(agenda[w])]_vars

\* A cancelled loop's threads end.
WorkersEnd ==
    \A w \in Workers :
        (w[1] \in cancelled /\ Alive(w)) ~> (pc[w] = "ended" \/ fate # "alive")

\* A loop that is cancelled while it runs gets its EXIT, for a user who types.
CancelLeadsToExit ==
    \A l \in Loops :
        (running = l /\ IsOpen /\ l \in cancelled)
            ~> (l \in closed \/ fate # "alive")

-----------------------------------------------------------------------------
(* The exclusive ownership of main_event_loop that do_event_loop implements. *)

Ownership == INSTANCE LoopOwnership
    WITH owner <- main_event_loop, open <- IF IsOpen THEN {running} ELSE {}

\* At most one loop is open, it holds main_event_loop, and it opens once
\* (gmeng.cpp:751-767, 1180-1183).
OwnsExclusively == Ownership!Spec
=============================================================================
