------------------------------ MODULE EventLoop ------------------------------
(***************************************************************************)
(* Event dispatch: EventLoop::add_hook and EventLoop::call_event of        *)
(* types/eventloop.h, run by any number of threads at once.                *)
(*                                                                         *)
(* call_event walks the hooks registered for an event, then the default    *)
(* hooks, and marks the hook whose handler it runs as locked.  A handler   *)
(* is user code: it may emit further events (call_event is re-entered on   *)
(* the same thread), set the prevent flags of the EventInfo it was given,  *)
(* and return.  The locks and the three static EventInfo objects are       *)
(* shared by every thread and protected by nothing, so every read and      *)
(* every write of them is a step of its own.                               *)
(***************************************************************************)
EXTENDS Integers, Sequences, FiniteSets

CONSTANTS
    Threads,      \* threads that emit events
    Events,       \* event kinds
    StaticInfos,  \* NO_EVENT_INFO, UPDATE_INFO, INIT_INFO: shared EventInfo objects
    Emits,        \* the call_event calls the loop's threads make: [thread, ev, info]
    Nested,       \* the call_event calls a handler makes: [ev, info]
    Fresh,        \* an EventInfo on the stack of the caller
    Own,          \* the EventInfo the handler was given, passed on
    Defaults,     \* default hooks per event (DEFAULT_EVENT_HOOKS): their number
    MaxHooks,     \* bound on the calls of add_hook
    MaxDepth,     \* bound on the nesting of call_event in one thread
    MaxCalls      \* bound on the events one run of a handler emits

InfoArgs == StaticInfos \cup {Fresh}

ASSUME ConstantsAssumption ==
    /\ IsFiniteSet(Events)
    /\ Fresh \notin StaticInfos /\ Own \notin InfoArgs
    /\ \A i \in StaticInfos : i \notin Threads \X Nat   \* no static one lives in a frame
    /\ Emits \subseteq [thread : Threads, ev : Events, info : InfoArgs]
    /\ Nested \subseteq [ev : Events, info : InfoArgs \cup {Own}]
    /\ Defaults \in [Events -> Nat]
    /\ MaxHooks \in Nat /\ MaxDepth \in Nat /\ MaxCalls \in Nat

Flags == {"further", "default"}   \* EventInfo::prevent_further, ::prevent_default
Lists == {"user", "default"}      \* EventLoop::hooks, EventLoop::defaults

\* An EventInfo object: a static one, or the one in a thread's frame.
Infos == StaticInfos \cup (Threads \X (1..MaxDepth))

\* A registered copy of a hook: add_hook pushes one copy per event, and every
\* copy has its own `locked` member.
Slots == Lists \X Events \X (Nat \ {0})

\* One activation of call_event.  asked is history: the flags that user hooks
\* of this activation have set.
Frames == [ev    : Events,
           info  : Infos,
           list  : Lists,
           pos   : Nat \ {0},
           phase : {"scan", "claim", "run", "unlock", "after"},
           calls : 0..MaxCalls,
           asked : SUBSET Flags]

VARIABLES
    hooks,      \* event -> the hook ids registered for it, in order
    ids,        \* the hook ids given out so far
    started,    \* do_event_loop has begun to emit events
    stack,      \* thread -> its activations of call_event, innermost last
    locked,     \* the slots whose `locked` member is true
    prevented   \* the <<info, flag>> pairs that are true

vars == <<hooks, ids, started, stack, locked, prevented>>

-----------------------------------------------------------------------------
Top(t)      == stack[t][Len(stack[t])]
At(t, ph)   == stack[t] # <<>> /\ Top(t).phase = ph
SetTop(t, f) == stack' = [stack EXCEPT ![t] = [@ EXCEPT ![Len(@)] = f]]
Pop(t)      == stack' = [stack EXCEPT ![t] = SubSeq(@, 1, Len(@) - 1)]

Size(f) == IF f.list = "user" THEN Len(hooks[f.ev]) ELSE Defaults[f.ev]
Slot(f) == <<f.list, f.ev, f.pos>>

\* The frame has set the locked member of its slot and not yet cleared it.
Holds(f) == f.phase \in {"run", "unlock"}

NextHook(f) == [f EXCEPT !.pos = @ + 1, !.phase = "scan"]

\* Mutant: the scan starts before the first hook.
NewFrameAtZero(e, i) ==
    [ev |-> e, info |-> i, list |-> "user", pos |-> 0, phase |-> "scan",
     calls |-> 0, asked |-> {}]

NewFrame(e, i) ==
    [ev |-> e, info |-> i, list |-> "user", pos |-> 1, phase |-> "scan",
     calls |-> 0, asked |-> {}]

Init ==
    /\ hooks = [e \in Events |-> <<>>]
    /\ ids = 0
    /\ started = FALSE
    /\ stack = [t \in Threads |-> <<>>]
    /\ locked = {}
    /\ prevented = {}

-----------------------------------------------------------------------------
\* add_hook: one id, and one copy of the hook for each of the events.
\* Programs register their hooks before do_event_loop.
AddHook(evs) ==
    /\ ~started
    /\ ids < MaxHooks
    /\ ids' = ids + 1
    /\ hooks' = [e \in Events |-> IF e \in evs THEN Append(hooks[e], ids')
                                               ELSE hooks[e]]
    /\ UNCHANGED <<started, stack, locked, prevented>>

Start ==
    /\ ~started
    /\ started' = TRUE
    /\ UNCHANGED <<hooks, ids, stack, locked, prevented>>

\* The object a call of call_event passes: one built by the caller lives in
\* the new activation and starts with both flags false; a static one, or the
\* caller's own, is passed as it stands.
Passed(t, arg) == CASE arg = Fresh -> <<t, Len(stack[t]) + 1>>
                    [] arg = Own   -> Top(t).info
                    [] OTHER       -> arg

\* Mutant: a new EventInfo is not initialised.
PassUninitialised(t, arg) == UNCHANGED prevented

Pass(t, arg) ==
    prevented' = IF arg = Fresh THEN prevented \ ({Passed(t, arg)} \X Flags)
                                ELSE prevented

\* A loop thread emits an event.
Emit(t) ==
    /\ started
    /\ stack[t] = <<>>
    /\ MaxDepth > 0
    /\ \E c \in Emits :
        /\ c.thread = t
        /\ stack' = [stack EXCEPT ![t] = <<NewFrame(c.ev, Passed(t, c.info))>>]
        /\ Pass(t, c.info)
    /\ UNCHANGED <<hooks, ids, started, locked>>

\* Mutant: the scan does not move on.
SkipBusyInPlace(t) ==
    /\ At(t, "scan")
    /\ Top(t).pos <= Size(Top(t))
    /\ Slot(Top(t)) \in locked
    /\ UNCHANGED vars

\* `if (hook.locked) continue;`
SkipBusy(t) ==
    /\ At(t, "scan")
    /\ Top(t).pos <= Size(Top(t))
    /\ Slot(Top(t)) \in locked
    /\ SetTop(t, NextHook(Top(t)))
    /\ UNCHANGED <<hooks, ids, started, locked, prevented>>

\* Mutant: no test of `locked`.
FindAny(t) ==
    /\ At(t, "scan")
    /\ Top(t).pos <= Size(Top(t))
    /\ SetTop(t, [Top(t) EXCEPT !.phase = "claim"])
    /\ UNCHANGED <<hooks, ids, started, locked, prevented>>

FindFree(t) ==
    /\ At(t, "scan")
    /\ Top(t).pos <= Size(Top(t))
    /\ Slot(Top(t)) \notin locked
    /\ SetTop(t, [Top(t) EXCEPT !.phase = "claim"])
    /\ UNCHANGED <<hooks, ids, started, locked, prevented>>

\* `hook.locked = true;` and the call of the handler.
Claim(t) ==
    /\ At(t, "claim")
    /\ locked' = locked \cup {Slot(Top(t))}
    /\ SetTop(t, [Top(t) EXCEPT !.phase = "run", !.calls = 0])
    /\ UNCHANGED <<hooks, ids, started, prevented>>

\* The handler sets a flag of its EventInfo; asked records it in every
\* activation of the thread that was given the same object.
Record(f, info, flag) ==
    IF f.info = info /\ f.list = "user" THEN [f EXCEPT !.asked = @ \cup {flag}] ELSE f

HandlerPrevents(t, flag) ==
    /\ At(t, "run")
    /\ <<Top(t).info, flag>> \notin prevented
    /\ prevented' = prevented \cup {<<Top(t).info, flag>>}
    /\ stack' = [stack EXCEPT ![t] =
                    [d \in 1..Len(stack[t]) |-> Record(stack[t][d], Top(t).info, flag)]]
    /\ UNCHANGED <<hooks, ids, started, locked>>

\* The handler emits an event and waits for its dispatch to end.
HandlerEmits(t) ==
    /\ At(t, "run")
    /\ Top(t).calls < MaxCalls
    /\ Len(stack[t]) < MaxDepth
    /\ \E c \in Nested :
        LET caller == [Top(t) EXCEPT !.calls = @ + 1]
        IN  /\ stack' = [stack EXCEPT ![t] =
                           Append([@ EXCEPT ![Len(@)] = caller],
                                  NewFrame(c.ev, Passed(t, c.info)))]
            /\ Pass(t, c.info)
    /\ UNCHANGED <<hooks, ids, started, locked>>

HandlerReturns(t) ==
    /\ At(t, "run")
    /\ SetTop(t, [Top(t) EXCEPT !.phase = "unlock"])
    /\ UNCHANGED <<hooks, ids, started, locked, prevented>>

\* Mutant: a hook that asked for prevent_further stays locked.
UnlockUnlessPrevented(t) ==
    /\ At(t, "unlock")
    /\ locked' = IF <<Top(t).info, "further">> \in prevented THEN locked
                                                            ELSE locked \ {Slot(Top(t))}
    /\ SetTop(t, IF Top(t).list = "user" THEN [Top(t) EXCEPT !.phase = "after"]
                                         ELSE NextHook(Top(t)))
    /\ UNCHANGED <<hooks, ids, started, prevented>>

\* `hook.locked = false;`
Unlock(t) ==
    /\ At(t, "unlock")
    /\ locked' = locked \ {Slot(Top(t))}
    /\ SetTop(t, IF Top(t).list = "user" THEN [Top(t) EXCEPT !.phase = "after"]
                                         ELSE NextHook(Top(t)))
    /\ UNCHANGED <<hooks, ids, started, prevented>>

\* `if ( info.prevent_further ) return;` after a user hook; there is no such
\* test after a default hook.
StopFurther(t) ==
    /\ At(t, "after")
    /\ <<Top(t).info, "further">> \in prevented
    /\ Pop(t)
    /\ UNCHANGED <<hooks, ids, started, locked, prevented>>

Continue(t) ==
    /\ At(t, "after")
    /\ <<Top(t).info, "further">> \notin prevented
    /\ SetTop(t, NextHook(Top(t)))
    /\ UNCHANGED <<hooks, ids, started, locked, prevented>>

AtEnd(t, list) == /\ At(t, "scan")
                  /\ Top(t).list = list
                  /\ Top(t).pos > Size(Top(t))

\* `if (info.prevent_default || info.prevent_further) return;`
SkipDefaults(t) ==
    /\ AtEnd(t, "user")
    /\ \E flag \in Flags : <<Top(t).info, flag>> \in prevented
    /\ Pop(t)
    /\ UNCHANGED <<hooks, ids, started, locked, prevented>>

\* Mutant: prevent_default is not tested before the default hooks.
BeginDefaultsUnlessFurther(t) ==
    /\ AtEnd(t, "user")
    /\ <<Top(t).info, "further">> \notin prevented
    /\ SetTop(t, [Top(t) EXCEPT !.list = "default", !.pos = 1])
    /\ UNCHANGED <<hooks, ids, started, locked, prevented>>

BeginDefaults(t) ==
    /\ AtEnd(t, "user")
    /\ \A flag \in Flags : <<Top(t).info, flag>> \notin prevented
    /\ SetTop(t, [Top(t) EXCEPT !.list = "default", !.pos = 1])
    /\ UNCHANGED <<hooks, ids, started, locked, prevented>>

Finish(t) ==
    /\ AtEnd(t, "default")
    /\ Pop(t)
    /\ UNCHANGED <<hooks, ids, started, locked, prevented>>

\* What a thread does between the entry and the return of call_event.
Dispatch(t) ==
    \/ SkipBusy(t) \/ FindFree(t) \/ Claim(t)
    \/ \E flag \in Flags : HandlerPrevents(t, flag)
    \/ HandlerEmits(t) \/ HandlerReturns(t)
    \/ Unlock(t) \/ StopFurther(t) \/ Continue(t)
    \/ SkipDefaults(t) \/ BeginDefaults(t) \/ Finish(t)

Next ==
    \/ \E evs \in (SUBSET Events) \ {{}} : AddHook(evs)
    \/ Start
    \/ \E t \in Threads : Emit(t) \/ Dispatch(t)

Spec == Init /\ [][Next]_vars

\* A handler makes finitely many calls and returns, and the operating system
\* runs every thread.
FairSpec == Spec /\ \A t \in Threads : WF_vars(Dispatch(t))

-----------------------------------------------------------------------------
TypeOK ==
    /\ hooks \in [Events -> Seq(1..MaxHooks)]
    /\ ids \in 0..MaxHooks
    /\ started \in BOOLEAN
    /\ stack \in [Threads -> Seq(Frames)]
    /\ locked \in SUBSET Slots
    /\ prevented \in SUBSET (Infos \X Flags)

\* Activation d of thread t runs the handler of slot s.
Runs(t, d, s) == Holds(stack[t][d]) /\ Slot(stack[t][d]) = s

\* No lock leaks: a hook is marked busy only while some activation, of some
\* thread, runs its handler.  A leaked lock would silence the hook for ever.
LockHasOwner ==
    \A s \in locked : \E t \in Threads : \E d \in 1..Len(stack[t]) : Runs(t, d, s)

\* One thread never runs a hook copy that it is already running further out,
\* whatever events the handlers emit (eventloop.h:179-187).
NoReentry ==
    \A t \in Threads : \A d1, d2 \in 1..Len(stack[t]) :
        (d1 # d2 /\ Holds(stack[t][d1]) /\ Holds(stack[t][d2]))
            => Slot(stack[t][d1]) # Slot(stack[t][d2])

\* The copies that exist: hooks registered by add_hook, and default hooks.
SlotsOf(list, size) ==
    UNION {{<<list, e, i>> : i \in 1..size[e]} : e \in Events}
UserSlots == SlotsOf("user", [e \in Events |-> Len(hooks[e])])
DefaultSlots == SlotsOf("default", Defaults)
RegisteredSlots == UserSlots \cup DefaultSlots

\* So the nesting of call_event in one thread is bounded by the number of
\* hook copies, although handlers may emit any event: the C++ stack cannot be
\* exhausted by hooks that emit each other's events.
DepthBound ==
    \A t \in Threads : Len(stack[t]) <= Cardinality(RegisteredSlots) + 1

\* The parts of the inductive invariant behind NoReentry and DepthBound.  The
\* first two hold for one thread only: a second thread can clear a lock that
\* the first still relies on.
HoldersLocked ==
    \A t \in Threads : \A d \in 1..Len(stack[t]) :
        Holds(stack[t][d]) => Slot(stack[t][d]) \in locked
ClaimsAreFree == \A t \in Threads : At(t, "claim") => Slot(Top(t)) \notin locked
OuterRun ==
    \A t \in Threads : \A d \in 1..Len(stack[t]) :
        d < Len(stack[t]) => stack[t][d].phase = "run"
SlotsExist ==
    \A t \in Threads : \A d \in 1..Len(stack[t]) :
        stack[t][d].phase \in {"claim", "run", "unlock"}
            => Slot(stack[t][d]) \in RegisteredSlots
QuietBeforeStart == ~started => \A t \in Threads : stack[t] = <<>>

OneThreadInv == HoldersLocked /\ ClaimsAreFree /\ NoReentry
StackInv == OuterRun /\ SlotsExist /\ QuietBeforeStart

\* After one of its user hooks has set prevent_further no other hook of the
\* event runs, and after prevent_default no default hook of it does
\* (eventloop.h:189-194), whoever else uses the same EventInfo.
HonoursPrevention ==
    [][\A t \in Threads : Claim(t) =>
          IF Top(t).list = "user" THEN "further" \notin Top(t).asked
                                  ELSE Top(t).asked = {}]_vars

\* An event whose EventInfo was built for it ends early only when a hook that
\* was given that EventInfo has asked for it.
EndsOnlyOnRequest ==
    [][\A t \in Threads :
          /\ StopFurther(t) \/ SkipDefaults(t)
          /\ Top(t).info = <<t, Len(stack[t])>>
          => Top(t).asked # {}]_vars

\* Every event that is emitted is dispatched to the end.
DispatchEnds == \A t \in Threads : stack[t] # <<>> ~> stack[t] = <<>>

-----------------------------------------------------------------------------
(* What the comments say and the code does not do. *)

\* eventloop.h:181-182, "lock the handler, prevent being recalled while the
\* handler is busy", between threads.
RunByOneThread ==
    \A t1, t2 \in Threads :
    \A d1 \in 1..Len(stack[t1]), d2 \in 1..Len(stack[t2]) :
        (t1 # t2 /\ Holds(stack[t1][d1]) /\ Holds(stack[t2][d2]))
            => Slot(stack[t1][d1]) # Slot(stack[t2][d2])
=============================================================================
