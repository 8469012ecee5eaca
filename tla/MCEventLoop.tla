---------------------------- MODULE MCEventLoop ----------------------------
(* Instances of EventLoop for TLC. *)
EXTENDS EventLoop

CONSTANTS main, update,          \* threads
          KEYPRESS, UPDATE,      \* events
          NO_EVENT_INFO          \* a static EventInfo

MCDefaults == [e \in Events |-> IF e = UPDATE THEN 1 ELSE 0]

\* The main thread emits input events with an EventInfo of its own, the
\* update thread UPDATE with a static one.
MCEmits == {c \in {[thread |-> main,   ev |-> KEYPRESS, info |-> Fresh],
                   [thread |-> update, ev |-> UPDATE,   info |-> NO_EVENT_INFO]} :
              c.thread \in Threads}

\* A handler emits either event: with its own EventInfo passed on, or with the
\* static one as the developer console does.
MCNested == {[ev |-> KEYPRESS, info |-> Own], [ev |-> UPDATE, info |-> NO_EVENT_INFO]}
UpdateNested == {[ev |-> UPDATE, info |-> NO_EVENT_INFO]}
=============================================================================
