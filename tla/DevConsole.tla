----------------------------- MODULE DevConsole -----------------------------
(***************************************************************************)
(* The developer console of a terminal game: gmeng_dev_console, which the  *)
(* main thread calls for what it has read and the handler thread calls to  *)
(* redraw, and the parts of those two threads that concern it              *)
(* (src/lib/bin/src/gmeng.cpp).  They share plain variables: a test of one *)
(* and the write that relies on it are separate steps.  The terminal has   *)
(* neither the keyboard nor the graphics protocol; allow_console is set.   *)
(* Of what is drawn only that the console is on the screen: what the game  *)
(* draws over it is left out.                                              *)
(***************************************************************************)
EXTENDS Integers, Sequences

CONSTANTS
    Main, Handler,   \* the two threads
    Widths,          \* what GMENG_DEV_CONSOLE_WIDTH is set to
    Word             \* 2^64: size_t wraps around there

\* An int that is compared with a size_t becomes one.
Unsigned(i) == IF i >= 0 THEN i ELSE i + Word

ASSUME ConstantsAssumption ==
    /\ Main # Handler
    /\ Word \in Nat
    /\ \A w \in Widths : w \in Int /\ Unsigned(w - 7) \in Nat

Threads == {Main, Handler}

\* The length of a line that two threads have changed at once: there is no telling.
Mixed == -1

\* What an EventInfo asks of the console; "redraw": any other key or event.
Keys == {"~", "enter", "backspace", "letter", "redraw"}

\* The EventInfos dev_next may point to: the static one, the main loop's
\* local, and the copy a call has made for the call it nests.
Pointers == {"NO_EVENT_INFO", "info", "next"}

VARIABLES
    console_open,       \* EventLoopState::console_open, read by the two loops
    dev_console_open,   \* read and set by gmeng_dev_console
    state_change,       \* gmeng_console_state_change_modifier
    already_writing,
    dev_next,           \* a pointer or "nullptr"
    line,               \* the length of dev_console_input, or Mixed
    width,              \* GMENG_DEV_CONSOLE_WIDTH
    info,               \* the contents of the main loop's EventInfo
    loop,               \* thread -> where its loop is
    calls,              \* thread -> its activations of gmeng_dev_console
    drawn,              \* the console has been drawn since the screen was cleared
    over,               \* the loop is cancelled or the process is gone
    gaveUp              \* history: a full line has made a call return early

open == <<console_open, dev_console_open, state_change>>
deferral == <<already_writing, dev_next>>
text == <<line, width>>
status == <<drawn, over, gaveUp>>
vars == <<open, deferral, text, info, loop, calls, status>>

-----------------------------------------------------------------------------
(* Activations of gmeng_dev_console. *)

\* Where an activation is; those past the test of already_writing.  A key is
\* the place where the key is looked at.
Inside == Keys \cup {"next", "copy", "null", "calling", "mark", "run", "draw"}
Places == {"open", "defer"} \cup Inside

\* arg and key: its argument and what that says; next: the dev_next it has read,
\* then the copy of what that points to.
Activations ==
    {a \in [at : Places, arg : Pointers, key : Keys, next : Pointers \cup Keys] :
        (a.at = "copy" => a.next \in Pointers) /\ (a.at = "null" => a.next \in Keys)}

Activation(arg, key) == [at |-> "open", arg |-> arg, key |-> key, next |-> "redraw"]

Other(t) == IF t = Main THEN Handler ELSE Main
IsInside(t) == \E i \in DOMAIN calls[t] : calls[t][i].at \in Inside

Top(t) == calls[t][Len(calls[t])]
At(t, p) == calls[t] # << >> /\ Top(t).at = p

\* The activation on top becomes a.
Becomes(t, a) == calls' = [calls EXCEPT ![t][Len(calls[t])] = a]
Goto(t, p) == Becomes(t, [Top(t) EXCEPT !.at = p])

\* It returns; the one that has called it goes on behind the call.
Return(t) ==
    LET rest == SubSeq(calls[t], 1, Len(calls[t]) - 1) IN
    calls' = [calls EXCEPT ![t] =
        IF rest = << >> THEN rest ELSE [rest EXCEPT ![Len(rest)].at = "mark"]]

\* It calls gmeng_dev_console(ev, &next).
Call(t, key) ==
    LET caller == [Top(t) EXCEPT !.at = "calling", !.next = "redraw"] IN
    calls' = [calls EXCEPT ![t] =
        Append([calls[t] EXCEPT ![Len(calls[t])] = caller], Activation("next", key))]

-----------------------------------------------------------------------------
(* gmeng_dev_console, up to the key. *)

Closed(t) ==
    /\ At(t, "open") /\ ~dev_console_open
    /\ Return(t)
    /\ UNCHANGED <<open, deferral, text, info, loop, status>>

Busy(t) ==
    /\ At(t, "open") /\ dev_console_open /\ already_writing
    /\ Goto(t, "defer")
    /\ UNCHANGED <<open, deferral, text, info, loop, status>>

Free(t) ==
    /\ At(t, "open") /\ dev_console_open /\ ~already_writing
    /\ Goto(t, "next")
    /\ UNCHANGED <<open, deferral, text, info, loop, status>>

\* There is room for one call: a second takes its place.
Defer(t) ==
    /\ At(t, "defer")
    /\ dev_next' = Top(t).arg
    /\ Return(t)
    /\ UNCHANGED <<open, already_writing, text, info, loop, status>>

TestNext(t) ==
    /\ At(t, "next")
    /\ IF dev_next = "nullptr" THEN Goto(t, "mark")
       ELSE Becomes(t, [Top(t) EXCEPT !.at = "copy", !.next = dev_next])
    /\ UNCHANGED <<open, deferral, text, info, loop, status>>

\* What a pointer finds. "next" is in a frame that may be gone: it finds anything.
Contents(p) ==
    CASE p = "NO_EVENT_INFO" -> {"redraw"} [] p = "info" -> {info} [] p = "next" -> Keys

\* The pointer is the one that was tested or is loaded again; the other thread
\* may have made it null in between.
CopyNext(t) ==
    /\ At(t, "copy")
    /\ \/ \E p \in {Top(t).next, dev_next} \ {"nullptr"} : \E k \in Contents(p) :
              Becomes(t, [Top(t) EXCEPT !.at = "null", !.next = k])
          /\ UNCHANGED over
       \/ dev_next = "nullptr" /\ over' = TRUE /\ UNCHANGED calls
    /\ UNCHANGED <<open, deferral, text, info, loop, drawn, gaveUp>>

\* Mutant: the pointer stays.
CallNextAgain(t) ==
    /\ At(t, "null")
    /\ Call(t, Top(t).next)
    /\ UNCHANGED <<open, deferral, text, info, loop, status>>

CallNext(t) ==
    /\ At(t, "null")
    /\ dev_next' = "nullptr"
    /\ Call(t, Top(t).next)
    /\ UNCHANGED <<open, already_writing, text, info, loop, status>>

\* This opens again what the main thread may have closed since the test.
Mark(t) ==
    /\ At(t, "mark")
    /\ dev_console_open' = TRUE
    /\ already_writing' = TRUE
    /\ Becomes(t, [Top(t) EXCEPT !.at = IF Top(t).key = "redraw" THEN "draw" ELSE Top(t).key, !.key = "redraw"])
    /\ UNCHANGED <<console_open, state_change, dev_next, text, info, loop, status>>

-----------------------------------------------------------------------------
(* The key, and the drawing. *)

Limit == Unsigned(width - 7)

\* Mutant: one letter too many.
RoomPlusOne == line <= Limit
Room == line < Limit

LineBecomes(t, n) == line' = IF IsInside(Other(t)) THEN Mixed ELSE n

Tilde(t) ==
    /\ At(t, "~")
    /\ state_change' = TRUE
    /\ Goto(t, "draw")
    /\ UNCHANGED <<console_open, dev_console_open, deferral, text, info, loop, status>>

\* Mutant: an empty line is not tested for.
BackspaceAlways(t) ==
    /\ At(t, "backspace")
    /\ LineBecomes(t, line - 1)
    /\ Goto(t, "draw")
    /\ UNCHANGED <<open, deferral, width, info, loop, status>>

Backspace(t) ==
    /\ At(t, "backspace")
    /\ LineBecomes(t, IF line > 0 THEN line - 1 ELSE line)
    /\ Goto(t, "draw")
    /\ UNCHANGED <<open, deferral, width, info, loop, status>>

\* A full line: the call returns and already_writing stays set.
Full(t) ==
    /\ At(t, "letter") /\ (~Room \/ line = Mixed)
    /\ gaveUp' = TRUE
    /\ Return(t)
    /\ UNCHANGED <<open, deferral, text, info, loop, drawn, over>>

Letter(t) ==
    /\ At(t, "letter") /\ Room
    /\ LineBecomes(t, IF line = Mixed THEN Mixed ELSE line + 1)
    /\ Goto(t, "draw")
    /\ UNCHANGED <<open, deferral, width, info, loop, status>>

\* The line is taken and cleared; an empty one is no command.
Enter(t) ==
    /\ At(t, "enter")
    /\ LineBecomes(t, 0)
    /\ \/ line # 0 /\ Goto(t, "run")
       \/ line \in {0, Mixed} /\ Goto(t, "draw")
    /\ UNCHANGED <<open, deferral, width, info, loop, status>>

\* gmeng_run_dev_command: "exit", which is the end here, "setwidth" or another.
RunCommand(t) ==
    /\ At(t, "run")
    /\ \/ over' = TRUE /\ UNCHANGED width
       \/ width' \in Widths /\ UNCHANGED over
    /\ Goto(t, "draw")
    /\ UNCHANGED <<open, deferral, line, info, loop, drawn, gaveUp>>

\* The lines are padded to WIDTH-4, which is out of reach when that is negative.
CannotDraw(t) ==
    /\ At(t, "draw") /\ Unsigned(width - 4) # width - 4
    /\ over' = TRUE
    /\ UNCHANGED <<open, deferral, text, info, loop, calls, drawn, gaveUp>>

\* Mutant: already_writing stays set.
DrawAndKeep(t) ==
    /\ At(t, "draw") /\ Unsigned(width - 4) = width - 4
    /\ Return(t)
    /\ UNCHANGED <<open, deferral, text, info, loop, status>>

Draw(t) ==
    /\ At(t, "draw") /\ Unsigned(width - 4) = width - 4
    /\ already_writing' = FALSE /\ drawn' = TRUE
    /\ Return(t)
    /\ UNCHANGED <<open, dev_next, text, info, loop, over, gaveUp>>

gmeng_dev_console(t) ==
    /\ calls[t] # << >> /\ ~over
    /\ \/ Closed(t) \/ Busy(t) \/ Free(t) \/ Defer(t)
       \/ TestNext(t) \/ CopyNext(t) \/ CallNext(t) \/ Mark(t)
       \/ Tilde(t) \/ Backspace(t) \/ Full(t) \/ Letter(t)
       \/ Enter(t) \/ RunCommand(t) \/ Draw(t) \/ CannotDraw(t)

-----------------------------------------------------------------------------
(* The two loops. *)

LoopAt(t, p) == ~over /\ calls[t] = << >> /\ loop[t] = p
LoopGoto(t, p) == loop' = [loop EXCEPT ![t] = p]
Begins(t, arg, key) == calls' = [calls EXCEPT ![t] = <<Activation(arg, key)>>]

\* A key or a mouse event.
ReadInput(k) ==
    /\ LoopAt(Main, "read")
    /\ info' = k
    /\ LoopGoto(Main, IF k = "~" THEN "toggle" ELSE "route")
    /\ UNCHANGED <<open, deferral, text, calls, status>>

\* read() fails, and info stays uninitialized: it may say anything.
ReadFails(k) ==
    /\ LoopAt(Main, "read")
    /\ info' = k
    /\ LoopGoto(Main, "route")
    /\ UNCHANGED <<open, deferral, text, calls, status>>

\* A console that is closed is cleared away first.
Toggle ==
    /\ LoopAt(Main, "toggle")
    /\ console_open' = ~console_open
    /\ drawn' = (drawn /\ ~console_open)
    /\ LoopGoto(Main, "follow")
    /\ UNCHANGED <<dev_console_open, state_change, deferral, text, info, calls, over, gaveUp>>

\* `dev_console_open = state.console_open`, and the console is called.
Follow ==
    /\ LoopAt(Main, "follow")
    /\ dev_console_open' = console_open
    /\ Begins(Main, "info", info)
    /\ LoopGoto(Main, "clear")
    /\ UNCHANGED <<console_open, state_change, deferral, text, info, status>>

\* The command "refresh" clears the screen.
ClearScreen ==
    /\ LoopAt(Main, "clear")
    /\ drawn' = FALSE
    /\ LoopGoto(Main, "route")
    /\ UNCHANGED <<open, deferral, text, info, calls, over, gaveUp>>

\* What was read goes to the console, a second time after a ~, or to the game.
Route ==
    /\ LoopAt(Main, "route")
    /\ IF console_open THEN Begins(Main, "info", info) ELSE UNCHANGED calls
    /\ LoopGoto(Main, "read")
    /\ UNCHANGED <<open, deferral, text, info, status>>

\* The handler thread draws the console ...
Redraw ==
    /\ LoopAt(Handler, "top") /\ console_open
    /\ Begins(Handler, "NO_EVENT_INFO", "redraw")
    /\ UNCHANGED <<open, deferral, text, info, loop, status>>

NotOpen ==
    /\ LoopAt(Handler, "top") /\ ~console_open
    /\ LoopGoto(Handler, "closed")
    /\ UNCHANGED <<open, deferral, text, info, calls, status>>

\* Mutant: the screen is not refreshed.
ForgetChange ==
    /\ LoopAt(Handler, "closed")
    /\ state_change' = FALSE
    /\ LoopGoto(Handler, "top")
    /\ UNCHANGED <<console_open, dev_console_open, deferral, text, info, calls, status>>

\* ... or, when it is closed and a ~ has opened it, clears it away.
TestChange ==
    /\ LoopAt(Handler, "closed")
    /\ state_change' = FALSE
    /\ LoopGoto(Handler, IF state_change THEN "refresh" ELSE "top")
    /\ UNCHANGED <<console_open, dev_console_open, deferral, text, info, calls, status>>

RunRefresh ==
    /\ LoopAt(Handler, "refresh")
    /\ drawn' = FALSE
    /\ LoopGoto(Handler, "top")
    /\ UNCHANGED <<open, deferral, text, info, calls, over, gaveUp>>

-----------------------------------------------------------------------------
Init ==
    /\ console_open = FALSE /\ dev_console_open = FALSE /\ state_change = FALSE
    /\ already_writing = FALSE /\ dev_next = "nullptr"
    /\ line = 0 /\ width \in Widths
    /\ info = "redraw"
    /\ loop = [t \in Threads |-> IF t = Main THEN "read" ELSE "top"]
    /\ calls = [t \in Threads |-> << >>]
    /\ drawn = FALSE /\ over = FALSE /\ gaveUp = FALSE

MainStep == gmeng_dev_console(Main) \/ Toggle \/ Follow \/ ClearScreen \/ Route
HandlerStep == gmeng_dev_console(Handler) \/ Redraw \/ NotOpen \/ TestChange \/ RunRefresh

Next == MainStep \/ HandlerStep \/ \E k \in Keys : ReadInput(k) \/ ReadFails(k)

Spec == Init /\ [][Next]_vars

\* The threads run; the user types or does not.
FairSpec == Spec /\ WF_vars(MainStep) /\ WF_vars(HandlerStep)

-----------------------------------------------------------------------------
TypeOK ==
    /\ console_open \in BOOLEAN /\ dev_console_open \in BOOLEAN /\ state_change \in BOOLEAN
    /\ already_writing \in BOOLEAN /\ drawn \in BOOLEAN /\ over \in BOOLEAN /\ gaveUp \in BOOLEAN
    /\ dev_next \in Pointers \cup {"nullptr"}
    /\ line \in Nat \cup {Mixed} /\ width \in Widths /\ info \in Keys
    /\ loop \in [Threads -> {"read", "toggle", "follow", "clear", "route",
                         "top", "closed", "refresh"}]
    /\ calls \in [Threads -> Seq(Activations)]

\* A call made for a call put off meets one again (gmeng.cpp:473-478), because the
\* other thread puts another off between the two; that does not go on for ever:
\* four activations are the most.
NestingBound == \A t \in Threads : Len(calls[t]) <= 4

\* The line fits the width (gmeng.cpp:514), whatever the command setwidth makes of
\* it, unless two threads have changed the line at once (Mixed is less than any).
LineFits == line <= Limit

\* An open console is drawn again and again (gmeng.cpp:930, 586) until a letter has
\* met a full line: however the two threads keep each other out by already_writing,
\* it is cleared.
KeepsDrawing ==
    []<>(~console_open \/ gaveUp \/ over \/ \E t \in Threads : At(t, "draw"))

\* Main has closed the console and goes on to clear the screen (gmeng.cpp:1143).
Closing == LoopAt(Main, "clear") /\ ~console_open

\* A console that has been closed does not stay on the screen: what the handler
\* thread still draws of it after the main thread has cleared the screen
\* (gmeng.cpp:1144) it clears itself, because the opening ~ has set the flag
\* (932-936).  The exception is a flag that the handler thread has consumed while
\* the console was being opened, or that a call put off never set: then the
\* handler thread must not be inside the console when the main thread clears.
ScreenComesBack ==
    (Closing /\ (state_change \/ calls[Handler] = << >>))
        ~> (console_open \/ over \/ [](~drawn))
=============================================================================
