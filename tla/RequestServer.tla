---------------------------- MODULE RequestServer ----------------------------
(***************************************************************************)
(* The HTTP server of src/lib/bin/utils/network.cpp: gmserver_t, which     *)
(* serves one connection at a time and may keep it open as a stream.       *)
(*                                                                         *)
(* What a client writes is numbered: 0 is its request, 2k - 1 the time     *)
(* stamp and the '|' of its kth message, 2k the text.  A read may end      *)
(* between any two of them.  Assumed: a request arrives whole, a text has  *)
(* no '|' in it, and the backlog (ten) never fills.                        *)
(***************************************************************************)
EXTENDS Integers, Sequences

CONSTANTS
    Clients,       \* the connections that are made
    None,
    MaxMessages,   \* client -> bound on the messages it writes
    MaxRuns        \* bound on the calls of run()

ASSUME ConstantsAssumption ==
    /\ None \notin Clients
    /\ MaxMessages \in [Clients -> Nat] /\ MaxRuns \in Nat

VARIABLES
    (* gmserver_t *)
    running, exited,
    pc,         \* where run() is, "idle" when nobody is in it
    runs,       \* the calls of run() so far
    outcome,    \* what the last of them did
    serving,    \* client_fd
    stopping,   \* another thread is between the two assignments of stop()
    (* the kernel *)
    port,       \* "free", or "listening" on a socket of this process
    backlog,    \* the connections that wait for accept()
    conn,       \* client -> the server's end of its connection
    (* the clients *)
    gone,       \* those that have hung up
    written,    \* client -> the number of what it wrote last, -1 before
    taken,      \* client -> the number of what was read last, -1 before
    ending,     \* client -> the number of its text "&endstream", 0 if none
    (* the process, and history *)
    fate,
    stopped,    \* stop() since run() was called: "no", "told", or "lost"
    late        \* the connections accepted since a stop(), none lost

control == <<running, exited, pc, runs, outcome, serving, stopping>>
kernel  == <<port, backlog, conn>>
clients == <<gone, written, taken, ending>>
history == <<stopped, late>>
vars == <<control, kernel, clients, fate, history>>

-----------------------------------------------------------------------------
Init ==
    /\ running = FALSE /\ exited = FALSE
    /\ pc = "idle" /\ runs = 0 /\ outcome = "none"
    /\ serving = None /\ stopping = FALSE
    /\ port = "free" /\ backlog = <<>>
    /\ conn = [c \in Clients |-> "none"]
    /\ gone = {}
    /\ written = [c \in Clients |-> -1]
    /\ taken = [c \in Clients |-> -1]
    /\ ending = [c \in Clients |-> 0]
    /\ fate = "alive"
    /\ stopped = "no" /\ late = 0

At(label) == fate = "alive" /\ pc = label
Goto(label) == pc' = label

(* run(). *)
Run ==
    /\ At("idle") /\ runs < MaxRuns
    /\ Goto("bind") /\ runs' = runs + 1 /\ outcome' = "none"
    /\ stopped' = "no" /\ late' = 0
    /\ UNCHANGED <<running, exited, serving, stopping, kernel, clients, fate>>

\* socket(), bind() or listen() fails.
BindFails ==
    /\ At("bind")
    /\ Goto("idle") /\ outcome' = "failed"
    /\ UNCHANGED <<running, exited, runs, serving, stopping, kernel, clients, fate, history>>

\* The port is never given back: the descriptor is a local variable of run(),
\* and stop() closes the member of the same name.
Listen ==
    /\ At("bind") /\ port = "free"
    /\ Goto("start") /\ port' = "listening"
    /\ UNCHANGED <<running, exited, runs, outcome, serving, stopping,
                   backlog, conn, clients, fate, history>>

\* A stop() since run() was called is lost here.
Begin ==
    /\ At("start")
    /\ Goto("test") /\ running' = TRUE
    /\ stopped' = IF stopped = "told" THEN "lost" ELSE stopped
    /\ UNCHANGED <<exited, runs, outcome, serving, stopping, kernel, clients, fate, late>>

\* Mutant: the loop does not test `running`.
AcceptForEver ==
    /\ At("test")
    /\ Goto("accept")
    /\ UNCHANGED <<running, exited, runs, outcome, serving, stopping,
                   kernel, clients, fate, history>>

EnterAccept ==
    /\ At("test") /\ running
    /\ Goto("accept")
    /\ UNCHANGED <<running, exited, runs, outcome, serving, stopping,
                   kernel, clients, fate, history>>

\* Mutant: `exited` is left to stop().
ReturnQuietly ==
    /\ At("test") /\ ~running
    /\ Goto("idle") /\ outcome' = "returned"
    /\ UNCHANGED <<running, exited, runs, serving, stopping, kernel, clients, fate, history>>

Return ==
    /\ At("test") /\ ~running
    /\ Goto("idle") /\ outcome' = "returned" /\ exited' = TRUE
    /\ UNCHANGED <<running, runs, serving, stopping, kernel, clients, fate, history>>

AcceptFails ==
    /\ At("accept")
    /\ Goto("test")
    /\ UNCHANGED <<running, exited, runs, outcome, serving, stopping,
                   kernel, clients, fate, history>>

Accept ==
    /\ At("accept") /\ backlog # <<>>
    /\ Goto("request") /\ serving' = Head(backlog)
    /\ backlog' = Tail(backlog)
    /\ conn' = [conn EXCEPT ![Head(backlog)] = "accepted"]
    /\ late' = IF stopped = "no" THEN late ELSE late + 1
    /\ UNCHANGED <<running, exited, runs, outcome, stopping, port, clients, fate,
                   stopped>>

\* Mutant: client_fd outlives its connection.
CloseLate ==
    /\ At("close")
    /\ Goto("test")
    /\ conn' = [conn EXCEPT ![serving] = "closed"]
    /\ UNCHANGED <<running, exited, runs, outcome, serving, stopping, port, backlog,
                   clients, fate, history>>

\* close(client_fd)
Close ==
    /\ At("close")
    /\ Goto("test") /\ serving' = None
    /\ conn' = [conn EXCEPT ![serving] = "closed"]
    /\ UNCHANGED <<running, exited, runs, outcome, stopping, port, backlog,
                   clients, fate, history>>

-----------------------------------------------------------------------------
(* handle_request and handle_stream, for the connection client_fd. *)

\* read() returns some of what the client has written and goes on to do `next`.
Takes(last) ==
    /\ last \in (taken[serving] + 1)..written[serving]
    /\ taken' = [taken EXCEPT ![serving] = last]

HungUp == serving \in gone /\ written[serving] = taken[serving]

\* History: a stop() is called.
Told ==
    /\ stopped' = "told"
    /\ late' = IF stopped = "lost" THEN 0 ELSE late

\* A path's function is the program's: it may call stop().
MayStop ==
    \/ UNCHANGED <<running, exited, history>>
    \/ running' = FALSE /\ exited' = TRUE /\ Told

\* send() to a client that has hung up may raise SIGPIPE, which nobody handles.
Sends == fate' \in {fate} \cup (IF serving \in gone THEN {"killed"} ELSE {})

NoRequest ==
    /\ At("request") /\ HungUp
    /\ Goto("close")
    /\ UNCHANGED <<running, exited, runs, outcome, serving, stopping,
                   kernel, clients, fate, history>>

\* A path that is registered, or none ("Not Found", a malformed request).
Respond ==
    /\ At("request")
    /\ \E last \in 0..written[serving] : Takes(last)
    /\ MayStop /\ Sends
    /\ Goto("close")
    /\ UNCHANGED <<runs, outcome, serving, stopping, kernel, gone, written,
                   ending>>

\* A stream's path.  What was read together with the request is dropped, and
\* the stream's function is called with "INITCONN".
OpenStream ==
    /\ At("request")
    /\ \E last \in 0..written[serving] : Takes(last)
    /\ MayStop /\ Sends
    /\ Goto("stream")
    /\ UNCHANGED <<runs, outcome, serving, stopping, kernel, gone, written,
                   ending>>

StreamTest ==
    /\ At("stream")
    /\ Goto(IF running THEN "read" ELSE "close")
    /\ UNCHANGED <<running, exited, runs, outcome, serving, stopping,
                   kernel, clients, fate, history>>

\* Mutant: only a negative result of read() ends the stream.
StreamSpins ==
    /\ At("read") /\ HungUp
    /\ Goto("stream")
    /\ UNCHANGED <<running, exited, runs, outcome, serving, stopping,
                   kernel, clients, fate, history>>

StreamHungUp ==
    /\ At("read") /\ HungUp
    /\ Goto("close")
    /\ UNCHANGED <<running, exited, runs, outcome, serving, stopping,
                   kernel, clients, fate, history>>

IsStamp(n) == n % 2 = 1

\* A text that is read alone has no '|': "&nack.body".
StreamNack ==
    /\ At("read") /\ ~IsStamp(taken[serving] + 1)
    /\ Takes(taken[serving] + 1)
    /\ Sends
    /\ Goto("stream")
    /\ UNCHANGED <<running, exited, runs, outcome, serving, stopping, kernel,
                   gone, written, ending, history>>

\* "&endstream", read with its stamp and with nothing after it.
StreamEnds ==
    /\ At("read")
    /\ Takes(ending[serving])
    /\ taken[serving] + 1 \in {ending[serving] - 1, ending[serving] - 2}
    /\ Goto("close")
    /\ UNCHANGED <<running, exited, runs, outcome, serving, stopping, kernel,
                   gone, written, ending, fate, history>>

\* Anything else is passed to the stream's function from the first '|' on.  What
\* comes before it goes through stoll: the rest of an earlier text may begin
\* with a digit, and otherwise the exception leaves run().
StreamMessage ==
    /\ At("read")
    /\ \E last \in 1..written[serving] :
          /\ Takes(last)
          /\ IsStamp(taken[serving] + 1) \/ last > taken[serving] + 1
          /\ ~ (/\ last = ending[serving]
                /\ taken[serving] + 1 \in {last - 1, last - 2})
    /\ MayStop /\ Sends
    /\ Goto("stream")
    /\ UNCHANGED <<runs, outcome, serving, stopping, kernel, gone, written,
                   ending>>

StreamThrows ==
    /\ At("read") /\ ~IsStamp(taken[serving] + 1)
    /\ \E last \in (taken[serving] + 2)..written[serving] : Takes(last)
    /\ fate' = "terminated"
    /\ UNCHANGED <<control, kernel, gone, written, ending, history>>

RunStep ==
    \/ BindFails \/ Listen \/ Begin
    \/ EnterAccept \/ Return \/ AcceptFails \/ Accept \/ Close
    \/ NoRequest \/ Respond \/ OpenStream
    \/ StreamTest \/ StreamHungUp
    \/ StreamNack \/ StreamEnds \/ StreamMessage \/ StreamThrows

-----------------------------------------------------------------------------
(* stop(), called by another thread. *)

StopRunning ==
    /\ fate = "alive" /\ ~stopping
    /\ running' = FALSE /\ stopping' = TRUE /\ Told
    /\ UNCHANGED <<exited, pc, runs, outcome, serving, kernel, clients, fate>>

StopExited ==
    /\ fate = "alive" /\ stopping
    /\ exited' = TRUE /\ stopping' = FALSE
    /\ UNCHANGED <<running, pc, runs, outcome, serving, kernel, clients, fate, history>>

-----------------------------------------------------------------------------
(* The clients: send_stream_request, and programs that are not Gmeng's. *)

Connect(c) ==
    /\ conn[c] = "none" /\ fate = "alive" /\ port = "listening"
    /\ conn' = [conn EXCEPT ![c] = "queued"]
    /\ backlog' = Append(backlog, c)
    /\ UNCHANGED <<control, port, clients, fate, history>>

\* What a client does once the server has closed its connection changes nothing.
Open(c) == conn[c] \in {"queued", "accepted"} /\ c \notin gone
Talks(c) == Open(c) /\ ending[c] = 0

Request(c) ==
    /\ Talks(c) /\ written[c] = -1
    /\ written' = [written EXCEPT ![c] = 0]
    /\ UNCHANGED <<control, kernel, gone, taken, ending, fate, history>>

Write(c, isEnd) ==
    /\ Talks(c) /\ written[c] >= 0 /\ written[c] + 2 <= 2 * MaxMessages[c]
    /\ written' = [written EXCEPT ![c] = @ + 2]
    /\ ending' = [ending EXCEPT ![c] = IF isEnd THEN written[c] + 2 ELSE 0]
    /\ UNCHANGED <<control, kernel, gone, taken, fate, history>>

\* close(), or a reset, after which nothing more of the connection is read.
HangUp(c) ==
    /\ Open(c)
    /\ gone' = gone \cup {c}
    /\ taken' \in {taken, [taken EXCEPT ![c] = written[c]]}
    /\ UNCHANGED <<control, kernel, written, ending, fate, history>>

Next ==
    \/ Run \/ RunStep \/ StopRunning \/ StopExited
    \/ \E c \in Clients :
          \/ Connect(c) \/ Request(c) \/ HangUp(c)
          \/ \E isEnd \in BOOLEAN : Write(c, isEnd)

Spec == Init /\ [][Next]_vars

\* The thread in run() is scheduled and accept() does not fail for ever.  No
\* client need write, read or hang up: read() has no timeout.
FairSpec == Spec /\ WF_vars(RunStep) /\ SF_vars(Accept)

-----------------------------------------------------------------------------
Labels == {"idle", "bind", "start", "test", "accept", "request", "stream",
           "read", "close"}
Serves == pc \in {"request", "stream", "read", "close"}

TypeOK ==
    /\ running \in BOOLEAN /\ exited \in BOOLEAN /\ stopping \in BOOLEAN
    /\ pc \in Labels
    /\ runs \in 0..MaxRuns
    /\ outcome \in {"none", "failed", "returned"}
    /\ serving \in Clients \cup {None}
    /\ Serves <=> serving # None
    /\ port \in {"free", "listening"}
    /\ backlog \in Seq(Clients)
    /\ conn \in [Clients -> {"none", "queued", "accepted", "closed"}]
    /\ gone \subseteq Clients
    /\ {written, taken, ending} \subseteq [Clients -> Int]
    /\ \A c \in Clients :
           /\ written[c] \in -1..(2 * MaxMessages[c])
           /\ taken[c] \in -1..written[c]
           /\ ending[c] \in 0..(2 * MaxMessages[c])
    /\ fate \in {"alive", "terminated", "killed"}
    /\ stopped \in {"no", "told", "lost"} /\ late \in Nat

\* Once stop() has been called during a run() it accepts at most one more
\* connection, by the accept() under way (network.cpp:316-340, 362).  The one
\* exception is a stop() that comes before run() sets `running` (313): it is
\* lost, and run() goes on until somebody calls stop() again.
LastOne == stopped = "lost" \/ late <= 1

\* The test takes a run() that returns with neither running nor exited set for
\* a bind that failed (test.cpp:280-283): a stop() under way never makes it look
\* so (network.cpp:342, 368).
ReturnTells ==
    (pc = "idle" /\ outcome # "none" /\ ~running /\ ~exited) => outcome = "failed"

\* The server hangs on client d for ever, in a read() without a timeout
\* (network.cpp:379, 436): d stays connected and writes nothing, or no end.
Hogs(d) == [](serving = d /\ d \notin gone)

\* A client that connects is served to the end, unless a client before it (or
\* it itself) is one that run() hangs on, the server is stopped or its process
\* dies: no stream and no request of a client that hangs up keeps it waiting.
EverybodyServed ==
    \A c \in Clients :
        conn[c] = "queued" ~> (\/ conn[c] = "closed"
                               \/ pc = "idle" \/ ~running \/ fate # "alive"
                               \/ \E d \in Clients : Hogs(d))

\* A stop() while a connection is served, by its own function or by another
\* thread, ends run(), unless it waits in read() for a client that stays
\* connected and silent: stop() does not close client_fd.
StopEndsRun ==
    (Serves /\ ~running)
        ~> (\/ pc = "idle" \/ fate # "alive"
            \/ \E d \in Clients : [](serving = d /\ d \notin gone /\ pc \in {"request", "read"}))
=============================================================================
