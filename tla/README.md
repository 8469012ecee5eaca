# Verification of Gmeng

Gmeng is a C++ game engine for terminals, with an optional SDL window. This
directory holds TLA+ models of its core, the TLC configurations that check them
on small instances, and proofs of what holds for every instance. Paths below are
relative to the repository, `src/` being its root: `gmeng.cpp` is
`src/lib/bin/src/gmeng.cpp`, `eventloop.h` is `src/lib/bin/types/eventloop.h`,
and so on.

To check a module: `tlc -workers 2 -config gl_run.cfg MCGameLoop.tla`. To check
proofs: `tlapm GameLoopProofs.tla`. `PROJECT.json` lists the components, the
runs, for every definition the source lines it models, and for every property a
change of the model (a mutant) that breaks it: a bug somebody could have written.

## 1. Inventory

### Parts of the system

| part | code | state | operations |
|---|---|---|---|
| Event dispatch | `eventloop.h`, `event.h` | hooks per event, default hooks per event, `locked` in each copy of a hook, prevent flags in each `EventInfo`, three of them static | `add_hook`, `call_event`, `cancel`, (`next_tick`, `progress_tick`, called by nobody) |
| Terminal game loop | `gmeng.cpp` 705-1195 | `main_event_loop`, `cancelled`, terminal modes, signal dispositions, the handles of the detached threads | `do_event_loop`, update thread, handler thread, SIGINT and SIGSEGV handlers |
| Multiplayer | `server.cpp`, `src/scripts/src/server.cc` | table of clients, sockets, `active`; on the client `client_id` and `response_callbacks` | `run`, `respond`, `send_message`; `connect`, `write`, `poll`, `disconnect` |
| Interaction grid | `utils/gridmap.cc` | id -> entity data, cell key -> list of ids | `update_entity`, `remove_entity`, `get_nearby_entities`, `build_interaction_map` |
| HTTP server | `utils/network.cpp` | `running`, `exited`, `server_fd`, paths | `run`, `stop`, `handle_request`, `handle_stream`, `send_stream_request` |
| Developer console | `gmeng.cpp` 397-587, `utils/console.h` | `already_writing`, `dev_next`, the input line and its width, two flags for open or closed, the request to refresh | key presses, redraws, some thirty commands |
| Modifiers | `types/modifier.h`, the defaults in `types/camera.h` | a list of name-value pairs, looked up by binary search | lookup, set, add, erase, `[]`, sort |
| Viewpoint | `types/display.h` | two corners, and the width and height of the last frame | `move_viewpoint_by`, `move_to`, the command `setvp` |
| Input decoding | `gmeng.cpp` 285-325, 970-1160, `utils/keyboard.h` | pressed keys, the last mouse event | decoding of the bytes read |
| SDL game loop | `gmeng.cpp` 1218-1511 | window, accumulator | a second `do_event_loop`, single-threaded |
| Levels, renderer, camera | `renderer.cpp`, `level.h`, `camera.h`, `entity.h` | levels, entities, textures, light cache | drawing, animation, routines |
| Tools | `cli/`, `utils/startup.h`, serialization, audio, scripts, editors | files, mostly | reading, writing, compiling |

### How they interact

`do_event_loop` is called by the program's main thread with an `EventLoop` the
program has filled by `add_hook`. It emits INIT, detaches two threads and reads
the terminal. From then on three threads call `call_event` on one `EventLoop`:
the main thread for input, the update thread for FIXED_UPDATE and UPDATE, the
handler thread for what console commands emit. Nothing synchronises them: the
hooks' `locked` members, the static `EventInfo` objects, `cancelled`,
`main_event_loop` and the console's variables are plain memory. Hooks are code of
the game: they may emit further events, which re-enters `call_event` on the same
thread, set the prevent flags, cancel the loop, move entities in the grid, or
write to a multiplayer server. The handler thread walks the grid once a round.
Signals arrive at any time and go through `main_event_loop`. The multiplayer
server is a program's thread of its own that talks to the clients of other
programs over TCP; on a client the game writes and a thread polls. The console is
a function that the main thread calls with what it has read and the handler
thread calls to redraw; its commands emit events, cancel the loop, and change the
modifiers and the viewpoint of the level's display, which every frame reads.

### What is hard, and what correctness means there

* **Dispatch.** Two threads in one `call_event`; a handler that emits the event
  it handles; a flag read while another thread sets it; a flag that outlives its
  event. Correct means: no lock leaks, a hook is not re-entered, nesting is
  bounded, what a hook prevents does not happen, every dispatch ends.
* **Game loop.** Cancellation by another thread or a signal at any point; a
  blocking read; a second loop after the first; threads that outlive the loop.
  Correct means: INIT is alone, EXIT comes once and does come, one loop owns
  `main_event_loop`, no end of the process leaves the terminal reporting the
  mouse, the threads end.
* **Multiplayer.** Connections that fill the table, close and reset; several
  messages in one read; replies that race the registration of their callback;
  stopping with messages under way. Correct means: the table is what was
  accepted, messages are handled once and in order, the id comes first, the
  server reaches everybody whom reads of several messages do not pass over again
  and again, and it stops when told to.
* **Grid.** Entities that move, leave and come back; cells of both signs; lists
  emptied by swap-and-pop. Correct means: the lists are the entities, and a
  query finds exactly who is near.
* **HTTP server.** `stop()` before, during and after `run()`, from a path's
  function or another thread; a stream that keeps everybody else waiting; reads
  that end inside a message, or never. Correct means: after a `stop()` that is not
  lost one connection more at most, a `run()` that was stopped does not look like
  one that failed, everybody is served and a `stop()` while somebody is served
  ends `run()`, unless it hangs on a client in a `read` that has no timeout.
* **Console.** Two threads in one function that tests and sets plain flags,
  puts a call off by keeping a pointer, and calls itself for it; early returns
  that leave the flag set; a line whose limit a command changes. Correct means:
  the calls do not nest without end, the line fits, an open console is drawn, and
  a closed one does not stay on the screen.
* **Modifiers, viewpoint.** A binary search in a list that need not be sorted,
  names that occur twice, a value that reads as absence; ints compared with sizes.
  Correct means: an entry is found by its name and the list behaves as a map; a
  viewpoint that is moved stays in the level.

`PROJECT.json` lists the hazards one by one at their lines, with the properties
that would catch them and, for those no property covers yet, the reason.

## 2. Modules

| module | what it is | extends |
|---|---|---|
| `EventLoop` | `add_hook` and `call_event` by any number of threads | |
| `MCEventLoop` | two threads, two events, and what may emit what | `EventLoop` |
| `EventLoopProofs` | theorems | `EventLoop` |
| `LoopOwnership` | abstract: who owns `main_event_loop` | |
| `GameLoop` | `do_event_loop`, its threads, SIGINT; instantiates `LoopOwnership` | |
| `MCGameLoop` | two loops | `GameLoop` |
| `GameLoopProofs` | theorems | `GameLoop` |
| `Exchange` | abstract: messages in order, at most once | |
| `Multiplayer` | server and clients; instantiates `Exchange` | |
| `MCMultiplayer` | two clients, two messages | `Multiplayer` |
| `MultiplayerProofs` | theorems | `Multiplayer` |
| `ExchangeProofs` | theorems: the refinement | `MultiplayerProofs` |
| `GridMap` | the spatial hash | |
| `MCGridMap` | three entities, nine cells | `GridMap` |
| `GridMapProofs` | theorems | `GridMap` |
| `RequestServer` | `gmserver_t`, its clients and whoever stops it | |
| `MCRequestServer` | two connections | `RequestServer` |
| `RequestServerProofs` | theorems | `RequestServer` |
| `DevConsole` | `gmeng_dev_console` and the two threads that call it | |
| `MCDevConsole` | a line of one letter | `DevConsole` |
| `DevConsoleProofs` | theorems | `DevConsole` |
| `Display` | the modifiers and the viewpoint of a display | |
| `MCDisplay` | three names, a level of 3 by 2; the defaults of a camera | `Display` |
| `DisplayProofs` | theorems | `Display` |

Where a definition is preceded by "Mutant:", it is a wrong form of the definition
that follows and no part of the model.

### EventLoop

A thread has a `stack` of activations of `call_event`, because handlers re-enter
it. An activation is a record: its event and `EventInfo`, the list it walks
(`hooks`, then `defaults`), its position there, and where it is between two
accesses of shared memory: `scan` reads `locked`, `claim` sets it, `run` is the
handler, `unlock` clears it, `after` reads the prevent flags. `AddHook` pushes
one copy per event as `add_hook` does, each with a lock of its own (a *slot* is a
list, an event and a position). `prevented` is the set of flags that are up, per
`EventInfo`: one of the static three, or one on a caller's stack, which is named
by its thread and depth and is cleared when it is built. Hooks are registered
before the loop runs (`Start`), as every program of the repository does. `asked`
in an activation is history: the flags its own user hooks have set.

`HandlerEmits` and `HandlerPrevents` are the game's code: any handler may emit
any of `Nested` up to `MaxCalls` times per run and set either flag.

### GameLoop

Each task, main or detached, has a statement `pc` and an `agenda` of events it
is to emit, the head being dispatched. The statements of the main thread are the
actions from `Call` to `Leave`: the claim of `main_event_loop` (751-756), the
early test of `cancelled` (763-767) with its `return 1` that leaves the pointer
set, INIT, `signal`, the terminal modes, the two threads, the loop's test and its
blocking `read`, EXIT, the null pointer, the restoring of the terminal. `Read`
needs input; `FailedRead` is a read that fails or ends, after which the code
dispatches an `EventInfo` it has not initialised, modelled as any event.
Console commands are the sequences of events they emit (`CommandEvents`); what a
dispatch does inside is module `EventLoop`. `Cancel` is anybody who calls
`cancel()`. `Sigint` has its three outcomes: death before the handler is
installed, cancellation, and the write through a null pointer.

### Multiplayer

The server is one thread whose loop is `accept` (one non-blocking accept), `poll`
(the iterator `it` over the table), `closing` and `stopped`. A read returns a
non-empty prefix of the client's stream, and the messages are delivered one by
one, the iterator advancing with each as line 276 does; if it passes the end of
the table the model goes to `fate = "undefined"` and stops. A client writes in
two steps, the socket and then the callback, and polls in two, the read and each
message. A reply is written without the splitter (line 81), so it swallows what
comes before the next splitter in the same buffer: `AfterFirst`. The client makes
a string of its read buffer without its length (line 394). What this takes from
the memory behind the buffer lengthens a reply; behind anything else it is a piece
of its own, on which `network_parse_message` may throw, out of `poll()` and the
thread, and the client program ends (`ThrowsBeyondBuffer`). The message
handler is that of `server.cc`: it replies, and sets `active` to false on "stop".
`sender`, `handled` and `answered` are history.

Assumed: a read ends between two messages, an id is never drawn twice, the socket
buffers never fill, and the memory behind a client's buffer is not by chance a
command or a reply.

### GridMap

One action per path through `update_entity` (`Register`, `Stay`, `MoveWithin`,
`MoveAcross`) and `remove_entity`, with the swap-and-pop of the lists and the
erasing of empty ones. `Cell` rounds towards zero as C++ does. `cell_key` keeps
its two halves of `Word` values each, with the sign extension of the lower one.
`Nearby` is `get_nearby_entities`: nine cells, then the squared distance.
`build_interaction_map` is `Nearby` for every id. The module is sequential:
operations come one at a time, while in the code the handler thread walks the grid
with no lock (`gmeng.cpp` 939), a data race that is listed as a hazard and not
modelled.

### RequestServer

One thread at a time is in `run()`, at the statement `pc`: `bind`, `start`
(between `listen` and `running = true`), `test` and `accept` of its loop,
`request` in `handle_request`, `stream` and `read` in `handle_stream`, `close`.
`run` declares a local `server_fd`, so the member that `stop` shuts down and
closes stays -1: the port of the first `run()` is never given back (`port`), and
an `accept` that waits is not woken. `stop` has two assignments, and another
thread takes two steps for them (`StopRunning`, `StopExited`); a path's function
calls it within `handle_request` (`MayStop`). What a client writes is numbered,
so `written`, `taken` and `ending` are three numbers per client and a read is a
choice of the last number it takes, which may cut a message in two or join
several. A stamp that is not one makes `stoll` throw out of `run`
(`StreamThrows`, the process is `terminated`), and a write to a client that has
gone may raise SIGPIPE (`killed`). `stopped` and `late` are history: whether the
present `run()` has been told to stop, or was told before it set `running` and so
never heard of it (`lost`), and the connections accepted since it was told.

Assumed: a request arrives whole, a text has no '|' in it, and the backlog of ten
never fills.

### DevConsole

Each thread has a stack of activations of `gmeng_dev_console` (`calls`) under its
loop (`loop`). An activation is at a place between two accesses of what the
threads share: `open` tests `dev_console_open` and `already_writing`, `defer`
stores its argument in `dev_next`, `next`, `copy` and `null` test, copy and clear
that pointer, `calling` waits for the call nested for it, `mark` sets
`already_writing`, then comes the key, the command, and `draw`, whose end clears
the flag. `dev_next` points to one of three `EventInfo`s (`Pointers`): the static
one, the local of the main loop, whose contents are `info`, or the copy in a
frame of a nested call, which may be gone and then holds anything (`Contents`).
Another thread may clear the pointer between its test and its use, which is the
end of the process (`CopyNext`). A key acts on the line at once; of the line only
the length counts, and `Mixed` is that of one two threads have changed at once
(`LineBecomes`): a comparison of it goes either way, until somebody clears it. A ~
takes the main thread three steps, between which the handler thread runs: it turns
`console_open` round (`Toggle`), copies it and calls the console (`Follow`), and
clears the screen with the command "refresh" of line 1144 (`ClearScreen`); the
handler thread's own is `RunRefresh`. `drawn` says that the console has been drawn
since the screen was last cleared. The
limit is computed as a `size_t` (`Limit`). `RunCommand` is `exit`, `setwidth` or
any other; `CannotDraw` is the padding to a negative width, which never ends.
`ReadFails` is a failed read, after which `info` is uninitialised. `gaveUp` is
history: a letter has met a full line, and the return at 514 has left
`already_writing` set.

Assumed: `allow_console` is set, the terminal has neither the keyboard nor the
graphics protocol, and `exit` is over at once. The variables outlive a loop; a
second loop in the same process is not in the model.

### Display

A modifier list is a sequence of names, by their ranks, and values. Sorting
chooses any order of equal names (`Sortings`), as `std::sort` may; `lower_bound`
halves a range as the library does, which matters in a list that is not sorted.
The actions are the operations with what guards them where they are called: the
command `mod` and loading (`Mod`), a missing `z_index`, `fps` or `outline`
(`AddMissing`), `modifiers[name].value = v` (`AssignAt`), the editor's fields
(`Edit`), the command `erasemod` (`Erase`), the sorting of an entity's list
(`Sort`), and an unconditional `add_value`, which a game may call. A viewpoint is
set to anything (`SetViewpoint`), gives a frame its size (`Frame`), and
is moved only if all tests of `move_viewpoint_by` allow it (`MayMove`), where an
int that is compared with a `size_t` becomes one (`Unsigned`).

Assumed: the sums of `move_viewpoint_by` do not overflow an int, and no list gets
longer than `MaxModifiers`.

## 3. What is checked

States are distinct states; every run takes a few minutes at most.

| run | instance | shows |
|---|---|---|
| `el_single` | 1 thread, 2 hooks, 2 events; any handler emits either event; 142 000 states | A hook copy is never re-entered (`NoReentry`), so nesting is bounded although handlers emit each other's events (`DepthBound`); every dispatch ends (`DispatchEnds`). |
| `el_threads` | 2 threads, 2 hooks, nesting 2; 985 000 states | Locks do not leak (`LockHasOwner`); after prevent_further no other hook runs, after prevent_default no default hook does (`HonoursPrevention`); a dispatch with an `EventInfo` of its own ends early only on request (`EndsOnlyOnRequest`). |
| `el_race` | 2 threads, 1 hook | *Violated:* "prevent being recalled while the handler is busy". Testing and setting `locked` are two steps. |
| `gl_run` | 2 loops, at most 1 FIXED_UPDATE a frame; 83 000 states | INIT is dispatched alone (`InitFirst`), a loop exits once (`ExitsOnce`), `main_event_loop` is owned exclusively (`OwnsExclusively`, refinement of `LoopOwnership`), SIGINT crashes only after EXIT (`CrashOnlyAfterExit`), however the process ends the terminal does not go on reporting the mouse (`MouseNeverLeftOn`), no frame begins after EXIT (`NothingBeginsAfterExit`), threads of a cancelled loop end (`WorkersEnd`), EXIT comes as long as somebody types (`CancelLeadsToExit`). |
| `gl_blocked` | 1 loop, nobody has to type | *Violated:* EXIT "when the program receives the SIGINT signal". The main thread stays in `read`. |
| `mp_run` | 2 clients, 2 messages, room for 1 or 2; 158 000 states | `TableHoldsAccepted`, `IdComesFirst`, messages in order and at most once with callbacks only for what was handled (`ExchangesMessages`, refinement of `Exchange`), everybody is reached unless reads of several messages pass a client over again and again (`HandledUnlessPassedOver`), "stop" stops (`StopEndsRun`). |
| `mp_attrib` | 2 clients | *Violated:* a message is passed with "the client that sent it". The iterator moves with each message. |
| `grid` | 3 entities, 16 positions, 9 cells, 2 proximities; 8 600 states up to symmetry | The lists are the entities (`GridMatches`), queries are exact for proximities up to a cell (`NearbyIsExact`), the nine keys differ (`ListsDiffer`). |
| `http` | 2 connections, one of which may write 2 messages, 2 calls of `run()`; 90 000 states | One connection at most is accepted after a `stop()` that is not lost before `running` is set (`LastOne`), a `run()` that returns with neither flag set has failed to bind (`ReturnTells`), everybody is served unless the server is stopped, its process dies or `run()` hangs on a client that stays connected for ever (`EverybodyServed`), `stop()` while somebody is served ends `run()` unless it hangs so (`StopEndsRun`). |
| `console` | 2 threads, lines of 1 letter; 929 000 states | Four activations of a thread at most (`NestingBound`); the line fits the width unless two threads have changed it at once (`LineFits`); an open console goes on being drawn until a letter meets a full line (`KeepsDrawing`); after it has been closed it does not stay on the screen, if the request to refresh is still there or the handler thread is outside the console when the main thread clears the screen (`ScreenComesBack`). |
| `display` | 3 names, lists of up to 3, 3 values, a level of 3 by 2; 4 800 states | In a sorted list a name finds its first entry (`FindsFirst`); a sorted list without duplicates and without -1 behaves as a map (`PlainIsMap`); a viewpoint that has been moved lies in the level (`MovesInside`). |
| `defaults` | the 16 defaults of a camera | *Violated:* efficient_render is enabled by default (`EntriesFound`). Of the list as `camera.h` writes it a binary search finds only `cubic_render` and `debug_render`. |

Runs marked *violated* check one sentence of a comment that the code does not
keep; `PROJECT.json` quotes it under "findings". Every module also has a
`TypeOK`, checked in one of its passing runs.

Some behaviours of the code are in the models and no run speaks of them; the notes
under "hazards" say which. The detached threads go on after `do_event_loop` has
returned, though `clear_threads` is there. The reply to "stop" has no splitter, so
the "disconnect" behind it is read as a part of it. A reply that comes before its
callback has been registered does not fire it. A static `EventInfo` keeps the flags
one event has set for the next. A failed `read` dispatches any event, INIT included;
a loop cancelled before it began leaves `main_event_loop` set. A steady flow of
messages in pairs starves the neighbour of their client in the table. A full line
leaves `already_writing` set, and the console is drawn no more; one whose opening ~
the handler thread has answered too early may stay on the screen when it is closed.

### Bounds, and why they are enough

* Two threads and two loops: the hazards are between a pair; a third thread
  adds no new kind of step. Two hooks, so that a hook can stop another and a copy
  of one hook can be locked while that of another is not. Two events, so that
  hooks can emit each other's. `MaxDepth = 7` in `el_single` is beyond what
  `DepthBound` allows for the copies that exist, so the bound never cuts the
  nesting off; in `el_threads` it does, and nothing there speaks of depth.
  `MaxCalls = 1` event per run of a handler: a second is met in the same shared
  state as the first.
* `MaxFixed = 1`: no or one FIXED_UPDATE before UPDATE; the clamp of 0.25 s
  makes the real number finite, and further ones repeat the same step.
* Two messages are enough for a batch of two, which is what moves the iterator
  and what merges replies; two clients for the next one in the table; room for
  one so that a client is refused and a place is reused. Starvation needs messages
  without end, which this instance has not: `HandledUnlessPassedOver` names it as an
  exception, because the code has it, and the run shows that nothing else keeps a
  message from being handled.
* The positions -3, -1, 0 and 2 with cells of 2 give cells -1, 0 and 1 in each
  direction, the double-width cell 0 included, and distances on both sides of
  each proximity; a proximity of 3 exceeds a cell, so the condition of
  `NearbyIsExact` matters. Three entities: a list of three, from which the first,
  a middle or the last is taken. The entities are symmetric: no definition
  distinguishes ids, and the run has no liveness property.
* The second connection of `http` waits while the first is served, and two
  messages are what a read can join or cut between. The second call of `run()` is
  the one that meets the port of the first.
* In `console` a line has room for one letter, so that it is empty, full, and
  refuses a second letter within a few keys; `LineFits` for other widths, and for
  `setwidth`, is proved. The stacks are not bounded: `NestingBound` is what keeps
  them finite. `Word = 64` is far above every length.
* In `display` three entries are enough for two equal names with another before or
  behind them, and for a range that is halved twice; the values are absence, zero
  and one. The viewpoints are one inside the level, one turned over and one that
  begins outside, all moved by at most one in each direction; ints of -7 to 6
  leave room around a level of 3 by 2, and `Word = 16` is above twice that.
  `MovesInside` for other sizes is proved, and so are `FindsFirst` and `PlainIsMap` for
  other names and longer lists. The defaults of a camera are the real
  ones.

### Fairness, and why the code justifies it

* `EventLoop`: weak fairness of `Dispatch` per thread: the operating system runs
  every thread, and a handler makes finitely many calls and returns. That is an
  assumption on the game's code; the engine's own hooks keep it.
* `GameLoop`: weak fairness of the main thread's statements, of the two threads'
  rounds, and of the end of a dispatch, which is `EventLoop!DispatchEnds`. Nobody
  has to call, type, or send a signal. `TypingSpec` adds weak fairness of
  `Read`; it separates `gl_run`, where EXIT comes, from `gl_blocked`.
* `Multiplayer`: weak fairness of the server's thread and of each client's
  polling. Writing, quitting and connecting are never forced.
* `DevConsole`: weak fairness of each thread's steps, the main thread's reading
  excepted: both threads run and nobody has to type.
* `RequestServer`: weak fairness of the thread in `run()`, strong fairness of
  `Accept`. `accept` may fail (an
  interrupt, too many descriptors), after which the loop tries again; that it
  does not fail every time is an assumption on the system, and the only strong
  fairness here. Nobody has to call `run` or `stop`, to connect, to write or to
  hang up: `read` (`network.cpp` 379, 436) has no timeout and `stop()` does not
  close `client_fd`, so `run()` may wait for a silent client, or read a stream that
  does not end, for ever. `EverybodyServed` and `StopEndsRun` name this as an
  exception (`Hogs`).

Deadlock is checked in `EventLoop`, `GridMap` and `Display`. `GameLoop` may stop because the
program ends, `Multiplayer` because the server has stopped and the clients'
messages have run out, `RequestServer` because its process has died or `run()`
has returned for the last time, and `DevConsole` because the loop is cancelled or
the process is gone; their configurations say so with
`CHECK_DEADLOCK FALSE`.

## 4. What is proved

Proofs hold for every value of the constants that satisfies the module's
`ConstantsAssumption`; the few theorems with a hypothesis of their own (one thread,
single reads, sorted defaults) state it and are named below.

* **EventLoopProofs.** `TypeCorrect` and `LocksHaveOwners` for any number of
  threads: a lock is set only by an activation that then runs the handler, an
  activation leaves `run` and `unlock` only through the step that clears it, and
  the activations below the top of a stack are all in `run`. `HooksDoNotReenter`
  and `NestingIsBounded` for one thread: `OneThreadInv` says that whoever runs a
  handler finds its slot locked, and that whoever is about to lock finds it free.
  With a second thread this is false, which `el_race` shows, so the theorems have
  the hypothesis that there is one thread. The bound follows by counting: the
  activations that run handlers have different slots, and there are finitely many
  registered ones. `PreventionHonoured` and `EndsAsAsked`, for any number of threads,
  by `PreventInv`, which says of every activation that its `EventInfo` is static or
  lies in a frame of its thread no deeper than itself (`InfoBelow`); that what was
  asked of it is set there, and that in one of its own nothing else is while the user
  hooks run (`Remembers`); and that it is on its way out once it was asked to go no
  further, and was asked nothing if it runs default hooks (`Obeys`).
  `DispatchDescends` is the variant behind `DispatchEnds`, for any number of threads
  and any sharing of `EventInfo` objects. The work of a thread is a list with a number
  for every depth of nesting: the hooks an activation has still to look at and how far
  it is with the present one count for more than the events its handler may still emit
  and the flags that are not up. A step moves the innermost activation on, ends it, or
  uses up one of the two last; where a handler emits, the activation that begins adds
  a number behind that of its caller, which gets smaller. `DescentInv` (an activation
  at a hook is within the list, the nesting within its bound) keeps the numbers
  natural, `PreventInv` that nobody clears a flag another activation counts on.
  `DescentEnds` proves the order well-founded, by least elements (`WFMin`), column by
  column. The bounds `MaxCalls` and `MaxDepth` stand for a handler that emits finitely
  many events and a nesting that is finite, which for one thread `NestingIsBounded`
  proves.
* **GameLoopProofs.** `LifeCycleInv` is inductive together with `TypeOK`
  (`LifeCycle`). Its parts tie the main thread's statement to the pointer
  (`PointerIsRunning`), the detached threads to the pointer or to a loop that has
  exited (`WorkersFollowPointer`), and EXIT to cancellation. `InitComesFirst`,
  `CrashesAfterExit`, `ExitsAtMostOnce` follow from it, and so does `ExitIsTheEnd`:
  a loop whose EXIT is under way is cancelled, and a cancelled loop's thread begins
  nothing. `MouseIsOff` by `MouseInv`: the mouse is reported only while SIGINT goes
  to the handler, which does not end the process before EXIT, and `signal` is called
  before the mode is set. `OwnershipImplemented`
  is the refinement of `LoopOwnership`: the claim is `Acquire`, the step that
  begins INIT is `Open`, the end of EXIT is `Close`, all else stutters.
  `OneOpenLoop` is the theorem about the abstract specification itself.
* **MultiplayerProofs.** `TypeCorrect`, for any clients, messages and capacities.
  `TableCorrect` by `TableInv`: while the server runs the table fits, names nobody
  twice and holds just the accepted connections; the part `NewHasNoLink` says that
  a client that has not connected yet is unknown to the server, so that
  `connect` cannot disturb an accepted connection. `IdFirst` by `IdGoesFirst`,
  which speaks of what a client has still to read (`inbox` and `down` together):
  nothing before the connection is accepted; from then on it begins with the id
  or the id has been handled; no second id follows; a refusal is all there is and
  its connection is closed. A step either appends to it or takes a part away
  from its front or its end (`UnreadGrows`, `SuffixKeeps`).
* **ExchangeProofs.** `ExchangeImplemented`: every behaviour of `Multiplayer` is one of
  `Exchange`. Each step moves the queues in one of five ways (`StepMoves`): a write
  is `Send`, a lost or refused connection `Lose`, the end of `run()` `Shutdown`, a
  delivery `Serve`, all else moves nothing; reading a prefix of a stream into the
  batch leaves the queue of its client what it was. A callback that is called is
  `Answer` (`StepAnswers`). `QueueInv` says that what waits for the server was
  written by the client in whose queue it is, occurs once and has not been handled,
  and that a batch has one sender. `AnswerInv` says that a reply on its way is one to
  a message that was handled, that a client's callbacks are for messages of its own
  which are not answered yet, and that what is answered was handled. From these
  follow `HandledAtMostOnce`, `AnsweredAtMostOnce` and `NobodyOvertakes` (whatever is
  handled, all before it in its client's queue has been). `SingleReadsAttribute` says
  what the finding of `mp_attrib` needs: as long as every read returns one message,
  each is passed with its sender and the iterator does not reach the end of the
  table before it is used. TCP does not promise such reads; the hypothesis is on the
  behaviour, not on a constant, and it is there to say where the fault lies.
* **GridMapProofs.** `Invariance`: every list under a key names, once each,
  exactly the entities of that key's cell, and no list is empty. Removal by
  swap-and-pop keeps the other ids (`WithoutCorrect`, `TakeOutCorrect`). Two cells
  whose numbers fit have different keys (`KeysDiffer`), because a number splits in
  only one way into a multiple of `Word` and a remainder of either sign
  (`SplitsUniquely`). Two positions at most a cell's size apart are in cells that
  differ by at most one (`CellsAreClose`), rounding towards zero included, and a
  leg is not longer than a hypotenuse (`LegsAreShort`). `GridCorrect`,
  `NearbyCorrect` and `NoListReadTwice` follow.
* **RequestServerProofs.** `TypeCorrect`. `LateInv` gives `StopAcceptsOneMore`:
  the port is kept from the first `Listen` on, so only one `run()` ever gets past
  `bind`; a stop it was told of is heard, that is `running` is false from then on
  (`ToldIsHeard`), unless it came before line 313 and was lost, which is the
  exception the theorem has; and once a connection has been accepted after it, no
  `accept` is reached again (`LateIsLast`). `ReturnIsTold`: a `run()` that has returned has set `exited`,
  and nothing clears it.

* **DevConsoleProofs.** `TypeCorrect`. `LineFitsCorrect` by `LineInv`: `setwidth` may
  make the limit anything, but whoever is about to run a command finds a line that
  is empty or mixed, because `Enter` has cleared it and the other thread, if it is
  inside, has made it mixed. `NestingBoundCorrect` by `NestInv`: a thread nests a
  call only for one that has been put off, and calls are put off only while
  `already_writing` is set. The invariant counts, for a thread that is past that
  test (`Passed`), its activations, the call it may still have to make (`Pending`)
  and the one the other is about to put off (`Coming`): three together, four when
  the other can do nothing but stay out (`Stuck`).
* **DisplayProofs.** `TypeCorrect`, for any lists. `MovesCorrect`: the upper side is
  not tested against 0, but an int below 0 becomes a `size_t` of at least
  `Word - MaxInt - 1`, which is above any height. `LowerBoundCorrect` is about the
  search itself, for lists of any length: a range that is halved wrongly would have a
  shortest one of its kind, and its half is shorter (`SearchIs`, by `WFMin`; that the
  recursive function exists at all is shown the same way, not assumed). `FirstIsFound`
  follows. `PlainListIsMap` says of a list what map it stands for (`Represents`): each
  operation is shown to change one name in that map, and a sorted list without
  duplicates represents exactly one, whichever way equal names are sorted. Because the
  list of `camera.h` is not in order the hypothesis of these is false for it;
  `SortedDefaultsSuffice` proves that listing the defaults in order would be enough
  for every entry to be found in every state (`SortedStep`: every operation sorts what
  it adds to), provided -1, which means absence, is not a value.

**Model-checked only.** Liveness (`DispatchEnds`, `WorkersEnd`,
`CancelLeadsToExit`, `HandledUnlessPassedOver`, `EverybodyServed`, `KeepsDrawing`,
`ScreenComesBack` and both `StopEndsRun`): TLAPS does not prove liveness under
fairness, nor anything about ENABLED. `DispatchDescends` is the part of the first
that it can prove: what is missing is that a thread that is inside `call_event` always
has a step it can take and, by fairness, takes it. Every other property of a passing
run is proved. No induction theorem with an operator as a parameter can be used here;
where an argument is by induction over data the proofs take a least counterexample
instead. The models have recursive functions and no recursive operators.

## 5. What is not modelled, and why

* The insertion of a key into `std::unordered_map` or `std::map` by two threads
  at once (`eventloop.h` 178, `server.cpp` 417): the outcomes of that data race
  are not bounded by the code.
* In the console: the imgui and the kitty branches, the event that follows every
  key (`MOUSE_CLICK_END_ANY`), the commands other than `exit` and `setwidth` beyond
  their events (`GameLoop`) and what they do to the display (`Display`), and the
  drawing itself.
* Float arithmetic: the fixed-step accumulator, animation, routine periods.
* Formats: serialized levels and models, escape sequences, HTTP headers. What
  they decode to matters in the models, how it is written does not.
* Rendering, textures, light, the editors, fonts, SDL and audio: data with
  little control.
* The command-line tools, start-up and configuration: pure input and output.
* `src/include/asio`, `src/assets`, `src/envs` and other third-party code and
  data. asio's sockets appear in `Multiplayer` as streams, and those of the
  operating system in `RequestServer`.

## 6. Plan

In this order:

1. **`GameLoop` composed with `EventLoop`**: the dispatch inside a task's
   statement as `EventLoop`'s activations, so that a hook that cancels, emits or
   prevents acts on the loop that runs it; the SDL loop as a variant.
2. **`Multiplayer` over streams of fragments** with bounded buffers: reads that
   end inside a message, a client that does not read, ids that collide.
3. **Input**: presses and releases of the buttons, and what the decoder makes of
   a sequence that arrives in pieces.
