--------------------------- MODULE LoopOwnership ---------------------------
(***************************************************************************)
(* What do_event_loop promises of the global main_event_loop: a loop is    *)
(* run only by its owner, one at a time, and at most once.                 *)
(***************************************************************************)
CONSTANTS Loops, None

VARIABLES
    owner,    \* the loop that owns the program's single EventLoop slot
    open,     \* the loops between INIT and the end of EXIT
    closed    \* the loops that have had their EXIT

Init == owner = None /\ open = {} /\ closed = {}

Acquire(l) ==
    /\ owner = None
    /\ owner' = l
    /\ UNCHANGED <<open, closed>>

Open(l) ==
    /\ owner = l /\ open = {} /\ l \notin closed
    /\ open' = {l}
    /\ UNCHANGED <<owner, closed>>

Close(l) ==
    /\ open = {l}
    /\ open' = {}
    /\ closed' = closed \cup {l}
    /\ owner' = None

Next == \E l \in Loops : Acquire(l) \/ Open(l) \/ Close(l)

Spec == Init /\ [][Next]_<<owner, open, closed>>

\* An owner whose loop was cancelled before it could open never lets go: this
\* is why no liveness is promised.
OneOpen == \A l \in open : l \notin closed /\ (owner = l) /\ (open = {l})
============================================================================
