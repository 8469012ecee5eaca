\* Two connections, one of them with two messages, and two calls of run().
SPECIFICATION FairSpec
CONSTANTS
    ann = ann
    bob = bob
    None = None
    Clients = {ann, bob}
    MaxMessages <- MCMaxMessages
    MaxRuns = 2
CHECK_DEADLOCK FALSE
INVARIANTS TypeOK LastOne ReturnTells
PROPERTIES EverybodyServed StopEndsRun
