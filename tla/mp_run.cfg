\* Two clients and two messages, one of them "stop"; room for one client or both.
SPECIFICATION FairSpec
CONSTANTS
    ann = ann
    bob = bob
    m1 = m1
    quit = quit
    None = None
    Clients = {ann, bob}
    Messages = {m1, quit}
    Stops = {quit}
    Awaited = {m1}
    Capacities = {1, 2}
CHECK_DEADLOCK FALSE
INVARIANTS TypeOK TableHoldsAccepted IdComesFirst
PROPERTIES ExchangesMessages HandledUnlessPassedOver StopEndsRun
