\* Two messages of one client in one read, and a second client.
SPECIFICATION Spec
CONSTANTS
    ann = ann
    bob = bob
    m1 = m1
    quit = quit
    None = None
    Clients = {ann, bob}
    Messages = {m1, quit}
    Stops = {quit}
    Awaited = {m1}
    Capacities = {2}
CHECK_DEADLOCK FALSE
INVARIANTS Attributed
