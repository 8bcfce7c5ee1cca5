\* Two program threads and a waiter thread that do as they please, over a
\* connection that holds one request and one reply.
SPECIFICATION Spec
CONSTANTS
    AppThreads = {a1, a2}
    Waiters = {w1}
    s1 = s1
    s2 = s2
    s3 = s3
    Stubs = {s1}
    Registered = {s1}
    StubId <- MCStubId
    Kinds = {"synch", "asynch"}
    Mixing = TRUE
    Chaining = FALSE
    Faults = {}
    MaxCalls = 3
    UpCap = 1
    DownCap = 1
    NoThread = NoThread
    NoPacket = NoPacket
    NoRequest = NoRequest
SYMMETRY Swap
INVARIANTS InOrderOnce
CHECK_DEADLOCK FALSE
