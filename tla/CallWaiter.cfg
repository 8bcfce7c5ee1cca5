\* Asynchronous calls, answered by a waiter thread whose callbacks call again,
\* over a connection that holds one request and one reply and may break; a
\* function throws, one is unknown to the server.
SPECIFICATION FairSpec
CONSTANTS
    AppThreads = {a1}
    Waiters = {w1}
    s1 = s1
    s2 = s2
    s3 = s3
    Stubs = {s1, s3}
    Registered = {s1}
    StubId <- MCStubId
    Kinds = {"asynch"}
    Mixing = FALSE
    Chaining = TRUE
    Faults = {"servant", "connection"}
    MaxCalls = 4
    UpCap = 1
    DownCap = 1
    NoThread = NoThread
    NoPacket = NoPacket
    NoRequest = NoRequest
INVARIANTS NoOrphan
PROPERTIES SendCompletes ImplementsSafety
CHECK_DEADLOCK FALSE
