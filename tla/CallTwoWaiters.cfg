\* One thread calling asynchronously, two waiter threads.
SPECIFICATION Spec
CONSTANTS
    AppThreads = {a1}
    Waiters = {w1, w2}
    s1 = s1
    s2 = s2
    s3 = s3
    Stubs = {s1}
    Registered = {s1}
    StubId <- MCStubId
    Kinds = {"asynch"}
    Mixing = FALSE
    Chaining = FALSE
    Faults = {}
    MaxCalls = 2
    UpCap = 2
    DownCap = 6
    NoThread = NoThread
    NoPacket = NoPacket
    NoRequest = NoRequest
INVARIANT RepliesStayWhole
CHECK_DEADLOCK FALSE
