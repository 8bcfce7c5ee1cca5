\* Two threads that call asynchronously and collect in wait_pending_async.
SPECIFICATION Spec
CONSTANTS
    AppThreads = {a1, a2}
    Waiters = {}
    s1 = s1
    s2 = s2
    s3 = s3
    Stubs = {s1}
    Registered = {s1}
    StubId <- MCStubId
    Kinds = {"asynch"}
    Mixing = TRUE
    Chaining = FALSE
    Faults = {}
    MaxCalls = 3
    UpCap = 3
    DownCap = 9
    NoThread = NoThread
    NoPacket = NoPacket
    NoRequest = NoRequest
INVARIANT OwnAnswer
CHECK_DEADLOCK FALSE
