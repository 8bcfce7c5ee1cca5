\* Two threads, each making synchronous calls only.
SPECIFICATION Spec
CONSTANTS
    AppThreads = {a1, a2}
    Waiters = {}
    s1 = s1
    s2 = s2
    s3 = s3
    Stubs = {s1}
    Registered = {s1}
    StubId <- MCStubId
    Kinds = {"synch"}
    Mixing = TRUE
    Chaining = FALSE
    Faults = {}
    MaxCalls = 2
    UpCap = 2
    DownCap = 6
    NoThread = NoThread
    NoPacket = NoPacket
    NoRequest = NoRequest
INVARIANT ReplyIsOwn
CHECK_DEADLOCK FALSE
