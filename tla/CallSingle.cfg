\* One program thread, no waiters, synchronous calls with nothing pending,
\* callbacks that call again, over a connection that holds one request and one
\* reply; functions throw, the connection breaks.  The fourth of four calls that
\* nobody collects waits for ever.
SPECIFICATION FairSpec
CONSTANTS
    AppThreads = {a1}
    Waiters = {}
    s1 = s1
    s2 = s2
    s3 = s3
    Stubs = {s1, s2}
    Registered = {s1, s2}
    StubId <- MCStubId
    Kinds = {"synch", "asynch"}
    Mixing = FALSE
    Chaining = TRUE
    Faults = {"servant", "connection"}
    MaxCalls = 4
    UpCap = 1
    DownCap = 1
    NoThread = NoThread
    NoPacket = NoPacket
    NoRequest = NoRequest
INVARIANTS TypeOK LocksHeld CallIdSound
PROPERTIES DrainedOnReturn CallsReturn ImplementsCallSpec
CHECK_DEADLOCK FALSE
