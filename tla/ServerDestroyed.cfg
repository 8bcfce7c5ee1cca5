\* One client, and a listening socket that fails.
SPECIFICATION Spec
CONSTANTS
    Sessions = {c1}
    FdLimit = 2
    MaxRetry = 2
    MayStop = TRUE
    NoSession = NoSession
INVARIANT ServerOutlivesSessions
CHECK_DEADLOCK FALSE
