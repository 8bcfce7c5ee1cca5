\* One client that connects and hangs up.
SPECIFICATION FairSpec
CONSTANTS
    Sessions = {c1}
    FdLimit = 2
    MaxRetry = 2
    MayStop = FALSE
    NoSession = NoSession
PROPERTY SessionCloses
CHECK_DEADLOCK FALSE
