\* Three clients, descriptors for two of them; the listening socket may fail.
SPECIFICATION FairSpec
CONSTANTS
    Sessions = {c1, c2, c3}
    FdLimit = 2
    MaxRetry = 2
    MayStop = TRUE
    NoSession = NoSession
INVARIANTS TypeOK RefsExact NoUseAfterFree ListExact
PROPERTIES HangupEnds
CHECK_DEADLOCK FALSE
