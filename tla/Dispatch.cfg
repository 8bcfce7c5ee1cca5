\* Calls of one client from the variables to the function and back.  Numbers
\* wrap after two calls; the table of functions doubles when all are registered.
SPECIFICATION Spec
CONSTANTS
    Server = Server
    Echo = Echo
    Other = Other
    ping = ping
    find = find
    put = put
    putOther = putOther
    get = get
    Ping = Ping
    Find = Find
    Put = Put
    Get = Get
    Classes <- AllClasses
    Main = Server
    ClassName <- Name
    Scope <- Derived
    Stubs = {find, put, ping, putOther, get}
    StubsOf <- Members
    FullName <- FullNames
    Params <- Signatures
    Vars = {x, y}
    Values = {v, w}
    Wrap = 2
    MaxPending = 2
    MaxCalls = 3
    NoPacket = NoPacket
    NoHeader = NoHeader
SYMMETRY Renamings
INVARIANTS TypeOK CallIdsLead Framed InFlightExact ArgumentsArrive
PROPERTIES ResultsReturn
CHECK_DEADLOCK FALSE
