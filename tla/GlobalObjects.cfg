\* Two clients and the application ask for everything.  MaxRequests bounds what
\* they do one at a time, MaxMisused what they do once they have been careless.
SPECIFICATION Spec
CONSTANTS
    c1 = c1
    Objs = {v1, o1, o2, o3}
    Servants = {v1}
    Sessions = {c1, c2}
    Names = {n1}
    Classes = {A, U, Z}
    Creatable = {A, Z}
    NullCreators = {Z}
    Usage <- OneCalls
    MaxRequests = 4
    MaxMisused = 2
    NoName = NoName
    NoObject = NoObject
SYMMETRY Renamings
INVARIANTS RefsExact NamesAccounted ProxyDenotes NoFault
PROPERTIES ImplementsService
CHECK_DEADLOCK FALSE
