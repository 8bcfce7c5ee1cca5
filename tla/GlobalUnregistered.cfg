\* A client creates an object of a class that the server does not have.
SPECIFICATION Spec
CONSTANTS
    c1 = c1
    Objs = {o1, o2}
    Servants = {}
    Sessions = {c1}
    Names = {n1}
    Classes = {A, U}
    Creatable = {A}
    NullCreators = {}
    Usage <- Everything
    MaxRequests = 2
    MaxMisused = 2
    NoName = NoName
    NoObject = NoObject
SYMMETRY Renamings
INVARIANTS ProxiesGiven
CHECK_DEADLOCK FALSE
