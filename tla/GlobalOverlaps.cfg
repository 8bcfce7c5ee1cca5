\* Two clients and the application ask for everything, at any time.
SPECIFICATION Spec
CONSTANTS
    c1 = c1
    Objs = {v1, o1, o2}
    Servants = {v1}
    Sessions = {c1, c2}
    Names = {n1, n2}
    Classes = {A}
    Creatable = {A}
    NullCreators = {}
    Usage <- Everything
    MaxRequests = 3
    MaxMisused = 3
    NoName = NoName
    NoObject = NoObject
SYMMETRY Renamings
INVARIANTS TypeOK CallsLand ServantsServed
PROPERTIES NamesKept
CHECK_DEADLOCK FALSE
