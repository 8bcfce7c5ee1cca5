\* Two clients create without a name.
SPECIFICATION Spec
CONSTANTS
    c1 = c1
    Objs = {o1, o2}
    Servants = {}
    Sessions = {c1, c2}
    Names = {n1}
    Classes = {A}
    Creatable = {A}
    NullCreators = {}
    Usage <- AnonymousOnly
    MaxRequests = 2
    MaxMisused = 2
    NoName = NoName
    NoObject = NoObject
SYMMETRY Renamings
INVARIANTS FreshForAll
CHECK_DEADLOCK FALSE
