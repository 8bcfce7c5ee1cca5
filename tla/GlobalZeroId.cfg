\* A client retrieves an object that another is creating.
SPECIFICATION Spec
CONSTANTS
    c1 = c1
    Objs = {o1, o2}
    Servants = {}
    Sessions = {c1, c2}
    Names = {n1}
    Classes = {A}
    Creatable = {A}
    NullCreators = {}
    Usage <- OneCreates
    MaxRequests = 3
    MaxMisused = 3
    NoName = NoName
    NoObject = NoObject
SYMMETRY Renamings
INVARIANTS NoZeroId
CHECK_DEADLOCK FALSE
