\* A client creates an object of a class that was added with the creator 0.
SPECIFICATION Spec
CONSTANTS
    c1 = c1
    Objs = {o1, o2}
    Servants = {}
    Sessions = {c1}
    Names = {n1}
    Classes = {A, Z}
    Creatable = {A, Z}
    NullCreators = {Z}
    Usage <- AnonymousOnly
    MaxRequests = 2
    MaxMisused = 2
    NoName = NoName
    NoObject = NoObject
SYMMETRY Renamings
INVARIANTS CreatorPresent
CHECK_DEADLOCK FALSE
