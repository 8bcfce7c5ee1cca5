\* One client, careful or not; the vector of ids doubles on the way.
SPECIFICATION Spec
CONSTANTS
    Objs = {o1, o2, o3, o4}
    Self = Self
    Names = {n1, n2}
    Classes = {A, U, M}
    Creatable = {A, M}
    NullCreators = {M}
    MaxRequests = 6
    NoName = NoName
    NoObject = NoObject
    NoRequest = NoRequest
    NoReply = NoReply
SYMMETRY Renamings
INVARIANTS TypeOK PoolExact NamesAccounted ProxyDenotes NoFault
PROPERTIES ImplementsService
CHECK_DEADLOCK FALSE
