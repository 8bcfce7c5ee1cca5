\* Two values in a vector that grows from two slots over four to eight.
SPECIFICATION Spec
CONSTANTS
    Vals = {x1, x2}
    InitialMax = 1
    MaxSize = 8
INVARIANTS TypeOK ContentKept UsedIdsExact
PROPERTIES ImplementsIdPool
SYMMETRY Swap
