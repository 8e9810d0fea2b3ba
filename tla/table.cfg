SPECIFICATION Spec
CONSTANTS
    NoType = NoType
    Gone = Gone
    TList = TList
    TSet = TSet
    TStr = TStr
    Keys = {k1, k2}
    Clients = {c1, c2}
    MaxOps = 2
    MaxFaults = 1
    MaxIndex = 1
    Elements = {2, 5}
INVARIANT TypeOK
INVARIANT MovedOnce
INVARIANT NothingHidden
PROPERTY ImplementsRedisTable
SYMMETRY Symmetry
CHECK_DEADLOCK FALSE
