SPECIFICATION Spec
CONSTANTS
    NoType = NoType
    Gone = Gone
    TSet = TSet
    THash = THash
    TZSet = TZSet
    TStr = TStr
    ValueSK = ValueSK
    Types = {TSet, THash, TZSet, TStr}
    Clients = {c1, c2, c3}
    Members = {a, b}
    Vals = {0, 1}
    MaxTime = 1
    MaxOps = 4
    MaxFaults = 0
    QueueCap = 1
    MaxTries = 2
    Synchronous = FALSE
    Sweeping = TRUE
    Commands = {"hset", "hsetnx", "hdel", "hincr"}
INVARIANT NoStrandedMember
INVARIANT CountCoversMembers
SYMMETRY Symmetry
CHECK_DEADLOCK FALSE
