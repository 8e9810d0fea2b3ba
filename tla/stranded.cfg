SPECIFICATION Spec
CONSTANTS
    NoType = NoType
    Gone = Gone
    TSet = TSet
    THash = THash
    TZSet = TZSet
    TStr = TStr
    ValueSK = ValueSK
    Types = {TSet, THash, TZSet, TStr}
    Clients = {c1}
    Members = {a, b}
    Vals = {0}
    MaxTime = 2
    MaxOps = 5
    MaxFaults = 0
    QueueCap = 1
    MaxTries = 2
    Synchronous = TRUE
    Sweeping = FALSE
    Commands = {"zadd", "zadd xx", "zrem", "expire"}
INVARIANT NoStrandedMember
CHECK_DEADLOCK FALSE
