SPECIFICATION FairSpec
CONSTANTS
    NoType = NoType
    Gone = Gone
    TSet = TSet
    THash = THash
    TZSet = TZSet
    TStr = TStr
    ValueSK = ValueSK
    Types = {TSet, THash, TZSet, TStr}
    Clients = {c1, c2}
    Members = {a}
    Vals = {0}
    MaxTime = 2
    MaxOps = 3
    MaxFaults = 2
    QueueCap = 1
    MaxTries = 2
    Synchronous = FALSE
    Sweeping = TRUE
    Commands = {"sadd", "srem", "zadd", "zrem", "zremrange", "append", "del", "expire"}
INVARIANT TypeOK
PROPERTY OrphansReclaimed
CHECK_DEADLOCK FALSE
