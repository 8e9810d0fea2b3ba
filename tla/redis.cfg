SPECIFICATION SerialSpec
CONSTANTS
    NoType = NoType
    Gone = Gone
    TSet = TSet
    THash = THash
    TZSet = TZSet
    TStr = TStr
    ValueSK = ValueSK
    Types = {TSet, THash, TZSet, TStr}
    Clients = {c1}
    Members = {a, b}
    Vals = {0, 1}
    MaxTime = 2
    MaxOps = 4
    MaxFaults = 0
    QueueCap = 1
    MaxTries = 2
    Synchronous = TRUE
    Sweeping = FALSE
    Commands = {"sadd", "srem", "spop", "sstore", "hset", "hsetnx", "hdel", "hincr", "zadd", "zincr", "zrem", "zremrange", "zstore", "del", "expire", "persist", "set", "set nx", "getset", "incr", "append"}
PROPERTY ImplementsRedis
CHECK_DEADLOCK FALSE
