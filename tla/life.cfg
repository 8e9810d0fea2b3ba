SPECIFICATION Spec
CONSTANTS
    NoType = NoType
    Gone = Gone
    TSet = TSet
    THash = THash
    TZSet = TZSet
    TStr = TStr
    ValueSK = ValueSK
    Types = {TSet, THash, TZSet, TStr}
    Clients = {c1, c2}
    Members = {a}
    Vals = {0, 1, 2}
    MaxTime = 2
    MaxOps = 3
    MaxFaults = 1
    QueueCap = 1
    MaxTries = 2
    Synchronous = TRUE
    Sweeping = FALSE
    Commands = {"sadd", "spop", "sstore", "zstore", "hincr", "zadd xx", "zincr", "zincr nx", "del", "expire", "set", "set nx", "setnx", "getset", "incr"}
INVARIANT NoLostUpdate
INVARIANT PoppedAtMostOnce
PROPERTY LiveTypeIsStable
SYMMETRY Symmetry
CHECK_DEADLOCK FALSE
