SPECIFICATION Spec
CONSTANTS
    NoType = NoType
    Gone = Gone
    TSet = TSet
    THash = THash
    TZSet = TZSet
    TStr = TStr
    ValueSK = ValueSK
    Types = {TSet, THash, TZSet, TStr}
    Clients = {c1, c2}
    Members = {a}
    Vals = {0, 1, 2, 3}
    MaxTime = 1
    MaxOps = 2
    MaxFaults = 0
    QueueCap = 1
    MaxTries = 2
    Synchronous = FALSE
    Sweeping = TRUE
    Commands = {"append"}
INVARIANT NoLostUpdate
CHECK_DEADLOCK FALSE
