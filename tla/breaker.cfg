SPECIFICATION FairSpec
CONSTANTS
    Clients = {c1, c2}
    Workers = {w1}
    Threshold = 2
    Cooldown = 2
INVARIANTS TypeOK StormIsNoticed
PROPERTIES TripIsEarned ClosesForGood
