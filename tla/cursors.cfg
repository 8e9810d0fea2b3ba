SPECIFICATION Spec
CONSTANTS
    Clients = {c1}
    LastSlot = 3
    Cursors = {1, 2, 3, 4}
    NoCursor = 0
    Capacity = 2
    TTL = 1
    MaxFaults = 3
INVARIANTS TypeOK CompleteIteration CursorOutlivesUse
