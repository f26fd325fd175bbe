SPECIFICATION RefSpec
CONSTANTS
    o1 = o1
    o2 = o2
    o3 = o3
    o4 = o4
    NullObject = NullObject
    Obj <- MCObj
    HashObj <- MCHash
    InitSlots = 1
    MaxHolds = 2
    CountUnheld = TRUE
INVARIANT NoAssertFails
CHECK_DEADLOCK FALSE
