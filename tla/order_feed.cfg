SPECIFICATION FairSpec
CONSTANTS
    o1 = o1
    o2 = o2
    c1 = c1
    c2 = c2
    s1 = s1
    Order <- TwoOrders
    MaxAmount = 1
    Emitted <- SomeEndStates
    BatchSize = 1
    HttpURI = TRUE
    Ignored <- OtherOrder
    PinnedMaker <- NoOrder
    PinnedPool <- OneOrder
    MayExpire <- OneOrder
    DeleteChunk = 1
    Callback <- TwoCallbacks
    Sync <- OneSync
    StartSync = s1
    MaxChanges = 2
    MaxFaults = 1
INVARIANTS
    TypeInvariant
    MirrorsMesh
PROPERTIES
    LiveRowsAreKept
    RepairedByReconnecting
CHECK_DEADLOCK FALSE
