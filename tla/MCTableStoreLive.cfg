SPECIFICATION LiveSpec
CONSTANTS
    r1 = r1
    r2 = r2
    r3 = r3
    Row <- MCTwoRows
    Part <- MCPart
    PartOf <- MCTwoPartOf
    BlockPoints = 1
    FlushFloor = 1
    DeleteOverlapsBatch = FALSE
    Sharded = TRUE
    MaxCrashes = 1
    MaxFaults = 1
    MaxAlters = 1
PROPERTY LockReleased
