SPECIFICATION Spec
CONSTANTS
    r1 = r1
    r2 = r2
    r3 = r3
    Row <- MCRow
    Part <- MCPart
    PartOf <- MCPartOf
    BlockPoints = 2
    FlushFloor = 2
    DeleteOverlapsBatch = TRUE
    Sharded = FALSE
    MaxCrashes = 0
    MaxFaults = 0
    MaxAlters = 0
INVARIANT NoAckedRowLost
