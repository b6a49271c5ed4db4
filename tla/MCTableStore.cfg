SPECIFICATION Spec
CONSTANTS
    r1 = r1
    r2 = r2
    r3 = r3
    Row <- MCRow
    Part <- MCPart
    PartOf <- MCPartOf
    BlockPoints = 2
    FlushFloor = 2
    DeleteOverlapsBatch = FALSE
    Sharded = TRUE
    MaxCrashes = 2
    MaxFaults = 1
    MaxAlters = 1
INVARIANTS TypeOK NoAckedRowLost AckedRowsReadable StoredOnce SeqNeverReused
PROPERTY FrozenKeepsLog
CONSTRAINT MCBudget
SYMMETRY MCSymmetry
