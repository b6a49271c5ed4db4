SPECIFICATION FairSpec
CONSTANTS
    n1 = n1  n2 = n2  n3 = n3  r1 = r1  r2 = r2  r3 = r3
    Node = {n1, n2, n3}
    Row = {r1, r2, r3}
    Scenario <- FaultScenario
    BlockPoints = 2
    Chunk = 2
    MaxGap = 1
    MaxInflight = 2
    MaxAttempts = 3
    MaxSends = 3
CHECK_DEADLOCK FALSE
INVARIANTS TypeOK NumbersNotReused  AckMeansApplied
PROPERTIES RowsHeld LockRingBroken
