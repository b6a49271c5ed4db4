SPECIFICATION PartitionSpec
CONSTANTS
    MaxCols = 3
    FirstCols = 2
    MaxRows = 3
    MemRows = 2
    BlockPoints = 2
    Threshold = 2
    MaxIOErrors = 0
    MaxStops = 1
INVARIANT SwapSurvivesRestart
CONSTRAINT FollowedUnrecovered
