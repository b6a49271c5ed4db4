SPECIFICATION Spec
CONSTANTS
    s1 = s1
    s2 = s2
    s3 = s3
    v1 = v1
    v2 = v2
    None = None
    Server = {s1, s2, s3}
    Value <- MCValue
    Scenario <- RollbackScenario
    MaxIndex = 4
INVARIANT FailedNeverApplied
CHECK_DEADLOCK FALSE
