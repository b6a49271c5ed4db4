SPECIFICATION MCSpec
CONSTANTS
    a = a
    b = b
    c = c
    Node = {a, b, c}
    Scenario <- MCScenario
    Writer = {w1, w2}
    MaxSeq = 3
    MaxFaults = 1
INVARIANTS RingFollowsState RelayedProbeSuffices CommitTypeOK OkMeansDurable
PROPERTIES UpNodesConverge StoppedNodeFound EveryAppendReturns
CHECK_DEADLOCK FALSE
