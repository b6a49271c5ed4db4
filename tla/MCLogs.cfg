SPECIFICATION MCSpec
CONSTANTS
    Node = {n1, n2}
    MaxTerm = 2
    MaxIndex = 3
    MaxCrashes = 2
    MaxFaults = 1
    g1 = g1
    c1 = c1
    c2 = c2
    c3 = c3
    Group = {g1, g2}
    Consumer = {c1, c2, c3}
    NPartitions = 3
    MaxMembers = 3
    MaxGroups = 1
    MaxOffset = 2
    MaxOps = 3
    MaxFlushFails = 1
    MaxRestarts = 1
INVARIANTS TypeOK OneVotePerTerm AckedEntriesKept ReopenSeesTheSame SubsumedIndexNotReused
INVARIANTS GroupsTypeOK LogIsTheTable PartitionsShared
PROPERTIES OffsetsGrow
\* Both logs only act when called; at the bounds no call is left.
CHECK_DEADLOCK FALSE
