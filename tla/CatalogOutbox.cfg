CONSTANTS
    d1 = d1
    d2 = d2
    Drains = {d1, d2}
    Ids <- MCIds
    Batch = 2
    MaxCrashes = 1
    MaxDamaged = 1
SPECIFICATION FairSpec
INVARIANT
    QueuedIsKept
PROPERTY
    QueuedIsAnswered
CHECK_DEADLOCK FALSE
