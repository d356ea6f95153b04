\* Two clients, two jobs and two pools; nobody is assumed to finish.
CONSTANTS
    Clients = {c1, c2}
    Jobs = {j1, j2}
    Pools = {p1, p2}
    DrainDelayMs = 1
    ForceAfterMs = 2
    JobDrainMs = 2
    DrainTimeMs = 1
SPECIFICATION FairSpec
INVARIANTS
    TypeOK
    PoolsOutliveWork
    SnapshotComplete
    GivenUpAtDeadline
    EndsInBudget
PROPERTIES
    ReadinessFailsFirst
    ShutdownFinishes
CHECK_DEADLOCK FALSE
