\* The default budgets in seconds; every pool drains for up to 10 s.
CONSTANTS
    Clients = {c1}
    Jobs = {j1}
    Pools = {p1}
    DrainDelayMs = 5
    ForceAfterMs = 10
    JobDrainMs = 10
    DrainTimeMs = 10
    SHUTDOWN_SLACK_MS = 2
SPECIFICATION ClusterSpec
INVARIANTS
    KilledOnlyIfStuck
CHECK_DEADLOCK FALSE
