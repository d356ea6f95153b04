\* Pools drain within the primary's slack.
CONSTANTS
    Clients = {c1}
    Jobs = {j1}
    Pools = {p1}
    DrainDelayMs = 1
    ForceAfterMs = 2
    JobDrainMs = 2
    DrainTimeMs = 1
    SHUTDOWN_SLACK_MS = 2
SPECIFICATION ClusterSpec
INVARIANTS
    KilledOnlyIfStuck
CHECK_DEADLOCK FALSE
