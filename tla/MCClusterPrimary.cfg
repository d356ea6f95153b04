\* Two workers, at most two respawns per window of two ticks; with
\* respawn on and off.
CONSTANTS
    ConfiguredWorkers = 2
    CpuCount = 4
    RespawnMaxPerMinute = 2
    RESPAWN_WINDOW_MS = 2
    DrainDelayMs = 0
    ForceAfterMs = 1
    JobDrainMs = 0
    SHUTDOWN_SLACK_MS = 1
    MaxTime = 4
SPECIFICATION FairSpec
INVARIANTS
    TypeOK
    CapacityHeld
    RespawnRateCap
    NoneUntold
    NoSurvivor
    DrainNoticed
PROPERTIES
    KillOnlyAfterWait
    LeaderGivenUpOnlyAtCap
    LeaseRefined
    ShutdownEnds
    DeadLeaderNoticed
CHECK_DEADLOCK FALSE
