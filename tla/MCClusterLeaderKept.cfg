\* The promise of one marked leader, against the respawn cap.
CONSTANTS
    ConfiguredWorkers = 2
    CpuCount = 4
    RespawnMaxPerMinute = 1
    RESPAWN_WINDOW_MS = 1
    DrainDelayMs = 0
    ForceAfterMs = 1
    JobDrainMs = 0
    SHUTDOWN_SLACK_MS = 1
    MaxTime = 3
SPECIFICATION Spec
INVARIANTS
    LeaderKept
CHECK_DEADLOCK FALSE
