\* Two Oracle sources and a placeholder, one of them pinged at a time.
CONSTANTS
    s1 = s1
    s2 = s2
    p1 = p1
    typo = typo
    Calls = {s1, s2}
    Placeholders = {p1}
    UnknownKeys = {typo}
    Retries = 1
    TimeoutMs = 1
    Concurrency = 1
    Environments <- MCEnvironments
    Jobs = {job}
SPECIFICATION BootstrapFairSpec
INVARIANTS
    ReadyMeansAnswered
    FailedForARequiredSource
    SettingsDecide
    ServesAsConfigured
PROPERTIES
    BootComesToAnEnd
CHECK_DEADLOCK FALSE
