SPECIFICATION Spec
CONSTANTS
    Previews = {p1, p2}
    Manifests = {m1}
    MaxPending = 2
    MaxActive = 1
    PreviewSeconds = 1
    HardExpiry = 2
    Grace = 0
    MaxRounds = 1
    MaxBuilds = 2
    MaxRetries = 0
    BuildSeconds = 1
    TotalBuildSeconds = 1
    MaxImages = 1
    MaxRuns = 1
    ActiveAmount = 1
    LockRuns = 1
    LockAmount = 1
    MaxTime = 3
CHECK_DEADLOCK FALSE
PROPERTY Reclaimed
