\* Builds, retries and workloads of one optimization session against budgets
\* that bind, with the timer, the hard expiry and lapsing leases in between.
SPECIFICATION Spec
CONSTANTS
    Previews = {p1}
    Manifests = {m1, m2}
    MaxPending = 1
    MaxActive = 1
    PreviewSeconds = 1
    HardExpiry = 3
    Grace = 1
    MaxRounds = 1
    MaxBuilds = 4
    MaxRetries = 1
    BuildSeconds = 1
    TotalBuildSeconds = 1
    MaxImages = 2
    MaxRuns = 2
    ActiveAmount = 1
    LockRuns = 1
    LockAmount = 1
    MaxTime = 4
SYMMETRY Symmetry
INVARIANT RunsAccounted
CHECK_DEADLOCK FALSE
