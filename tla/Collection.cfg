\* The broker with one plan of every shape, PID reuse, expiry, disconnects,
\* crashes and power losses; one call of the launcher.
SPECIFICATION AllSpec
CONSTANTS
    Plans = {p1}
    Pids = {i1}
    MaxTime = 3
    MaxStart = 2
    PlanTtls = {1, 2}
    PlanSources = {"auto", "auto_narrow", "hardware_required", "software_only"}
    PlanBytes = {1, 3}
    PolicyTtls = {1}
    TtlMayShrink = FALSE
    MaxOutput = 2
    MaxSpoolBytes = 2
    MaxSpoolArtifacts = 1
    MaxTracked = 1
    AllowFallback = TRUE
INVARIANTS EnabledOnPlannedTarget RepliesTruthful ProfiledFromExec
PROPERTIES RequestsEnd CallCleansUp
