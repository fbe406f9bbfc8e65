\* Three plans competing for two slots, three bytes and two markers, presented
\* any number of times, with crashes, power losses, marker reclaim under two
\* policy TTLs, pruning and removal of unmanaged files.
SPECIFICATION Spec
CONSTANTS
    Plans = {p1, p2, p3}
    Pids = {i1}
    MaxTime = 2
    MaxStart = 2
    PlanTtls = {1}
    PlanSources = {"hardware_required"}
    PlanBytes = {1, 2}
    PolicyTtls = {1, 2}
    TtlMayShrink = FALSE
    MaxOutput = 2
    MaxSpoolBytes = 3
    MaxSpoolArtifacts = 2
    MaxTracked = 2
    AllowFallback = FALSE
SYMMETRY Symmetry
INVARIANTS SingleUse MarkerOutlivesPlan SpoolBounded
PROPERTIES ImplementsLedger
