\* Two previews, two operations each, half-second clock ticks and a wall
\* clock that may be set back.
SPECIFICATION Spec
CONSTANTS
    Previews = {p1, p2}
    Adapters = {a1}
    Operations = {o1, o2}
    Reservations = {1}
    MaxRuns = 2
    MaxActive = 1
    HardExpiry = 1
    PreviewExpiry = 1
    LeaseGrace = 0
    Ticks = 2
    MaxSessions = 2
    MaxPending = 2
    MaxConsumed = 2
    WallSteps = {1}
    MaxTime = 3
SYMMETRY Symmetry
INVARIANTS WithinBudget LeaseOfCurrentRevision PreviewSingleUse
CHECK_DEADLOCK FALSE
