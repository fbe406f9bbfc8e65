\* Two plans of the Privileged Helper, three sends and one fault; two connections
\* to the Trace Helper, three thread IDs and every buffer at its limit.
SPECIFICATION AllSpec
CONSTANTS
    Plans = {p1, p2}
    Main = p1
    Lifetime = 2
    MaxTracked = 2
    MaxArtifacts = 2
    MaxClock = 3
    MaxSends = 3
    MaxFaults = 1
    MaxReuse = 1
    Conns = {c1, c2}
    Threads = 3
    RingSize = 1
    MaxEvents = 2
    MaxLines = 1
    TraceArtifacts = 1
    MaxEmit = 3
    MaxBirths = 2
INVARIANTS
    PlanConsumedOnce HelperHonest OnlyGapBlocks
    
CHECK_DEADLOCK FALSE
