\* Three setup commands with one edit of the user and one fault; every kind of
\* artifact paged and loaded during one edit by another process, and two servers
\* saving one identifier through one fault; traces of three records with a limit
\* of two, and of five events with limits on intervals and warnings that bind; two
\* runs of a managed session in four calls with one failing Docker command or death
\* of the server.
SPECIFICATION AllSpec
CONSTANTS
    Selections = {{"codex", "claude"}, {"copilot"}}
    MaxVersion = 2
    MaxCommands = 3
    SetupEdits = 1
    SetupFaults = 1
    Savers = {s1, s2}
    MaxEdits = 1
    StoreFaults = 1
    Threads = {t1}
    Foreign = foreign
    Locks = {l1}
    Cpus = {1, 2}
    MaxTime = 1
    MaxLines = 3
    MaxEvents = 2
    MaxExported = 2
    MaxDiagnostics = 2
    AnalysisEvents = 5
    AnalysisTime = 1
    MaxIntervals = 3
    MaxWarnings = 2
    Timeout = 1
    Grace = 1
    Expiry = 3
    MaxRuns = 2
    MaxSeconds = 3
    MaxClock = 4
    MaxCalls = 4
    MaxFaults = 1
SYMMETRY AllSymmetry
INVARIANTS
     StoreSound RecordsConserved 
    TimeCountedOnce AnalysisTruthful PairsExact
    RunsOnlyReleased 
CHECK_DEADLOCK FALSE
