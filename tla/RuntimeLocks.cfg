\* Three operations against a budget of two settled runs, the wall clock jumping
\* forward; two server processes with two launches and a failing file operation;
\* two threads of a probed workload making four calls on every kind of lock.
SPECIFICATION AllSpec
CONSTANTS
    Operations = {o1, o2, o3}
    MaxRuns = 2
    HardExpiry = 2
    LeaseTime = 1
    Ticks = 2
    WallSteps = {4}
    MaxTime = 4
    Procs = {1, 2}
    Runs = {1, 2}
    Quota = 2
    MaxFaults = 1
    Threads = {t1, t2}
    Limits = {6}
    Slots = {1, 2}
    MaxCalls = 4
SYMMETRY AllSymmetry
INVARIANTS
    SettlementSound ExecutesAuthorized FilesAccounted
    ProbeHonest ChildSilent
CHECK_DEADLOCK FALSE
