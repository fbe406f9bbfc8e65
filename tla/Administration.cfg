\* Three files of the spool and two archives between two administrators; every
\* deployment command with two faults, two packages and two policies.
SPECIFICATION AllSpec
CONSTANTS
    Names = {1, 2, 3}
    Paths = {z1, z2}
    Admins = {d1, d2}
    Modes = {cap_perfmon, helper}
    Size <- MCSize
    Ages = {1}
    Keeps = {1}
    MaxArtifacts = 2
    MaxTotalBytes = 2
    MaxTime = 2
    MaxRestores = 1
    Versions = {v1, v2}
    Revisions = {q1, q2}
    Interruptible = {"mode", "profile", "policy"}
    MaxFaults = 2
SYMMETRY AllSymmetry
INVARIANTS EvidenceKept PruneTruthful  
CHECK_DEADLOCK FALSE
