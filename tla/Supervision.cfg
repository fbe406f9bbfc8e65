CONSTANTS
    PidMax = 2
    MaxBirths = 3
    MaxEvidence = 1
    MaxFaults = 1
SPECIFICATION Spec
INVARIANTS CleanupTruthful 
PROPERTIES EvidenceHonest SupervisionEnds
