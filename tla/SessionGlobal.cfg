SPECIFICATION Spec
CONSTANTS
    s1 = s1
    s2 = s2
    r1 = r1
    Sessions = {s1, s2}
    Readers = {r1}
    Policies <- StrictPolicy
    Modes = {"global"}
    Monitoring = FALSE
    InitActive = {TRUE}
    WholeHistory = FALSE
    MaxLsn = 1
    MaxEpoch = 1
    NoServer = NoServer
SYMMETRY SessionSymmetry
INVARIANTS
    GlobalReadsCoverGroup
