SPECIFICATION Spec
CONSTANTS
    s1 = s1
    r1 = r1
    r2 = r2
    Sessions = {s1}
    Readers = {r1, r2}
    Policies <- AllPolicies
    Modes = {"session", "eventual", "off"}
    Monitoring = FALSE
    InitActive = {TRUE, FALSE}
    WholeHistory = FALSE
    MaxLsn = 2
    MaxEpoch = 2
    NoServer = NoServer
SYMMETRY ReaderSymmetry
INVARIANTS
    TypeOK
    ReadYourWrites
    MonotonicReads
    BypassOnlyCaughtUp
