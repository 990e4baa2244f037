SPECIFICATION Spec
CONSTANTS
    s1 = s1
    r1 = r1
    Sessions = {s1}
    Readers = {r1}
    Policies <- StrictPolicy
    Modes = {"session"}
    Monitoring = TRUE
    InitActive = {TRUE}
    WholeHistory = FALSE
    MaxLsn = 1
    MaxEpoch = 2
    NoServer = NoServer
INVARIANTS
    BypassOnlyCaughtUp
