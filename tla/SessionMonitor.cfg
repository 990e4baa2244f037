SPECIFICATION Spec
CONSTANTS
    s1 = s1
    r1 = r1
    Sessions = {s1}
    Readers = {r1}
    Policies <- LenientAndStrict
    Modes = {"session", "global"}
    Monitoring = TRUE
    InitActive = {TRUE}
    WholeHistory = FALSE
    MaxLsn = 2
    MaxEpoch = 1
    NoServer = NoServer
INVARIANTS
    ReadYourWrites
    BypassOnlyCaughtUp
