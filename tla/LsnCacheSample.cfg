\* One worker reads while the monitor stores samples of both roles.
CONSTANTS
    s1 = s1
    w1 = w1
    Servers = {s1}
    Workers = {w1}
    MonitorRoles = {"primary", "replica"}
    MaxLsn = 2
    MaxEpoch = 2
    NoActor = NoActor
    NoServer = NoServer
SPECIFICATION Spec
INVARIANTS
    ReplayProofIsOfScope
    StampNeverExposesOlderLsn
