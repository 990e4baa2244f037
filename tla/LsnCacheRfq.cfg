\* Two workers and one server, two writer changes, monitor LSN updates off.
CONSTANTS
    s1 = s1
    w1 = w1
    w2 = w2
    Servers = {s1}
    Workers = {w1, w2}
    MonitorRoles = {}
    MaxLsn = 2
    MaxEpoch = 3
    NoActor = NoActor
    NoServer = NoServer
SPECIFICATION Spec
SYMMETRY WorkerSymmetry
INVARIANTS
    TypeOK
    RfqCellsAreCurrent
    CoalescedIsCovered
