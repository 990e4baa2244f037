\* Two workers, one server in the first list and one added later.
CONSTANTS
    s1 = s1
    s2 = s2
    c1 = c1
    w1 = w1
    w2 = w2
    Servers = {s1, s2}
    InitServers = {s1}
    Conns = {c1}
    Workers = {w1, w2}
    Admin = admin
    Statuses = {"ONLINE", "OFFLINE_HARD"}
    NoServer = NoServer
    NoConn = NoConn
    MaxGen = 4
SPECIFICATION Spec
SYMMETRY WorkerSymmetry
INVARIANTS
    TypeOK
    SnapshotsNameLiveServers
    ParentsAreAllocated
    PooledOnlyOnListed
