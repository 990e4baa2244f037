\* Two workers, one server that is removed; no symmetry (liveness).
CONSTANTS
    s1 = s1
    c1 = c1
    w1 = w1
    w2 = w2
    Servers = {s1}
    InitServers = {s1}
    Conns = {c1}
    Workers = {w1, w2}
    Admin = admin
    Statuses = {"ONLINE", "SHUNNED", "OFFLINE_HARD"}
    NoServer = NoServer
    NoConn = NoConn
    MaxGen = 3
SPECIFICATION FairSpec
PROPERTIES
    RetiredServersAreReclaimed
