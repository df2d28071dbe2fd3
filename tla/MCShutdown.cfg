\* Two connections with the threads' fairness: deaths are noticed and stop returns.
CONSTANTS
    w1 = w1 w2 = w2 b1 = b1 b2 = b2 r1 = r1 d1 = d1 n1 = n1 c1 = c1 k1 = k1 k2 = k2 k3 = k3
    NoWorker = NoWorker
    NoBoot = NoBoot
    Workers = {w1}
    Boots = {b1, b2}
    ResourceIds = {r1}
    DeviceIds = {d1}
    Nodes = {n1}
    Classes = {c1}
    Reports <- MCReports
    HealthStates <- MCHealthStates
    MaxGen = 0
    Unit = 1
    MaxAmount = 1
    Conns = {k1, k2}
    MaxConnections = 2
    Requests = {"Register", "Publish", "Shutdown", "OutOfRange"}
SPECIFICATION Spec
PROPERTIES DeathInvalidates StopReturnsOnceClientsLeave
CHECK_DEADLOCK FALSE
