\* One resource, a reservation and a release, with saves, torn saves and restarts.
CONSTANTS
    w1 = w1 w2 = w2 b1 = b1 d1 = d1 d2 = d2 n1 = n1 v1 = v1 v2 = v2 f1 = f1 q1 = q1
    NoWorker = NoWorker NoBoot = NoBoot
    Workers = {w1}
    Boots = {b1}
    ResourceIds = {1}
    DeviceIds = {d1, d2}
    Nodes = {n1}
    Classes <- MCClasses
    Reports <- MCWholeOrBusy
    HealthStates <- MCHealthy
    MaxGen = 0
    Unit = 1
    MaxAmount = 4
    ReservationIds = {v1}
    Intervals <- MCTwoIntervals
    Holds <- MCOneHold
    ReleaseSources = {f1}
    ReleaseTimes <- MCReleaseTimes
    Credits <- MCCredits
    DemandIds = {}
    LinkIds = {}
    ForecastTimes = {}
    Forecasts = {}
    FactGens = {1}
    MaxHistory = 0
    Demands <- MCDemands
    Additions <- MCAdditions
    Bookings <- MCBookings
    Horizon = 2
    ByteMax = 3
SPECIFICATION Spec
INVARIANTS NoEvidenceNoFit FutureFitHasStart ReleaseLedger WireLedgerReconstructs
