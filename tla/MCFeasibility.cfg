\* Two workers report two resources, on one device or on two, in every order of
\* publications and deaths.
CONSTANTS
    w1 = w1 w2 = w2 b1 = b1 d1 = d1 d2 = d2 n1 = n1 v1 = v1 v2 = v2 f1 = f1 q1 = q1
    NoWorker = NoWorker NoBoot = NoBoot
    Workers = {w1, w2}
    Boots = {b1}
    ResourceIds = {1, 2}
    DeviceIds = {d1, d2}
    Nodes = {n1}
    Classes <- MCClasses
    Reports <- MCReports
    HealthStates <- MCHealthy
    MaxGen = 0
    Unit = 1
    MaxAmount = 4
    ReservationIds = {v1}
    Intervals <- MCOneInterval
    Holds <- MCOneHold
    ReleaseSources = {}
    ReleaseTimes = {}
    Credits = {}
    DemandIds = {q1}
    LinkIds = {}
    ForecastTimes = {}
    Forecasts = {}
    FactGens = {1}
    MaxHistory = 0
    Demands <- MCDemands
    Additions <- MCAdditions
    Bookings <- MCBookings
    Horizon = 3
    ByteMax = 3
SPECIFICATION Lifetime
INVARIANTS NowWithinTimeline DeathNeverHelps ScenarioMonotone EmptyScenarioAgrees FragmentationIsSound WireNeverTightens
