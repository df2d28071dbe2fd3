\* Two workers with two incarnations each report one resource: every order of
\* registrations, deaths, publications and generations, with saves, torn saves and restarts.
CONSTANTS
    w1 = w1 w2 = w2 b1 = b1 b2 = b2 r1 = r1 r2 = r2 d1 = d1 n1 = n1 c1 = c1
    v1 = v1 v2 = v2 f1 = f1 f2 = f2 q1 = q1 l1 = l1 l2 = l2
    NoWorker = NoWorker NoBoot = NoBoot
    Workers = {w1, w2}
    Boots = {b1, b2}
    ResourceIds = {r1}
    DeviceIds = {d1}
    Nodes = {n1}
    Classes = {c1}
    Reports <- MCReports
    HealthStates <- MCHealthStates
    MaxGen = 2
    Unit = 2
    MaxAmount = 3
    ReservationIds = {}
    Intervals = {}
    Holds = {}
    ReleaseSources = {}
    ReleaseTimes = {}
    Credits = {}
    DemandIds = {}
    LinkIds = {}
    ForecastTimes = {}
    Forecasts = {}
    FactGens = {}
    MaxHistory = 0
SPECIFICATION Spec
INVARIANTS TypeOK GenerationsAgree SurvivesRestart
PROPERTIES FencedNeverRegresses ActivationNeedsIncarnation ImplementsAuthority
