\* Two reservations, one of them possibly with the default (invalid) interval, in every
\* publication order, with saves and restarts, beside topology registrations.
CONSTANTS
    w1 = w1 w2 = w2 b1 = b1 b2 = b2 r1 = r1 r2 = r2 d1 = d1 n1 = n1 c1 = c1
    v1 = v1 v2 = v2 f1 = f1 f2 = f2 q1 = q1 l1 = l1 l2 = l2
    NoWorker = NoWorker NoBoot = NoBoot
    Workers = {}
    Boots = {}
    ResourceIds = {}
    DeviceIds = {}
    Nodes = {}
    Classes = {}
    Reports = {}
    HealthStates = {}
    MaxGen = 0
    Unit = 2
    MaxAmount = 3
    ReservationIds = {v1, v2}
    Intervals <- MCIntervalsAndDefault
    Holds <- MCMixedHold
    ReleaseSources = {}
    ReleaseTimes = {}
    Credits = {}
    DemandIds = {}
    LinkIds = {l1}
    ForecastTimes = {}
    Forecasts = {}
    FactGens = {0, 1}
    MaxHistory = 0
SPECIFICATION Spec
INVARIANTS ReservationLedger
PROPERTIES ReservationsKept
