\* One resource, one reservation at two generations and one forecast, with saves, restarts,
\* and loads over the state of a process that went on after the save.
CONSTANTS
    w1 = w1 w2 = w2 b1 = b1 b2 = b2 r1 = r1 r2 = r2 d1 = d1 n1 = n1 c1 = c1
    v1 = v1 v2 = v2 f1 = f1 f2 = f2 q1 = q1 l1 = l1 l2 = l2
    NoWorker = NoWorker NoBoot = NoBoot
    Workers = {w1}
    Boots = {b1}
    ResourceIds = {r1}
    DeviceIds = {d1}
    Nodes = {n1}
    Classes = {c1}
    Reports <- MCOneReport
    HealthStates <- MCOneHealth
    MaxGen = 1
    Unit = 2
    MaxAmount = 3
    ReservationIds = {v1}
    Intervals <- MCIntervalsAndDefault
    Holds <- MCMixedHold
    ReleaseSources = {}
    ReleaseTimes = {}
    Credits = {}
    DemandIds = {}
    LinkIds = {}
    ForecastTimes = {1}
    Forecasts <- MCForecasts
    FactGens = {1, 2}
    MaxHistory = 1
SPECIFICATION ReloadSpec
INVARIANTS CurrentAtFence LedgerWithinFence SecondRestartChangesNothing
PROPERTIES FencesKept
