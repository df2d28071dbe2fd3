\* Two reservations and a release, in every publication order, and every request up to the
\* horizon.
CONSTANTS
    v1 = v1 v2 = v2 v3 = v3 f1 = f1 f2 = f2
    Unit = 1
    MaxAmount = 3
    ReservationIds = {v1, v2}
    Intervals <- MCIntervals
    Holds <- MCHolds
    ReleaseSources = {f1}
    ReleaseTimes <- MCReleaseTimes
    Credits <- MCCredits
    DemandIds = {}
    LinkIds = {}
    ForecastTimes = {}
    Forecasts = {}
    FactGens = {1}
    MaxHistory = 0
    Base <- MCBase
    Horizon = 4
    Requirements <- MCRequirements
SPECIFICATION Spec
INVARIANTS CurveIsSound ModesOrdered FitIsSound MatchesReference
