-------------------------------- MODULE Ledger --------------------------------
(***************************************************************************)
(* The facts CapacityModel takes from other fabrics and keeps verbatim     *)
(* (src/model/model.cpp): reservations, expected releases, demand          *)
(* profiles, the topology, and the forecast history.                       *)
(*                                                                         *)
(* reservations_ and releases_ are vectors: publishing replaces the entry  *)
(* with the same id by erasing it and pushing the new one at the back, so  *)
(* the order is the order of the last publications.                        *)
(***************************************************************************)
EXTENDS Generations, Capacity, Sequences

CONSTANTS ReservationIds,
          Intervals,        \* [start, end] records a reservation may carry
          Holds,            \* CapacityDeltas a reservation may hold
          ReleaseSources,   \* ForecastSourceIds
          ReleaseTimes,     \* [time, earliest, latest] records
          Credits,          \* CapacityDeltas a release returns
          DemandIds,
          LinkIds,
          ForecastTimes,
          Forecasts,        \* capacities a forecast or an observation carries
          FactGens,         \* bound: generations these facts may carry
          MaxHistory        \* bound: length of the forecast history

ASSUME FactBounds == FactGens \subseteq Nat /\ MaxHistory \in Nat
ASSUME FactAmounts ==
    /\ Holds \subseteq CapacitySpace
    /\ Credits \subseteq CapacitySpace
    /\ Forecasts \subseteq CapacitySpace

VARIABLES reservations,     \* vector of reservations
          reservationGen,   \* tracker: current generation per reservation id
          releases,         \* vector of release events
          demands,          \* demand id -> generation of the registered profile
          topologyGen,      \* tracker of the one topology, TopologyId(1)
          topoGen,          \* the generation recorded beside the links
          links,            \* link -> topology generation that last reported it
          forecastHistory   \* vector of [at, expected, observed]

ledgerVars == <<reservations, reservationGen, releases, demands, topologyGen,
                topoGen, links, forecastHistory>>

Strengths == {"Hard", "Soft"}

Reservation ==
    [id : ReservationIds, gen : Nat, interval : Intervals, hold : CapacitySpace,
     strength : Strengths]

ReleaseEvent == [src : ReleaseSources, at : ReleaseTimes, release : CapacitySpace]

Forecast == [at : ForecastTimes, expected : CapacitySpace, observed : CapacitySpace]

LedgerTypeOK ==
    /\ reservations \in Seq(Reservation)
    /\ reservationGen \in [ReservationIds -> Nat]
    /\ releases \in Seq(ReleaseEvent)
    /\ DOMAIN demands \subseteq DemandIds
    /\ \A id \in DOMAIN demands : demands[id] \in Nat
    /\ topologyGen \in Nat
    /\ topoGen \in Nat
    /\ DOMAIN links \subseteq LinkIds
    /\ \A l \in DOMAIN links : links[l] \in Nat
    /\ forecastHistory \in Seq(Forecast)

-----------------------------------------------------------------------------
(* erase(remove_if(same key)) followed by push_back.  At most one element  *)
(* matches, because every earlier publication erased its predecessor:      *)
(* ReservationLedger and ReleaseLedger below state that.                   *)

Without(s, i) == [j \in 1 .. Len(s) - 1 |-> IF j < i THEN s[j] ELSE s[j + 1]]

Erase(s, i) == IF i \in 1 .. Len(s) THEN Without(s, i) ELSE s

\* Mutant of ReservationIndex: an iterator to the last entry when nothing matches.
ReservationIndexOrLast(s, id) ==
    IF \E i \in 1 .. Len(s) : s[i].id = id
      THEN CHOOSE i \in 1 .. Len(s) : s[i].id = id
      ELSE Len(s)

ReservationIndex(s, id) ==
    IF \E i \in 1 .. Len(s) : s[i].id = id
      THEN CHOOSE i \in 1 .. Len(s) : s[i].id = id
      ELSE 0

ReleaseIndex(s, src) ==
    IF \E i \in 1 .. Len(s) : s[i].src = src
      THEN CHOOSE i \in 1 .. Len(s) : s[i].src = src
      ELSE 0

-----------------------------------------------------------------------------
LedgerInit ==
    /\ reservations = <<>>
    /\ reservationGen = [id \in ReservationIds |-> 0]
    /\ releases = <<>>
    /\ demands = [id \in {} |-> 0]
    /\ topologyGen = 0
    /\ topoGen = 0
    /\ links = [l \in {} |-> 0]
    /\ forecastHistory = <<>>

\* Mutant of publishReservation: push_back without the erase.
publishReservationTwice(res) ==
    /\ ~Stale(reservationGen[res.id], res.gen)
    /\ reservationGen' = advance(reservationGen, res.id, res.gen)
    /\ reservations' = Append(reservations, res)
    /\ UNCHANGED <<releases, demands, topologyGen, topoGen, links, forecastHistory>>

publishReservation(res) ==
    /\ ~Stale(reservationGen[res.id], res.gen)
    /\ reservationGen' = advance(reservationGen, res.id, res.gen)
    /\ reservations' = Append(Erase(reservations, ReservationIndex(reservations, res.id)), res)
    /\ UNCHANGED <<releases, demands, topologyGen, topoGen, links, forecastHistory>>

\* Mutant of publishRelease: push_back without the erase.
publishReleaseTwice(rel) ==
    /\ releases' = Append(releases, rel)
    /\ UNCHANGED <<reservations, reservationGen, demands, topologyGen, topoGen,
                   links, forecastHistory>>

publishRelease(rel) ==
    /\ releases' = Append(Erase(releases, ReleaseIndex(releases, rel.src)), rel)
    /\ UNCHANGED <<reservations, reservationGen, demands, topologyGen, topoGen,
                   links, forecastHistory>>

registerDemand(id, g) ==
    /\ ~(id \in DOMAIN demands /\ Stale(demands[id], g))
    /\ demands' = Put(demands, id, g)
    /\ UNCHANGED <<reservations, reservationGen, releases, topologyGen, topoGen,
                   links, forecastHistory>>

\* Links absent from the new topology are kept: the code only overwrites.
registerTopology(reported, g) ==
    /\ ~Stale(topologyGen, g)
    /\ topologyGen' = g
    /\ topoGen' = g
    /\ links' = [l \in DOMAIN links \cup reported |-> IF l \in reported THEN g ELSE links[l]]
    /\ UNCHANGED <<reservations, reservationGen, releases, demands, forecastHistory>>

recordForecast(at, c) ==
    /\ Len(forecastHistory) < MaxHistory
    /\ forecastHistory' = Append(forecastHistory,
                            [at |-> at, expected |-> c, observed |-> NoCapacity])
    /\ UNCHANGED <<reservations, reservationGen, releases, demands, topologyGen,
                   topoGen, links>>

\* Only the first forecast made for the time takes the observation.
recordObserved(at, c) ==
    \E i \in 1 .. Len(forecastHistory) :
        /\ forecastHistory[i].at = at
        /\ \A j \in 1 .. i - 1 : forecastHistory[j].at # at
        /\ forecastHistory' = [forecastHistory EXCEPT ![i].observed = c]
        /\ UNCHANGED <<reservations, reservationGen, releases, demands, topologyGen,
                       topoGen, links>>

ReservationNext ==
    \E id \in ReservationIds, g \in FactGens, v \in Intervals, h \in Holds, s \in Strengths :
        publishReservation([id |-> id, gen |-> g, interval |-> v, hold |-> h, strength |-> s])

ReleaseNext ==
    \E src \in ReleaseSources, t \in ReleaseTimes, c \in Credits :
        publishRelease([src |-> src, at |-> t, release |-> c])

ProfileNext ==
    \/ \E id \in DemandIds, g \in FactGens : registerDemand(id, g)
    \/ \E reported \in SUBSET LinkIds, g \in FactGens : registerTopology(reported, g)

HistoryNext ==
    \/ \E t \in ForecastTimes, c \in Forecasts : recordForecast(t, c)
    \/ \E t \in ForecastTimes, c \in Forecasts : recordObserved(t, c)

LedgerNext == ReservationNext \/ ReleaseNext \/ ProfileNext \/ HistoryNext

-----------------------------------------------------------------------------
(* Properties.                                                             *)

\* The vector holds each reservation id once, at the generation the tracker
\* records; and the tracker knows no reservation the vector has lost.  Publishing
\* (erase, push_back, advance) and load (push_back, advance) must keep the two
\* containers in step: model.cpp publishReservation and load.
ReservationLedger ==
    /\ \A i, j \in 1 .. Len(reservations) :
          reservations[i].id = reservations[j].id => i = j
    /\ \A i \in 1 .. Len(reservations) :
          reservationGen[reservations[i].id] = reservations[i].gen
    /\ \A id \in ReservationIds :
          reservationGen[id] # 0 => \E i \in 1 .. Len(reservations) : reservations[i].id = id

\* A forecast source has at most one expected release in the vector, so a source
\* that revises its forecast is never credited twice: model.cpp publishRelease.
ReleaseLedger ==
    \A i, j \in 1 .. Len(releases) : releases[i].src = releases[j].src => i = j

=============================================================================
