------------------------------ MODULE Feasibility ------------------------------
(***************************************************************************)
(* CapacityModel's queries (src/model/model.cpp), asked in every state the *)
(* model can reach: the view buildView takes under the mutex, feasibility  *)
(* now and later, headroom, and what-if scenarios.                         *)
(***************************************************************************)
EXTENDS Wire, Fleet

CONSTANTS Demands,    \* WorkloadDemands asked about
          Additions,  \* reports a scenario adds, and
          Bookings,   \* reservations a scenario adds
          Horizon     \* bound: instants 0 .. Horizon are queried

\* Ids are 64-bit numbers.
ASSUME ResourceIdsOrdered == ResourceIds \subseteq Nat /\ IsFiniteSet(ResourceIds)
ASSUME HorizonNat == Horizon \in Nat

\* The default interval is 0 .. 0, and Interval's constructor refuses a negative start
\* and an end that is not later.
ASSUME IntegerTimes ==
    /\ \A v \in Intervals : v.start \in Nat /\ v.end \in Int /\ v.start <= v.end
    /\ \A a \in ReleaseTimes : a.time \in Int /\ a.earliest \in Int /\ a.latest \in Int

\* What is asked: the amounts and the counts of a demand are not negative, and a scenario
\* adds what could have been published.
ASSUME QuestionsTyped ==
    /\ \A q \in Demands :
          /\ q.requirements \in CapacitySpace
          /\ q.minAccelerators \in Nat /\ q.minContiguousVram \in Nat /\ q.sloHeadroom \in Nat
          /\ q.topologyGroupSize \subseteq Nat /\ q.maxAcceptableFragmentation \subseteq Nat
    /\ Additions \subseteq ReportSpace
    /\ \A b \in Bookings :
          b.interval.start \in Int /\ b.interval.end \in Int /\ b.hold \in CapacitySpace

\* One process, from its start to its end.
Lifetime == Init /\ [][EvidenceStep \/ LedgerStep]_vars

Report(r) == resources[r].report

-----------------------------------------------------------------------------
(* The view.                                                               *)

\* Mutant of available: the test is inverted.
availableNotCurrent(current) ==
    Total([r \in DOMAIN resources \ current |-> Report(r).free])

\* The free capacity of the current resources, whatever their health.
available(current) == Total([r \in current |-> Report(r).free])

\* Mutant of freshness: one record is evidence enough.
freshnessAnyRecord(current) ==
    IF DOMAIN resources = {} THEN "InsufficientEvidence" ELSE "Fresh"

freshness(current) ==
    IF DOMAIN resources = {} THEN "InsufficientEvidence"
    ELSE IF current = {} THEN "RevalidationRequired"
    ELSE "Fresh"

\* resources_ is walked in the order of the ids: of several resources on a device the
\* last one describes it.  Devices of resources that are not current are listed too.
viewDevices ==
    [d \in {Report(r).device : r \in DOMAIN resources} |->
        DeviceInfo(Report(Max({r \in DOMAIN resources : Report(r).device = d})), FALSE, FALSE)]

\* The view when the given resources are the current ones.
View(current, now) ==
    LET nominal     == Total([r \in DOMAIN resources |-> Report(r).nominal])
        committed   == Total([r \in DOMAIN resources |-> Report(r).committed])
        unavailable == Total([r \in DOMAIN resources |-> Report(r).unavailable])
    IN  [devices |-> viewDevices,
         resources |-> [r \in DOMAIN resources |-> [id |-> r, report |-> Report(r)]],
         available |-> available(current), nominal |-> nominal, committed |-> committed,
         unavailable |-> unavailable,
         currentUse |-> currentUse(nominal, available(current), committed, unavailable),
         reservations |-> reservations, releases |-> releases, now |-> now,
         freshness |-> freshness(current)]

buildView(now) == View(CurrentResources, now)

-----------------------------------------------------------------------------
(* The queries.                                                            *)

queryFeasibilityNow(q) == evaluateNow(buildView(0), q)

viewTimeline(view, mode) ==
    buildTimeline(view.available, view.reservations, view.releases, mode)

\* Mutant of queryFeasibility: the mode is not passed on.
queryFeasibilityOptimistic(q, mode, time) ==
    LET view == buildView(time)
    IN  IF time <= 0 THEN evaluateNow(view, q)
        ELSE IF view.freshness # "Fresh" THEN "RevalidationRequired"
        ELSE IF satisfies(capacityAt(viewTimeline(view, "Optimistic"), time), q.requirements)
          THEN "FitFuture"
        ELSE "NoFitCapacity"

\* Later than now only the totals are compared, and the demand is not validated.
queryFeasibility(q, mode, time) ==
    LET view == buildView(time)
    IN  IF time <= 0 THEN evaluateNow(view, q)
        ELSE IF view.freshness # "Fresh" THEN "RevalidationRequired"
        ELSE IF satisfies(capacityAt(viewTimeline(view, mode), time), q.requirements)
          THEN "FitFuture"
        ELSE "NoFitCapacity"

\* queryCapacity and queryProjectedCapacity
queryCapacity(mode, time) == capacityAt(viewTimeline(buildView(0), mode), time)

queryEarliestFit(q, mode, earliestStart, duration, horizon) ==
    earliestFit(viewTimeline(buildView(0), mode), q.requirements, earliestStart, duration,
                horizon)

\* queryHeadroom of a view
Headroom(view, q) ==
    computeHeadroom(view.available, view.currentUse, view.committed,
                    IF q.sloHeadroom > 0 THEN q.requirements ELSE NoCapacity)

\* The overlay is a copy of the view; mode and time are not used.
evaluateScenario(actions, q) == evaluateNow(applyScenario(buildView(0), actions), q)

-----------------------------------------------------------------------------
(* Properties.                                                             *)

Removals == {[kind |-> "RemoveResource", resource |-> r] : r \in ResourceIds}
Adding == {[kind |-> "AddResource", added |-> [id |-> 1 + Max(ResourceIds), report |-> p]] :
              p \in Additions}
Cancellations == {[kind |-> "CancelReservation", reservation |-> id] : id \in ReservationIds}
Booking == {[kind |-> "AddReservation", addReservation |-> r] : r \in Bookings}
Failure == [kind |-> "DegradeDevice", resource |-> 1]
Delays == {[kind |-> "DelayRelease", source |-> s, delay |-> 1] : s \in ReleaseSources}

\* A demand without a bound on fragmentation: removing a fragmented device lowers
\* the ratio, so such a bound is not monotone.
Plain == {q \in Demands : q.maxAcceptableFragmentation = {}}

\* Before end some release of d is due, or some hold of it ends, in that mode.
ComesFree(mode, d, end) ==
    \/ \E i \in 1 .. Len(releases) :
          releaseTime(releases[i], mode) < end /\ Amount(releases[i].release, d) > 0
    \/ \E i \in 1 .. Len(reservations) :
          /\ Counted(reservations[i], mode)
          /\ reservations[i].interval.end < end /\ Amount(reservations[i].hold, d) > 0

\* Without one current resource queryFeasibility refuses every demand, now and later in
\* any mode, however much stale or restored evidence, reservations or releases there are,
\* and so does a scenario, even one that adds resources.  queryEarliestFit asks for no
\* evidence: what it finds then rests on nothing but the releases due and the holds ending
\* before its window ends, in every dimension required (buildView, evaluateNow,
\* queryFeasibility, evaluateScenario, queryEarliestFit).
NoEvidenceNoFit ==
    CurrentResources = {} =>
        \A q \in Demands :
            /\ \A mode \in Modes, t \in 0 .. Horizon : queryFeasibility(q, mode, t) \notin Fits
            /\ \A a \in Adding : evaluateScenario(<<a>>, q) \notin Fits
            /\ \A mode \in Modes, from \in 0 .. Horizon, dur \in 1 .. Horizon :
                  LET fit == queryEarliestFit(q, mode, from, dur, Horizon)
                  IN  fit.found =>
                        \A d \in DOMAIN q.requirements :
                            q.requirements[d] > 0 => ComesFree(mode, d, fit.end)

\* What fits now is also within the guaranteed capacity of the timeline at this
\* instant: the two ways of accounting for reservations, evaluateNow's subtraction and
\* the clamped events of the timeline, agree on the safe side.
NowWithinTimeline ==
    \A q \in Demands :
        queryFeasibilityNow(q) \in Fits =>
            satisfies(queryCapacity("Guaranteed", 0), q.requirements)

\* Where queryFeasibility says a demand fits at a later time in some mode, the
\* earliest-fit search in that mode finds a start no later (queryFeasibility,
\* queryEarliestFit).
FutureFitHasStart ==
    \A q \in Demands, mode \in Modes, t \in 1 .. Horizon :
        queryFeasibility(q, mode, t) \in Fits =>
            LET fit == queryEarliestFit(q, mode, 0, 1, Horizon + 1)
            IN  fit.found /\ fit.start <= t

\* The free capacity lists only what there is some of.  With a demand for headroom to
\* the SLO a dimension listed at 0 that nobody asks for refuses every demand.
ListsNoZero(p) == \A d \in DOMAIN p.free : p.free[d] > 0

\* The death of some of the workers never makes a demand fit and never raises the
\* conservative headroom: what they reported can only be lost.  A demand with a bound
\* on fragmentation is no exception, since the devices of a dead worker stay in the
\* view (buildView, evaluateNow, computeHeadroom).
DeathNeverHelps ==
    \A dead \in SUBSET Workers, q \in Demands :
        LET before == buildView(0)
            after  == View({r \in CurrentResources : resources[r].worker \notin dead}, 0)
        IN  /\ q.sloHeadroom = 0 \/ (\A r \in CurrentResources : ListsNoZero(Report(r))) =>
                  (evaluateNow(after, q) \in Fits => evaluateNow(before, q) \in Fits)
            /\ \A d \in Dimensions :
                  Amount(Headroom(after, q), d) <= Amount(Headroom(before, q), d)

\* Next to the scenario with no action, a removal, a failure or one more reservation
\* never makes a demand fit, and an addition or a cancellation never stops it fitting;
\* a delayed release changes nothing now (applyScenario, evaluateNow).
ScenarioMonotone ==
    \A q \in Plain :
        LET unchanged == evaluateScenario(<<>>, q) \in Fits
            listed(p) == q.sloHeadroom = 0 \/ ListsNoZero(p)
        IN  /\ (\A r \in DOMAIN resources : listed(Report(r))) =>
                  \A a \in Removals : evaluateScenario(<<a>>, q) \in Fits => unchanged
            /\ \A a \in Booking \cup {Failure} : evaluateScenario(<<a>>, q) \in Fits => unchanged
            /\ \A a \in Adding : unchanged /\ listed(a.added.report) =>
                  evaluateScenario(<<a>>, q) \in Fits
            /\ \A a \in Cancellations : unchanged => evaluateScenario(<<a>>, q) \in Fits
            /\ \A a \in Delays : (evaluateScenario(<<a>>, q) \in Fits) = unchanged

\* Every resource is current, usable, and alone on its device.
Orderly ==
    /\ CurrentResources = DOMAIN resources
    /\ \A r \in DOMAIN resources :
          /\ ScenarioUsable(Report(r))
          /\ \A s \in DOMAIN resources : Report(s).device = Report(r).device => s = r

\* On such a fleet a scenario with no action gives the answer of the query, and so
\* does one that cancels what it has just added (applyScenario against buildView).
EmptyScenarioAgrees ==
    Orderly =>
        \A q \in Demands :
            /\ evaluateScenario(<<>>, q) = queryFeasibilityNow(q)
            /\ \A a \in Adding :
                  evaluateScenario(<<a, [kind |-> "RemoveResource", resource |-> a.added.id]>>, q)
                    = queryFeasibilityNow(q)

\* When the reported blocks add up to the reported free memory, what the shape can use
\* and what is stranded are each within what is free, and together unless the sum of the
\* free memory saturates (analyzeFragmentation's two loops).
FragmentationAccounts ==
    LET view == buildView(0)
        consistent(p) == SumOf(p.blocks) = Whole(Amount(p.free, "vram"))
    IN  (\A r \in DOMAIN resources : consistent(Report(r))) =>
            \A q \in Demands :
                LET fr == analyzeFragmentation(view.devices, q)
                IN  /\ fr.usable <= fr.total
                    /\ fr.stranded <= fr.total
                    /\ fr.usable + fr.stranded <= fr.total \/ fr.total = ByteMax

\* Where the byte sums saturate, the fragmentation ratio is never below the one of exact
\* sums over every block, however inconsistent the reports: an overflow can make a bound
\* on fragmentation refuse a demand, never accept it (analyzeDeviceMemory's early exit
\* and the three saturating sums of analyzeFragmentation).
OverflowNeverHides ==
    LET seen == buildView(0).devices
        free == [i \in DOMAIN seen |-> seen[i].vramFree]
    IN  \A q \in Demands :
            LET fr       == analyzeFragmentation(seen, q)
                open(d)  == /\ d.health \notin {"Failed", "Unknown"}
                            /\ \/ q.minContiguousVram = 0
                               \/ \E i \in DOMAIN d.freeBlocks :
                                     d.freeBlocks[i] >= q.minContiguousVram
                stranded == SumOf(Restrict(free, {i \in DOMAIN seen : ~open(seen[i])}))
            IN  fr.stranded * SumOf(free) >= stranded * fr.total

\* The fragmentation report invents no memory and hides no fragmentation, at the limit
\* of the byte counts too (fragmentation.hpp).
FragmentationIsSound == FragmentationAccounts /\ OverflowNeverHides

\* A report that lists every dimension, the missing ones at 0, as subtractClamp leaves them.
Padded(p) == [p EXCEPT !.free = [d \in Dimensions |-> Amount(@, d)]]

\* What fits here also fits when it is asked over the wire, and a resource that makes a
\* demand fit still does when it is reported over the wire: the fields and the zeroes the
\* marshalling drops only ever constrained (readDemand, readResource, evaluateNow).
WireNeverTightens ==
    \A q \in Demands :
        /\ queryFeasibilityNow(q) \in Fits => queryFeasibilityNow(SentDemand(q)) \in Fits
        /\ \A a \in Adding :
              LET here == [a EXCEPT !.added.report = Padded(@)]
                  sent == [a EXCEPT !.added.report = SentReport(Padded(@))]
              IN  evaluateScenario(<<here>>, q) \in Fits =>
                      /\ evaluateScenario(<<sent>>, q) \in Fits
                      /\ evaluateScenario(<<sent>>, SentDemand(q)) \in Fits

-----------------------------------------------------------------------------
(* What the comments, the tests and the README say; the code does not keep *)
(* these.                                                                  *)

\* freshness.hpp: "stale evidence must never contribute usable capacity".  A demand
\* that fits has its devices among those of live incarnations.
FitsOnLiveDevices ==
    \A q \in Demands :
        queryFeasibilityNow(q) \in Fits =>
            Cardinality({Report(r).device : r \in CurrentResources}) >= q.minAccelerators

\* view.hpp, available: "aggregate usable free (healthy, uncommitted)".
AvailableIsHealthy ==
    \A d \in Dimensions :
        LET healthy == {r \in CurrentResources : Report(r).health \in {"Healthy", "Degraded"}}
        IN  Amount(buildView(0).available, d)
              <= Amount(Total([r \in healthy |-> Report(r).free]), d)

\* README.md: usable capacity is calculated over constraints that include "drain,
\* maintenance".
DrainedNeverFits ==
    (\A r \in DOMAIN resources : Report(r).drained \/ Report(r).maintenance) =>
        \A q \in Demands : queryFeasibilityNow(q) \notin Fits

\* tests/test_property.cpp: "scenario removal never increases physical capacity".
RemovalNeverIncreases ==
    \A a \in Removals, d \in Dimensions :
        Amount(applyScenario(buildView(0), <<a>>).available, d)
          <= Amount(buildView(0).available, d)

\* scenario.hpp, DegradeDevice: "mark a device Failed", the one of the action's resource.
DegradeHitsOne ==
    \A r, s \in DOMAIN resources :
        LET degrade == [kind |-> "DegradeDevice", resource |-> r]
        IN  Report(s).device # Report(r).device =>
                applyScenario(buildView(0), <<degrade>>).resources[s].report.health
                  = Report(s).health

=============================================================================
