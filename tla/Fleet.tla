--------------------------------- MODULE Fleet ---------------------------------
(***************************************************************************)
(* Questions about the fleet as it is now, asked of a FleetView            *)
(* (model/view.hpp) that is built once and then only read:                 *)
(* query/feasibility.hpp, fragmentation/fragmentation.hpp,                 *)
(* headroom/headroom.hpp and scenario/scenario.hpp.                        *)
(*                                                                         *)
(* view.devices and view.resources are functions from positions: every use *)
(* of the two vectors counts, sums or searches them, in no matter which    *)
(* order.  An optional field is a set with at most one element; fractions  *)
(* are percentages; an outcome stands for its bottleneck too.              *)
(*                                                                         *)
(* A device class is [name, architecture, features]: features are the      *)
(* strings a demand may require that occur in one of its three texts.      *)
(***************************************************************************)
EXTENDS Timeline, Sums

CONSTANT ByteMax    \* bound: the largest ByteCount, where byte sums saturate
ASSUME ByteMaxNat == ByteMax \in Nat

\* The outcomes that say yes.
Fits == {"FitNow", "FitFuture"}

\* The sum of a family of capacities, added one after the other.
Total(f) ==
    [d \in UNION {DOMAIN f[i] : i \in DOMAIN f} |-> SumOf([i \in DOMAIN f |-> Amount(f[i], d)])]

currentUse(nominal, available, committed, unavailable) ==
    subtractClamp(subtractClamp(subtractClamp(nominal, available), committed), unavailable)

\* The device a report describes.  Of the two flags, buildView copies neither.
DeviceInfo(p, drained, maintenance) ==
    [node |-> p.node, class |-> p.class, vramFree |-> Whole(Amount(p.free, "vram")),
     freeBlocks |-> p.blocks, health |-> p.health, drained |-> drained,
     maintenance |-> maintenance]

-----------------------------------------------------------------------------
(* Fragmentation.                                                          *)

\* A sum of ByteCounts: once ByteCount::add has refused, the sum is the largest count.
Saturated(bytes) == Lesser(bytes, ByteMax)

\* The blocks analyzeDeviceMemory looks at: it stops at the one whose sum overflows.
SummedBlocks(blocks) ==
    {i \in DOMAIN blocks : SumOf(Restrict(blocks, 1 .. i)) <= ByteMax}

\* Mutant of shapeSatisfiable: the total is compared, not the largest block.
shapeSatisfiableInTotal(blocks, required) ==
    required = 0 \/ Saturated(SumOf(blocks)) >= required

\* A block as large as required is free ...
shapeSatisfiable(blocks, required) ==
    required = 0 \/ \E i \in SummedBlocks(blocks) : blocks[i] >= required

\* ... and what of the free memory such a shape can use.
usableForShape(blocks, required) ==
    IF required = 0 THEN Saturated(SumOf(blocks))
    ELSE IF shapeSatisfiable(blocks, required)
      THEN Max({blocks[i] : i \in SummedBlocks(blocks)})
    ELSE 0

\* analyzeFragmentation's test of a device: unlike deviceCurrentlyUsable it admits a
\* device that is Draining or in Maintenance by its health, and looks at both flags.
ShapeUsable(d, required) ==
    /\ shapeSatisfiable(d.freeBlocks, required)
    /\ d.health \notin {"Failed", "Unknown"}
    /\ ~d.drained
    /\ ~d.maintenance

analyzeFragmentation(devices, q) ==
    LET usable == {i \in DOMAIN devices : ShapeUsable(devices[i], q.minContiguousVram)}
        free   == [i \in DOMAIN devices |-> devices[i].vramFree]
        fits   == [i \in usable |->
                     usableForShape(devices[i].freeBlocks, q.minContiguousVram)]
    IN  [total |-> Saturated(SumOf(free)), usable |-> Saturated(SumOf(fits)),
         stranded |-> Saturated(SumOf(Restrict(free, DOMAIN devices \ usable)))]

\* fragmentationRatio > limit: the ratio is 0 without a block size or free memory.
TooFragmented(devices, q, limit) ==
    LET fr == analyzeFragmentation(devices, q)
    IN  /\ fr.total > 0
        /\ q.minContiguousVram > 0
        /\ 100 * fr.stranded > limit * fr.total

-----------------------------------------------------------------------------
(* Feasibility now.                                                        *)

\* WorkloadDemand::valid; identified stands for a valid id and generation.
validDemand(q) ==
    /\ q.identified
    /\ q.minAccelerators # 0
    /\ q.requiresContiguousVram => q.minContiguousVram # 0
    /\ q.maxAcceptableFragmentation \subseteq 0 .. 100

deviceCompatible(d, q) ==
    /\ q.requiredCapability \subseteq d.class.features
    /\ \/ q.allowedClasses = {}
       \/ <<d.class.architecture, d.class.name>> \in q.allowedClasses

deviceCurrentlyUsable(d, q) ==
    /\ deviceCompatible(d, q)
    /\ d.health \notin {"Failed", "Draining", "Maintenance", "Unknown"}
    /\ ~d.drained

\* The largest topology-local group of the usable devices has at least n of them;
\* a group is a class name on a node.
HasGroup(devices, usable, n) ==
    \E i \in usable :
        Cardinality({j \in usable :
            /\ devices[j].class.name = devices[i].class.name
            /\ devices[j].node = devices[i].node}) >= n

\* The dimensions a hold really takes something of (setAmount erases the others).
Taken(hold) == [d \in {e \in DOMAIN hold : hold[e] # 0} |-> hold[d]]

\* The hard reservations that hold at view.now.
HeldNow(view) ==
    {i \in 1 .. Len(view.reservations) :
        /\ view.reservations[i].strength = "Hard"
        /\ view.reservations[i].interval.start <= view.now
        /\ view.now < view.reservations[i].interval.end}

\* Mutants of Effective: reservations are ignored, or returned instead of subtracted.
EffectiveUnreserved(view) == view.available
EffectiveReturned(view) ==
    Plus(view.available, Total([i \in HeldNow(view) |-> Taken(view.reservations[i].hold)]))

\* evaluateNow's effective capacity.  Clamping once, or after each hold, is the same.
Effective(view) ==
    subtractClamp(view.available,
                  Total([i \in HeldNow(view) |-> Taken(view.reservations[i].hold)]))

\* The outcome for the first missing dimension, in the order of the enumeration.
Shortage(missing) ==
    IF "acc" \in missing THEN "NoFitCapacity"
    ELSE IF "vram" \in missing THEN "NoFitMemory"
    ELSE "NoFitBandwidth"

\* No dimension is left at zero once the demand is placed, and the obligation is
\* at most a half.
SloHeadroomLeft(effective, q) ==
    LET after == subtractClamp(effective, q.requirements)
    IN  (\A d \in DOMAIN after : after[d] > 0) /\ q.sloHeadroom <= 50

evaluateNow(view, q) ==
    LET usable    == {i \in DOMAIN view.devices : deviceCurrentlyUsable(view.devices[i], q)}
        effective == Effective(view)
        missing   == missingDimensions(effective, q.requirements)
    IN  IF ~validDemand(q) THEN "Unknown"
        ELSE IF view.freshness # "Fresh" THEN view.freshness
        ELSE IF \E n \in q.topologyGroupSize : ~HasGroup(view.devices, usable, n)
          THEN "NoFitTopology"
        ELSE IF Cardinality(usable) < q.minAccelerators THEN "NoFitCapacity"
        ELSE IF /\ q.requiresContiguousVram
                /\ \A i \in usable :
                     ~shapeSatisfiable(view.devices[i].freeBlocks, q.minContiguousVram)
          THEN "NoFitFragmentation"
        ELSE IF missing # {} THEN Shortage(missing)
        ELSE IF \E limit \in q.maxAcceptableFragmentation :
                  TooFragmented(view.devices, q, limit)
          THEN "NoFitFragmentation"
        ELSE IF q.sloHeadroom > 0 /\ ~SloHeadroomLeft(effective, q) THEN "NoFitSloHeadroom"
        ELSE "FitNow"

-----------------------------------------------------------------------------
(* Headroom.                                                               *)

\* Its conservative headroom; the margins are all the safety margin.
computeHeadroom(raw, used, committed, safetyMargin) ==
    subtractClamp(subtractClamp(subtractClamp(raw, used), committed), safetyMargin)

-----------------------------------------------------------------------------
(* Scenarios.  Before the view is aggregated again its devices are keyed   *)
(* by device id.                                                           *)

\* A position after the last: push_back.
Fresh(f) == 1 + Max({0} \cup DOMAIN f)

RemoveResource(v, r) ==
    LET gone == {i \in DOMAIN v.resources : v.resources[i].id = r}
    IN  [v EXCEPT
           !.resources = Restrict(@, DOMAIN @ \ gone),
           !.devices = Restrict(@, DOMAIN @ \ {v.resources[i].report.device : i \in gone})]

AddResource(v, x) ==
    LET last == Fresh(v.resources)
    IN  [v EXCEPT !.resources =
           [i \in DOMAIN @ \cup {last} |-> IF i = last THEN x ELSE @[i]]]

\* erase(remove_if): those with another id, in their order.
CancelReservation(v, id) ==
    LET rsv == v.reservations
        kept[i \in 0 .. Len(rsv)] ==
            IF i = 0 THEN <<>>
            ELSE IF rsv[i].id # id THEN Append(kept[i - 1], rsv[i])
            ELSE kept[i - 1]
    IN  [v EXCEPT !.reservations = kept[Len(rsv)]]

AddReservation(v, r) == [v EXCEPT !.reservations = Append(@, r)]

DelayRelease(v, src, delay) ==
    [v EXCEPT !.releases =
        [i \in DOMAIN @ |->
            IF @[i].src # src THEN @[i]
            ELSE [@[i] EXCEPT !.at = [k \in DOMAIN @ |-> @[k] + delay]]]]

\* Every device that some resource is on fails: the action names a resource, and
\* the code does not look at it.
DegradeDevice(v) ==
    LET hit(i) == v.resources[i].report.device \in DOMAIN v.devices
    IN  [v EXCEPT !.resources =
           [i \in DOMAIN @ |-> IF hit(i) THEN [@[i] EXCEPT !.report.health = "Failed"] ELSE @[i]]]

applyAction(v, a) ==
    CASE a.kind = "RemoveResource"    -> RemoveResource(v, a.resource)
      [] a.kind = "AddResource"       -> AddResource(v, a.added)
      [] a.kind = "CancelReservation" -> CancelReservation(v, a.reservation)
      [] a.kind = "AddReservation"    -> AddReservation(v, a.addReservation)
      [] a.kind = "DelayRelease"      -> DelayRelease(v, a.source, a.delay)
      [] a.kind = "DegradeDevice"     -> DegradeDevice(v)
      [] a.kind \in {"SetHeadroom", "MoveMaintenance"} -> v

\* The test of a resource when the modified view is aggregated again.
ScenarioUsable(p) == p.health \notin {"Failed", "Unknown"} /\ ~p.drained /\ ~p.maintenance

\* Mutant of Reaggregated: the old totals are not cleared first.
ReaggregatedOnTop(v) ==
    LET report(i) == v.resources[i].report
        usable    == {i \in DOMAIN v.resources : ScenarioUsable(report(i))}
    IN  [v EXCEPT
           !.devices = [i \in DOMAIN v.resources |->
                          DeviceInfo(report(i), report(i).drained, report(i).maintenance)],
           !.available = Plus(@, Total([i \in usable |-> report(i).free]))]

\* One device per resource, whatever device the resource is on; and neither the
\* worker nor the incarnation behind a resource is looked at.
Reaggregated(v) ==
    LET report(i) == v.resources[i].report
        usable    == {i \in DOMAIN v.resources : ScenarioUsable(report(i))}
        available == Total([i \in usable |-> report(i).free])
        nominal   == Total([i \in DOMAIN v.resources |-> report(i).nominal])
        committed == Total([i \in DOMAIN v.resources |-> report(i).committed])
        unavailable == Total([i \in DOMAIN v.resources |-> report(i).unavailable])
    IN  [v EXCEPT
           !.devices = [i \in DOMAIN v.resources |->
                          DeviceInfo(report(i), report(i).drained, report(i).maintenance)],
           !.available = available,
           !.nominal = nominal,
           !.committed = committed,
           !.unavailable = unavailable,
           !.currentUse = currentUse(nominal, available, committed, unavailable)]

applyScenario(base, actions) ==
    LET done[n \in 0 .. Len(actions)] ==
            IF n = 0 THEN base ELSE applyAction(done[n - 1], actions[n])
    IN  Reaggregated(done[Len(actions)])

=============================================================================
