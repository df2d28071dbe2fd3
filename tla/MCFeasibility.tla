----------------------------- MODULE MCFeasibility -----------------------------
(***************************************************************************)
(* Instances of Feasibility for TLC: two resources, on one device or on    *)
(* two, reported whole, fragmented, failed or drained by two workers.      *)
(***************************************************************************)
EXTENDS Feasibility, Reference, TLC

CONSTANTS w1, w2, b1, d1, d2, n1, v1, v2, f1, q1

MCClass == [name |-> "a100", architecture |-> "sm_80", features |-> {"sm_80", "tensor"}]
MCClasses == {MCClass}

Whole1 == makeResource(d1, n1, MCClass, 2, 2, <<2>>, "Healthy")
Whole2 == makeResource(d2, n1, MCClass, 2, 2, <<2>>, "Healthy")
Split2 == makeResource(d2, n1, MCClass, 2, 2, <<1, 1>>, "Healthy")
Busy2 == [Whole2 EXCEPT !.free = "vram" :> 1, !.blocks = <<1>>, !.committed = "acc" :> 1]
Failed2 == [Whole2 EXCEPT !.health = "Failed"]
\* Blocks whose sum is past ByteMax before the last, largest one is reached.
Overflowing2 == makeResource(d2, n1, MCClass, 3, 3, <<1, 1, 2>>, "Healthy")
Drained1 == [Whole1 EXCEPT !.drained = TRUE]

MCReports == {Whole1, Whole2, Split2, Busy2, Overflowing2}
MCFaultyReports == {Whole1, Failed2, Drained1}
MCWholeOrBusy == {Whole1, Busy2}
MCHealthy == {"Healthy"}
MCHealthStates == {"Healthy", "Failed"}
MCAdditions == {Whole1, Split2}

Window(s, e) == [start |-> s, end |-> e]
MCTwoIntervals == {Window(0, 2), Window(1, 2)}
MCOneInterval == {Window(0, 1)}
MCOneHold == {"acc" :> 1 @@ "bw" :> 1}
MCReleaseTimes == {[time |-> 1, earliest |-> 0, latest |-> 2]}
MCCredits == {"acc" :> 1}
MCBookings == {[makeReservation(v2, 1, Window(0, 2), 1, "Hard") EXCEPT
                  !.hold = "acc" :> 1 @@ "bw" :> 1]}

OneDevice == makeDemand(1, 1, FALSE, 0)
Pair == [makeDemand(2, 2, FALSE, 0) EXCEPT
           !.topologyGroupSize = {2}, !.requiredCapability = {"tensor"}]
TwoOfOne == makeDemand(1, 2, FALSE, 0)
Block == [makeDemand(0, 1, TRUE, 2) EXCEPT !.requirements = "vram" :> 2]
Unbroken == [Block EXCEPT !.maxAcceptableFragmentation = {40}]
Guarded == [OneDevice EXCEPT !.sloHeadroom = 10]
Network == [OneDevice EXCEPT !.requirements = "bw" :> 1]
Otherwise == [OneDevice EXCEPT !.allowedClasses = {<<"sm_90", "h100">>}]
Malformed == makeDemand(1, 0, FALSE, 0)

MCDemands == {OneDevice, Pair, TwoOfOne, Block, Unbroken, Guarded, Network, Otherwise, Malformed}

=============================================================================
