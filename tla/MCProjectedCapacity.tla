------------------------- MODULE MCProjectedCapacity -------------------------
(***************************************************************************)
(* Instances of ProjectedCapacity for TLC: a few instants, intervals that  *)
(* overlap, touch and nest, and a base that one or two holds exhaust.      *)
(***************************************************************************)
EXTENDS ProjectedCapacity, TLC

CONSTANTS v1, v2, v3, f1, f2

Window(s, e) == [start |-> s, end |-> e]
Due(e, t, l) == [earliest |-> e, time |-> t, latest |-> l]

MCBase == "acc" :> 2
MCIntervals == {Window(0, 2), Window(1, 2), Window(2, 3)}
MCHolds == {"acc" :> 1, "acc" :> 2}
MCReleaseTimes == {Due(0, 1, 2), Due(1, 2, 3)}
MCCredits == {"acc" :> 1}
MCRequirements == {"acc" :> 1, "acc" :> 2}

=============================================================================
