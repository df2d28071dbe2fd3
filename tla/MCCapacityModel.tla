---------------------------- MODULE MCCapacityModel ----------------------------
(***************************************************************************)
(* Instances of CapacityModel for TLC.  The .cfg files choose which parts  *)
(* of the state are exercised: an empty id set switches a part off.        *)
(***************************************************************************)
EXTENDS Reload, Reference, TLC

CONSTANTS w1, w2, b1, b2, r1, r2, d1, n1, c1, v1, v2, f1, f2, q1, l1, l2

\* Two payloads for one device: healthy with free capacity (and a fractional
\* amount of VRAM when Unit > 1), and failed with none.
Healthy == [makeResource(d1, n1, c1, 2, 0, <<1>>, "Healthy") EXCEPT !.nominal["vram"] = 3]

Failed == [Healthy EXCEPT !.health = "Failed", !.free = NoCapacity, !.blocks = <<>>]

MCReports == {Healthy, Failed}
MCOneReport == {Healthy}
MCHealthStates == {"Healthy", "Failed"}
MCOneHealth == {"Healthy"}

Window(s, e) == [start |-> s, end |-> e]

MCIntervals == {Window(0, 1), Window(1, 3)}
MCIntervalsAndDefault == {Window(1, 3), Window(0, 0)}
MCMixedHold == {"acc" :> 1 @@ "vram" :> 2}
MCReleaseTimes == {[time |-> 2, earliest |-> 1, latest |-> 3]}
MCForecasts == {"acc" :> 3}

=============================================================================
