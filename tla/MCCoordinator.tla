----------------------------- MODULE MCCoordinator -----------------------------
(***************************************************************************)
(* Instances of Coordinator for TLC.                                       *)
(***************************************************************************)
EXTENDS Coordinator, Reference, TLC

CONSTANTS w1, w2, b1, b2, r1, d1, n1, c1, k1, k2, k3

MCReports == {makeResource(d1, n1, c1, 1, 1, <<1>>, "Healthy")}
MCHealthStates == {"Healthy"}

\* Neither connections nor ids are told apart; sound for safety only.
MCSymmetry == Permutations(Conns) \cup Permutations(Workers) \cup Permutations(Boots)

=============================================================================
