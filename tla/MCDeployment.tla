------------------------------ MODULE MCDeployment ------------------------------
(***************************************************************************)
(* Instances of Deployment for TLC.                                        *)
(***************************************************************************)
EXTENDS Deployment, Reference, TLC

CONSTANTS w1, b1, b2, r1, d1, n1, c1, k1, k2, k3

MCReports == {makeResource(d1, n1, c1, 1, 1, <<1>>, "Healthy")}
MCHealthStates == {"Healthy"}

Process(w, b) == [worker |-> w, boot |-> b]

MCTwoWorkersAndDriver == k1 :> Process(w1, b1) @@ k2 :> Process(w1, b2) @@ k3 :> Driver

MCOneWorker == w1 :> r1

=============================================================================
