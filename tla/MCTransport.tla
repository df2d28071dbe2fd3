------------------------------ MODULE MCTransport ------------------------------
(***************************************************************************)
(* Instances of Transport for TLC.                                         *)
(***************************************************************************)
EXTENDS Transport

\* An empty payload, one that looks like the start of a frame, and one too long.
MCMessages ==
    {[tag |-> 1, payload |-> <<>>],
     [tag |-> 0, payload |-> <<Magic, Version>>],
     [tag |-> 1, payload |-> <<0, 0, 0>>]}

=============================================================================
