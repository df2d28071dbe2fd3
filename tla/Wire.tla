---------------------------------- MODULE Wire ----------------------------------
(***************************************************************************)
(* What the marshalling of protocol/payload.hpp makes of the values the    *)
(* coordinator takes from a connection: each operator is one write by the  *)
(* client followed by the matching read by the coordinator.  None of them  *)
(* is the identity.                                                        *)
(***************************************************************************)
EXTENDS CapacityModel

\* setAmount erases a zero that writeCapacity wrote.
SentCapacity(c) == [d \in {e \in DOMAIN c : c[e] # 0} |-> c[d]]

\* A ResourceInfo, but for its id, its generation and its source, which are unchanged.
SentReport(p) ==
    [p EXCEPT !.nominal = SentCapacity(@), !.free = SentCapacity(@),
              !.committed = SentCapacity(@), !.unavailable = SentCapacity(@)]

\* Only the accelerator count of a hold or a release is written, even if it is 0.
Accelerators(delta) == [d \in {"acc"} |-> Amount(delta, "acc")]

\* readReservation refuses an invalid interval; anything else is accepted.
SentReservation(r) == [r EXCEPT !.hold = Accelerators(@)]

SentRelease(e) == [e EXCEPT !.release = Accelerators(@)]

\* Mutant of SentDemand: the two counts are read in the wrong order.
SentDemandSwapped(q) ==
    [identified |-> q.identified, requirements |-> SentCapacity(q.requirements),
     minAccelerators |-> q.minContiguousVram,
     requiresContiguousVram |-> q.requiresContiguousVram,
     minContiguousVram |-> q.minAccelerators,
     topologyGroupSize |-> {}, allowedClasses |-> {}, requiredCapability |-> {},
     sloHeadroom |-> 0, maxAcceptableFragmentation |-> {}]

\* Six fields of a demand are written; the others have their defaults, which constrain
\* nothing.
SentDemand(q) ==
    [identified |-> q.identified, requirements |-> SentCapacity(q.requirements),
     minAccelerators |-> q.minAccelerators,
     requiresContiguousVram |-> q.requiresContiguousVram,
     minContiguousVram |-> q.minContiguousVram,
     topologyGroupSize |-> {}, allowedClasses |-> {}, requiredCapability |-> {},
     sloHeadroom |-> 0, maxAcceptableFragmentation |-> {}]

-----------------------------------------------------------------------------
(* Properties.                                                             *)

\* A ledger whose entries came over the wire survives a save and a load whole, in order
\* and with its fences: what the file drops is what the wire had already dropped.  The
\* two formats are written in two places of the code (payload.hpp readReservation and
\* readRelease against model.cpp save and load).
WireLedgerReconstructs ==
    LET rsv   == [i \in 1 .. Len(reservations) |-> SentReservation(reservations[i])]
        rel   == [i \in 1 .. Len(releases) |-> SentRelease(releases[i])]
        image == Image(resources, rsv, rel, forecastHistory)
    IN  (\A i \in 1 .. Len(rsv) : ValidInterval(rsv[i].interval)) =>
            /\ Loadable(image)
            /\ RestoredReservations(image, Len(image.reservations)) = rsv
            /\ RestoredTracker(rsv) = reservationGen
            /\ RestoredReleases(image) = rel

=============================================================================
