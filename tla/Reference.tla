------------------------------- MODULE Reference -------------------------------
(***************************************************************************)
(* The reference adapters' builders (adapters/reference.hpp): what the     *)
(* worker process, the command line tool and the tests publish and ask     *)
(* for.  The instances take their facts from here, so that they are facts  *)
(* a source can send.                                                      *)
(***************************************************************************)
EXTENDS Capacity

\* One accelerator, and the memory given.
makeResource(device, node, class, vramNominal, vramFree, blocks, health) ==
    LET withVram(v) == setAmount(setAmount(NoCapacity, "vram", v), "acc", Unit)
    IN  [device |-> device, node |-> node, class |-> class, health |-> health,
         nominal |-> withVram(vramNominal), free |-> withVram(vramFree),
         committed |-> NoCapacity, unavailable |-> NoCapacity, blocks |-> blocks,
         drained |-> health = "Draining", maintenance |-> health = "Maintenance"]

makeReservation(id, gen, interval, units, strength) ==
    [id |-> id, gen |-> gen, interval |-> interval, strength |-> strength,
     hold |-> [d \in {"acc"} |-> units]]

\* A demand with every other field at its default.
makeDemand(units, minAccels, requireContiguous, minContig) ==
    [identified |-> TRUE, requirements |-> setAmount(NoCapacity, "acc", Whole(units)),
     requiresContiguousVram |-> requireContiguous, minContiguousVram |-> minContig,
     minAccelerators |-> minAccels, topologyGroupSize |-> {}, allowedClasses |-> {},
     requiredCapability |-> {}, sloHeadroom |-> 0, maxAcceptableFragmentation |-> {}]

=============================================================================
