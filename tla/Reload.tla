--------------------------------- MODULE Reload ---------------------------------
(***************************************************************************)
(* CapacityModel::load (src/model/model.cpp) called on a model in use, as  *)
(* its interface allows.  It replaces the resources, the reservations, the *)
(* releases and the forecast history by those of the file and keeps        *)
(* everything else: the live sources, the trackers, the devices, the       *)
(* demands and the topology.  What the file restores thus meets the fences *)
(* of a process that went on after the save.                               *)
(*                                                                         *)
(* load does not take the model's mutex: called while another thread is in *)
(* the model it is a data race.  The calls here come one after the other.  *)
(***************************************************************************)
EXTENDS CapacityModel

\* Mutants of TrackerAfter: the saved generations are not recorded, or stored whatever
\* the tracker holds.
TrackerAfterIgnored(tracker, rsv) == tracker
TrackerAfterStored(tracker, rsv) ==
    [id \in DOMAIN tracker |->
        LET i == ReservationIndex(rsv, id) IN IF i = 0 THEN tracker[id] ELSE rsv[i].gen]

\* reservationGen_.advance for each reservation read: it raises a generation, and it
\* also stores an invalid one (0) over any other.
TrackerAfter(tracker, rsv) ==
    LET after[n \in 0 .. Len(rsv)] ==
            IF n = 0 THEN tracker ELSE advance(after[n - 1], rsv[n].id, rsv[n].gen)
    IN  after[Len(rsv)]

\* What load reads before the reservations, and what it never touches.
ReloadedResources ==
    /\ disk.state = "intact"
    /\ resources' = RestoredResources(disk.image)
    /\ UNCHANGED <<sources, resourceGen, devices, healthGen, demands, topologyGen,
                   topoGen, links, disk>>

\* The first n reservations of the file, read and recorded.
ReloadedReservations(n) ==
    LET rsv == RestoredReservations(disk.image, n)
    IN  /\ reservations' = rsv
        /\ reservationGen' = TrackerAfter(reservationGen, rsv)

reload ==
    /\ ReloadedResources
    /\ Loadable(disk.image)
    /\ ReloadedReservations(Len(disk.image.reservations))
    /\ releases' = RestoredReleases(disk.image)
    /\ forecastHistory' = RestoredHistory(disk.image)
    /\ recovered' = TRUE

\* load returns false at a reservation it cannot read; the model keeps what was read
\* so far, beside the releases and the forecasts it had.
reloadPartly ==
    /\ ReloadedResources
    /\ \E n \in 0 .. Len(disk.image.reservations) - 1 :
          /\ \A i \in 1 .. n : ValidInterval(disk.image.reservations[i].interval)
          /\ ~ValidInterval(disk.image.reservations[n + 1].interval)
          /\ ReloadedReservations(n)
    /\ UNCHANGED <<releases, forecastHistory, recovered>>

ReloadNext == Next \/ reload \/ reloadPartly

ReloadSpec == Init /\ [][ReloadNext]_vars

-----------------------------------------------------------------------------
(* Properties.                                                             *)

\* Whatever is loaded over whatever state, evidence that counts as current stands at
\* the generation its resource is fenced by, never behind it: an older record that
\* comes back from a file is not current (load, publishResource, buildView).
CurrentAtFence == \A r \in CurrentResources : resources[r].gen = resourceGen[r]

\* The ledger load leaves, in a fresh model or over a used one, holds each reservation
\* once and none newer than its fence: the next publication of the owner replaces the
\* entry that came back, and is not refused by it (load, publishReservation).
LedgerWithinFence ==
    /\ \A i, j \in 1 .. Len(reservations) :
          reservations[i].id = reservations[j].id => i = j
    /\ \A i \in 1 .. Len(reservations) :
          reservations[i].gen <= reservationGen[reservations[i].id]

\* Within one process a fence never falls, whatever is loaded: what was refused as
\* stale stays refused.  The exception is a reservation saved with the invalid
\* generation, which unfences its id (load, GenerationTracker::advance).
FencesKept ==
    [][ Restart
        \/ /\ \A r \in ResourceIds : resourceGen'[r] >= resourceGen[r]
           /\ \A d \in DeviceIds : healthGen'[d] >= healthGen[d]
           /\ topologyGen' >= topologyGen
           /\ \A id \in ReservationIds :
                 \/ reservationGen'[id] >= reservationGen[id]
                 \/ \E i \in 1 .. Len(reservations') :
                       reservations'[i].id = id /\ reservations'[i].gen = 0 ]_vars

-----------------------------------------------------------------------------
(* What a comment says; the code does not keep it.                         *)

\* freshness.hpp, GenerationTracker: "generation regression is rejected".
RegressionRejected ==
    [][ Restart
        \/ \A id \in ReservationIds : reservationGen'[id] >= reservationGen[id] ]_vars

=============================================================================
