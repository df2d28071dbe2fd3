---------------------------- MODULE CapacityModel ----------------------------
(***************************************************************************)
(* CapacityModel (src/model/model.cpp): the evidence and the ledger under  *)
(* one mutex, the state file save writes, and a process restart, a fresh   *)
(* CapacityModel that may load the file.                                   *)
(*                                                                         *)
(* The file is modelled by what save puts in it and what load makes of it: *)
(* neither is the identity.  The epoch is left out: only the constructor   *)
(* (1) and load (the saved 1) ever set it.                                 *)
(***************************************************************************)
EXTENDS Evidence, Ledger, FiniteSets

VARIABLES disk,       \* [state, image]: the state file
          recovered   \* recovered_: this model was loaded from a file

vars == <<evidenceVars, ledgerVars, disk, recovered>>

NoFile   == [state |-> "absent", image |-> 0]
TornFile == [state |-> "torn", image |-> 0]

-----------------------------------------------------------------------------
(* save: the image of the durable part of the state.                       *)

\* Mutant of ResourceImage: the generation is not written.
ResourceImageNoGen(x) ==
    [gen |-> 0, device |-> x.report.device, node |-> x.report.node,
     class |-> x.report.class, health |-> x.report.health,
     vram |-> Whole(Amount(x.report.nominal, "vram")),
     accelerators |-> Whole(Amount(x.report.nominal, "acc"))]

ResourceImage(x) ==
    [gen |-> x.gen, device |-> x.report.device, node |-> x.report.node,
     class |-> x.report.class, health |-> x.report.health,
     vram |-> Whole(Amount(x.report.nominal, "vram")),
     accelerators |-> Whole(Amount(x.report.nominal, "acc"))]

\* Mutant of ReservationImage: the strength is not written.
ReservationImageHard(r) ==
    [id |-> r.id, gen |-> r.gen, interval |-> r.interval, strength |-> "Hard",
     accelerators |-> Amount(r.hold, "acc")]

\* Of the hold, only the accelerator count is written.
ReservationImage(r) ==
    [id |-> r.id, gen |-> r.gen, interval |-> r.interval, strength |-> r.strength,
     accelerators |-> Amount(r.hold, "acc")]

ReleaseImage(e) ==
    [src |-> e.src, at |-> e.at, accelerators |-> Amount(e.release, "acc")]

HistoryImage(f) ==
    [at |-> f.at, expected |-> Amount(f.expected, "acc"),
     observed |-> Amount(f.observed, "acc")]

Image(res, rsv, rel, hist) ==
    [resources    |-> [r \in DOMAIN res |-> ResourceImage(res[r])],
     reservations |-> [i \in 1 .. Len(rsv) |-> ReservationImage(rsv[i])],
     releases     |-> [i \in 1 .. Len(rel) |-> ReleaseImage(rel[i])],
     history      |-> [i \in 1 .. Len(hist) |-> HistoryImage(hist[i])]]

-----------------------------------------------------------------------------
(* load: what a fresh model reads back.                                    *)

\* Mutant of RestoredResource: the file brings a writer's incarnation back.
RestoredResourceLive(i) ==
    [worker |-> CHOOSE w \in Workers : TRUE, boot |-> CHOOSE b \in Boots : TRUE, gen |-> i.gen,
     report |-> [device |-> i.device, node |-> i.node, class |-> i.class,
                 health |-> i.health, nominal |-> NoCapacity,
                 free |-> NoCapacity, committed |-> NoCapacity,
                 unavailable |-> NoCapacity, blocks |-> <<>>,
                 drained |-> FALSE, maintenance |-> FALSE]]

\* No live worker yet, and none of the dynamic fields.
RestoredResource(i) ==
    [worker |-> NoWorker, boot |-> NoBoot, gen |-> i.gen,
     report |-> [device |-> i.device, node |-> i.node, class |-> i.class,
                 health |-> i.health,
                 nominal |-> setAmount(setAmount(NoCapacity, "vram", i.vram),
                                       "acc", i.accelerators),
                 free |-> NoCapacity, committed |-> NoCapacity,
                 unavailable |-> NoCapacity, blocks |-> <<>>,
                 drained |-> FALSE, maintenance |-> FALSE]]

RestoredReservation(i) ==
    [id |-> i.id, gen |-> i.gen, interval |-> i.interval, strength |-> i.strength,
     hold |-> [d \in {"acc"} |-> i.accelerators]]

RestoredRelease(i) ==
    [src |-> i.src, at |-> i.at, release |-> [d \in {"acc"} |-> i.accelerators]]

RestoredForecast(i) ==
    [at |-> i.at,
     expected |-> setAmount(NoCapacity, "acc", Whole(i.expected)),
     observed |-> setAmount(NoCapacity, "acc", Whole(i.observed))]

\* Interval's constructor throws on anything else; load catches it and fails.
ValidInterval(v) == v.start >= 0 /\ v.end > v.start

Loadable(image) ==
    \A i \in 1 .. Len(image.reservations) : ValidInterval(image.reservations[i].interval)

RestoredResources(image) ==
    [r \in DOMAIN image.resources |-> RestoredResource(image.resources[r])]

\* The first n reservations of the file, pushed in order.
RestoredReservations(image, n) ==
    [i \in 1 .. n |-> RestoredReservation(image.reservations[i])]

\* reservationGen_.advance for each of them on a fresh tracker: the ids of a saved
\* vector are distinct (ReservationLedger), so each id advances at most once.
RestoredTracker(rsv) ==
    [id \in ReservationIds |->
        LET i == ReservationIndex(rsv, id) IN IF i = 0 THEN 0 ELSE rsv[i].gen]

RestoredReleases(image) ==
    [i \in 1 .. Len(image.releases) |-> RestoredRelease(image.releases[i])]

RestoredHistory(image) ==
    [i \in 1 .. Len(image.history) |-> RestoredForecast(image.history[i])]

-----------------------------------------------------------------------------
Init ==
    /\ EvidenceInit
    /\ LedgerInit
    /\ disk = NoFile
    /\ recovered = FALSE

EvidenceStep == EvidenceNext /\ UNCHANGED <<ledgerVars, disk, recovered>>

LedgerStep == LedgerNext /\ UNCHANGED <<evidenceVars, disk, recovered>>

save ==
    /\ disk' = [state |-> "intact",
                image |-> Image(resources, reservations, releases, forecastHistory)]
    /\ UNCHANGED <<evidenceVars, ledgerVars, recovered>>

\* writeFileBytes truncates the file before it writes: a failed write, or a crash
\* during the save, leaves a prefix that load's length and checksum tests reject.
saveTorn ==
    /\ disk' = TornFile
    /\ UNCHANGED <<evidenceVars, ledgerVars, recovered>>

\* What a restart loses, whatever the file holds: the sources, the devices, every
\* tracker but reservationGen_, the demands and the topology.
FreshProcess ==
    /\ sources' = [w \in {} |-> 0]
    /\ resourceGen' = [r \in ResourceIds |-> 0]
    /\ devices' = [d \in {} |-> 0]
    /\ healthGen' = [d \in DeviceIds |-> 0]
    /\ demands' = [id \in {} |-> 0]
    /\ topologyGen' = 0
    /\ topoGen' = 0
    /\ links' = [l \in {} |-> 0]
    /\ UNCHANGED disk

\* A restart that loads nothing: the coordinator never calls load, and load
\* rejects an absent or torn file before it touches the model.
restartEmpty ==
    /\ FreshProcess
    /\ resources' = [r \in {} |-> 0]
    /\ reservations' = <<>>
    /\ reservationGen' = [id \in ReservationIds |-> 0]
    /\ releases' = <<>>
    /\ forecastHistory' = <<>>
    /\ recovered' = FALSE

\* load reads the whole file and returns true.
restartLoad ==
    LET image == disk.image
        rsv   == RestoredReservations(image, Len(image.reservations))
    IN  /\ disk.state = "intact"
        /\ Loadable(image)
        /\ FreshProcess
        /\ resources' = RestoredResources(image)
        /\ reservations' = rsv
        /\ reservationGen' = RestoredTracker(rsv)
        /\ releases' = RestoredReleases(image)
        /\ forecastHistory' = RestoredHistory(image)
        /\ recovered' = TRUE

\* load returns false at the first reservation whose interval is invalid, and
\* leaves what it had read until then in the model.
restartPartialLoad ==
    LET image == disk.image
    IN  /\ disk.state = "intact"
        /\ \E n \in 0 .. Len(image.reservations) - 1 :
              LET rsv == RestoredReservations(image, n)
              IN  /\ ~ValidInterval(image.reservations[n + 1].interval)
                  /\ \A i \in 1 .. n : ValidInterval(image.reservations[i].interval)
                  /\ reservations' = rsv
                  /\ reservationGen' = RestoredTracker(rsv)
        /\ FreshProcess
        /\ resources' = RestoredResources(image)
        /\ releases' = <<>>
        /\ forecastHistory' = <<>>
        /\ recovered' = FALSE

Restart == restartEmpty \/ restartLoad \/ restartPartialLoad

Next == EvidenceStep \/ LedgerStep \/ save \/ saveTorn \/ Restart

Spec == Init /\ [][Next]_vars

-----------------------------------------------------------------------------
(* Properties.                                                             *)

ResourceImages ==
    [gen : Nat, device : DeviceIds, node : Nodes, class : Classes, health : HealthStates,
     vram : 0 .. MaxAmount, accelerators : 0 .. MaxAmount]

ReservationImages ==
    [id : ReservationIds, gen : Nat, interval : Intervals, strength : Strengths,
     accelerators : 0 .. MaxAmount]

ReleaseImages == [src : ReleaseSources, at : ReleaseTimes, accelerators : 0 .. MaxAmount]

HistoryImages == [at : ForecastTimes, expected : 0 .. MaxAmount, observed : 0 .. MaxAmount]

FileOK(image) ==
    /\ DOMAIN image.resources \subseteq ResourceIds
    /\ \A r \in DOMAIN image.resources : image.resources[r] \in ResourceImages
    /\ image.reservations \in Seq(ReservationImages)
    /\ image.releases \in Seq(ReleaseImages)
    /\ image.history \in Seq(HistoryImages)

\* The types of the model's fields, and of a state file that is not torn.
TypeOK ==
    /\ EvidenceTypeOK
    /\ LedgerTypeOK
    /\ disk.state \in {"absent", "torn", "intact"}
    /\ disk.state = "intact" => FileOK(disk.image)
    /\ recovered \in BOOLEAN

\* The file too holds each reservation id once: what load pushes back, one by one and
\* without erasing, is a ledger again (save, load).
FileLedger ==
    disk.state = "intact" =>
        \A i, j \in 1 .. Len(disk.image.reservations) :
            disk.image.reservations[i].id = disk.image.reservations[j].id => i = j

\* The tracker that fences a resource and the record it fences never part: a
\* recorded generation is the generation of the stored record, and a record some
\* incarnation published is always fenced by its own generation.  Only what load
\* restored is unfenced (publishResource, advanceResourceGeneration, load).
GenerationsAgree ==
    /\ \A r \in ResourceIds : resourceGen[r] # 0 =>
          r \in DOMAIN resources /\ resources[r].gen = resourceGen[r]
    /\ \A r \in DOMAIN resources : ~Orphan(r) => resources[r].gen = resourceGen[r]

FencesHold ==
    \A r \in ResourceIds : resourceGen[r] # 0 =>
        /\ r \in DOMAIN resources'
        /\ resources'[r].gen >= resources[r].gen

\* Within one process a fenced resource never goes back to an older generation and
\* never disappears (publishResource's and advance's regression tests together).
FencedNeverRegresses == [][Restart \/ FencesHold]_vars

\* Within one process an accepted reservation is never lost, and is only replaced
\* by one at least as new (publishReservation; Capacity Fabric never cancels).
ReservationsKept ==
    [][Restart \/ \A i \in 1 .. Len(reservations) :
          \E j \in 1 .. Len(reservations') :
              /\ reservations'[j].id = reservations[i].id
              /\ reservations'[j].gen >= reservations[i].gen]_vars

\* Saving and loading at this point would give back every durable identity: the
\* resources with their generation, device and health, the reservations with their
\* generation, interval and strength, in order, and the forecasts' times (save, load).
SurvivesRestart ==
    LET image == Image(resources, reservations, releases, forecastHistory)
        res   == RestoredResources(image)
        rsv   == RestoredReservations(image, Len(image.reservations))
        hist  == RestoredHistory(image)
    IN  Loadable(image) =>
        /\ DOMAIN res = DOMAIN resources
        /\ \A r \in DOMAIN res :
              /\ res[r].gen = resources[r].gen
              /\ res[r].report.device = resources[r].report.device
              /\ res[r].report.health = resources[r].report.health
        /\ Len(rsv) = Len(reservations)
        /\ \A i \in 1 .. Len(rsv) :
              /\ rsv[i].id = reservations[i].id
              /\ rsv[i].gen = reservations[i].gen
              /\ rsv[i].interval = reservations[i].interval
              /\ rsv[i].strength = reservations[i].strength
        /\ RestoredTracker(rsv) = reservationGen
        /\ Len(hist) = Len(forecastHistory)

\* What save drops is dropped once: a model loaded from the file, saved and loaded
\* again is the same model (the conversions of save and load are idempotent).
SecondRestartChangesNothing ==
    disk.state = "intact" =>
      LET image == disk.image
          res   == RestoredResources(image)
          rsv   == RestoredReservations(image, Len(image.reservations))
          rel   == RestoredReleases(image)
          hist  == RestoredHistory(image)
          again == Image(res, rsv, rel, hist)
      IN  /\ RestoredResources(again) = res
          /\ RestoredReservations(again, Len(again.reservations)) = rsv
          /\ RestoredReleases(again) = rel
          /\ RestoredHistory(again) = hist

\* Evidence becomes usable in two ways only: the live incarnation publishes the
\* resource, or the very incarnation that published it registers again.  A restart
\* in particular revives nothing: what load restores stays unusable until it is
\* published (registerWorker, publishResource, load, buildView's `current`).
ActivationNeedsIncarnation ==
    [][\A r \in DOMAIN resources' :
          (Current(r))' /\ ~(r \in DOMAIN resources /\ Current(r)) =>
              LET x == resources'[r] IN
              \/ isFreshBoot(x.worker, x.boot)
              \/ /\ ~workerAlive(x.worker)
                 /\ r \in DOMAIN resources
                 /\ resources[r] = x]_vars

\* The authority a model state stands for: the live incarnation of each worker ...
Holder == [w \in Workers |-> IF workerAlive(w) THEN sources[w].boot ELSE NoBoot]

\* ... and who said what is recorded of each resource, at which generation.
Attribution ==
    [r \in DOMAIN resources |->
        [worker |-> resources[r].worker, boot |-> resources[r].boot,
         gen |-> resources[r].gen]]

Authority == INSTANCE EvidenceAuthority WITH holder <- Holder, evidence <- Attribution

\* The evidence half implements EvidenceAuthority: the two containers resources_ and
\* resourceGen_ together behave as one map of self-fencing records (model.cpp).
ImplementsAuthority == Authority!Spec

-----------------------------------------------------------------------------
(* What the comments and the README say; the code does not keep these.     *)

\* model.cpp, publishResource: "a stale generation must never be re-admitted".
StaleNeverReadmitted ==
    [][Restart \/ \A r \in DOMAIN resources :
          r \in DOMAIN resources' /\ resources'[r].gen >= resources[r].gen]_vars

\* freshness.hpp: a publication is accepted as current "only when its generation is
\* strictly newer than the recorded one".
AcceptedIsNewer ==
    [][Restart \/ \A r \in DOMAIN resources :
          resourceGen[r] # 0 /\ resources'[r] # resources[r] =>
              resources'[r].gen > resourceGen[r]]_vars

\* README.md: "durable identity, reservations, and forecast history reconstruct".
ReservationsReconstruct ==
    LET image == Image(resources, reservations, releases, forecastHistory)
    IN  Loadable(image) =>
            RestoredReservations(image, Len(image.reservations)) = reservations

\* README.md: "impossible intervals" are rejected, and a save can be recovered from.
SavedStateLoads == disk.state = "intact" => Loadable(disk.image)

=============================================================================
