------------------------------- MODULE Evidence -------------------------------
(***************************************************************************)
(* The evidence half of CapacityModel (src/model/model.cpp): which worker  *)
(* incarnation is the live source, what each resource last reported, and   *)
(* the generation trackers that fence stale publications.                  *)
(*                                                                         *)
(* Every operation takes the model's one mutex for its whole body, so each *)
(* is one action.  A call the code rejects returns false and changes       *)
(* nothing: the guard of the action is the negation of that early return.  *)
(*                                                                         *)
(* A generation is a number; 0 is the invalid (default) generation.  A     *)
(* report is the payload of a ResourceInfo, everything but its identity,   *)
(* its generation and its source incarnation.                              *)
(***************************************************************************)
EXTENDS Generations, Capacity, Sequences

CONSTANTS Workers,      \* valid WorkerIds
          Boots,        \* valid WorkerBootIds
          ResourceIds,
          DeviceIds,
          Nodes,
          Classes,      \* accelerator classes (architecture, class, capability)
          Reports,      \* payloads a source may publish
          HealthStates,
          NoWorker,     \* WorkerId(), the invalid id
          NoBoot,       \* WorkerBootId(), the invalid id
          MaxGen        \* bound: generations published or advanced to

ASSUME InvalidIds == NoWorker \notin Workers /\ NoBoot \notin Boots
ASSUME MaxGenNat == MaxGen \in Nat

ReportSpace ==
    [device : DeviceIds, node : Nodes, class : Classes, health : HealthStates,
     nominal : CapacitySpace, free : CapacitySpace, committed : CapacitySpace,
     unavailable : CapacitySpace, blocks : Seq(Nat),
     drained : BOOLEAN, maintenance : BOOLEAN]

ASSUME ReportsAreReports == Reports \subseteq ReportSpace

VARIABLES sources,      \* worker -> [boot, alive], for the workers ever registered
          resources,    \* resource -> [worker, boot, gen, report]
          resourceGen,  \* tracker: current generation per resource, 0 if none
          devices,      \* device -> [gen, health]
          healthGen     \* tracker: current health generation per device

evidenceVars == <<sources, resources, resourceGen, devices, healthGen>>

Gens == 0 .. MaxGen

Source == [boot : Boots, alive : BOOLEAN]

ResourceRecord ==
    [worker : Workers \cup {NoWorker}, boot : Boots \cup {NoBoot}, gen : Nat,
     report : ReportSpace]

Device == [gen : Nat, health : HealthStates]

EvidenceTypeOK ==
    /\ DOMAIN sources \subseteq Workers
    /\ \A w \in DOMAIN sources : sources[w] \in Source
    /\ DOMAIN resources \subseteq ResourceIds
    /\ \A r \in DOMAIN resources : resources[r] \in ResourceRecord
    /\ resourceGen \in [ResourceIds -> Nat]
    /\ DOMAIN devices \subseteq DeviceIds
    /\ \A d \in DOMAIN devices : devices[d] \in Device
    /\ healthGen \in [DeviceIds -> Nat]

-----------------------------------------------------------------------------
(* Queries on the state.                                                   *)

workerAlive(w) == w \in DOMAIN sources /\ sources[w].alive

isFreshBoot(w, b) == workerAlive(w) /\ sources[w].boot = b

\* buildView's `current`: the record's boot id is valid and is the boot of a
\* live source.
Current(r) ==
    /\ resources[r].boot # NoBoot
    /\ isFreshBoot(resources[r].worker, resources[r].boot)

CurrentResources == {r \in DOMAIN resources : Current(r)}

\* A record restored by load: no live worker stands behind it.
Orphan(r) == resources[r].worker = NoWorker

-----------------------------------------------------------------------------
EvidenceInit ==
    /\ sources = [w \in {} |-> 0]
    /\ resources = [r \in {} |-> 0]
    /\ resourceGen = [r \in ResourceIds |-> 0]
    /\ devices = [d \in {} |-> 0]
    /\ healthGen = [d \in DeviceIds |-> 0]

\* Mutant of Replaceable: the last to register wins.
ReplaceableAlways(w, b) == TRUE

\* A live incarnation is not replaced by another one.
Replaceable(w, b) == workerAlive(w) => sources[w].boot = b

registerWorker(w, b) ==
    /\ Replaceable(w, b)
    /\ sources' = Put(sources, w, [boot |-> b, alive |-> TRUE])
    /\ UNCHANGED <<resources, resourceGen, devices, healthGen>>

\* unregisterWorker and markWorkerDead have the same effect on the state.
markWorkerDead(w) ==
    /\ w \in DOMAIN sources
    /\ sources' = [sources EXCEPT ![w].alive = FALSE]
    /\ UNCHANGED <<resources, resourceGen, devices, healthGen>>

\* Mutant of Publishable: no regression test.
PublishableStale(r, w, b, g) == isFreshBoot(w, b)

\* Mutant of Publishable: the worker is tested and its incarnation is not.
PublishableAnyBoot(r, w, b, g) == workerAlive(w) /\ ~Stale(resourceGen[r], g)

Publishable(r, w, b, g) == isFreshBoot(w, b) /\ ~Stale(resourceGen[r], g)

\* Mutant of publishResource: the tracker is not advanced.
publishResourceUntracked(r, w, b, g, p) ==
    /\ Publishable(r, w, b, g)
    /\ resources' = Put(resources, r,
                        [worker |-> w, boot |-> b, gen |-> g, report |-> p])
    /\ devices' = Put(devices, p.device, [gen |-> g, health |-> p.health])
    /\ UNCHANGED <<sources, resourceGen, healthGen>>

publishResource(r, w, b, g, p) ==
    /\ Publishable(r, w, b, g)
    /\ resourceGen' = advance(resourceGen, r, g)
    /\ resources' = Put(resources, r,
                        [worker |-> w, boot |-> b, gen |-> g, report |-> p])
    /\ devices' = Put(devices, p.device, [gen |-> g, health |-> p.health])
    /\ UNCHANGED <<sources, healthGen>>

advanceResourceGeneration(r) ==
    LET next == resourceGen[r] + 1
        d    == resources[r].report.device
    IN  /\ r \in DOMAIN resources
        /\ next <= MaxGen
        /\ resourceGen' = advance(resourceGen, r, next)
        /\ resources' = [resources EXCEPT ![r].gen = next]
        /\ devices' = IF d \in DOMAIN devices
                        THEN [devices EXCEPT ![d].gen = next]
                        ELSE devices
        /\ UNCHANGED <<sources, healthGen>>

setHealth(d, h, g) ==
    /\ ~Stale(healthGen[d], g)
    /\ healthGen' = advance(healthGen, d, g)
    /\ devices' = IF d \in DOMAIN devices
                    THEN [devices EXCEPT ![d].health = h]
                    ELSE devices
    /\ UNCHANGED <<sources, resources, resourceGen>>

EvidenceNext ==
    \/ \E w \in Workers, b \in Boots : registerWorker(w, b)
    \/ \E w \in Workers : markWorkerDead(w)
    \/ \E r \in ResourceIds, w \in Workers, b \in Boots, g \in Gens, p \in Reports :
          publishResource(r, w, b, g, p)
    \/ \E r \in ResourceIds : advanceResourceGeneration(r)
    \/ \E d \in DeviceIds, h \in HealthStates, g \in Gens : setHealth(d, h, g)

=============================================================================
