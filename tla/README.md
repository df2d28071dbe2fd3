# Capacity Fabric in TLA+

A verification development for Capacity Fabric (the C++ library under `src/`,
`include/capacity_fabric/`, and the coordinator and worker of its multiprocess
deployment). It models the authority over capacity evidence, persistence and recovery,
the timeline and the queries over it, the threads of the coordinator, the framed transport
under it, and the processes of the reference deployment. TLC checks
the models on small instances; TLAPS proves every safety property that a passing run checks,
for every instance. What is only model-checked is liveness.

`PROJECT.json` maps each definition to the lines it models and lists the runs, the
findings, the hazards and the theorems. Paths below are relative to the repository root.

## 1. Inventory of the system

Capacity Fabric collects *evidence* (resource reports of worker incarnations) and
*facts* owned by others (reservations, releases, demand profiles, topology), and answers
*queries* (what fits, when, with which headroom, and what if). It never schedules or
reserves anything itself.

| Component | State | Operations that change it | What makes it correct |
|---|---|---|---|
| Generation tracking, `model/freshness.hpp` | id -> last generation | `advance` | never goes back; agrees with the record it fences |
| Evidence authority, `src/model/model.cpp` | `sources_`, `resources_`, `devices_`, `resourceGen_`, `deviceGen_`, health and availability generations | `registerWorker`, `markWorkerDead`, `publishResource`, `advanceResourceGeneration`, `setHealth` | only a live incarnation adds evidence; a fenced resource never regresses; evidence becomes current only through its own incarnation |
| Ledger of facts, `src/model/model.cpp` | `reservations_`, `releases_`, `demands_`, `topologyLinks_`, `topologyGroups_`, `forecastHistory_` and their trackers | `publishReservation`, `publishRelease`, `registerDemand`, `registerTopology`, `recordForecast`, `recordObserved` | one entry per id, in step with the tracker; nothing accepted is lost |
| Persistence, `save`, `load`, `persistence/store.cpp` | the state file | save; a crash while writing; load in a fresh process and over a model in use | identities survive a restart; nothing restored is usable before it is published again; what a restart loses it loses once; no fence falls |
| Capacity amounts, `capacity/capacity.hpp` | sparse vector of amounts | value type | absent and zero dimensions; `min`, `satisfies` |
| Timeline, `timeline/timeline.hpp`, `forecast/forecast.hpp` | sorted events and clamped prefix capacities | built per query | the curve against base minus holds plus releases |
| Earliest fit, `query/earliest_fit.hpp` | none | query | earliest; holds for the window; agrees with its reference |
| View, feasibility, fragmentation, headroom, `model/view.hpp`, `query/feasibility.hpp`, `fragmentation/`, `headroom/` | none | queries | no evidence, no fit; a death never helps; now and later agree |
| Scenarios, `scenario/scenario.hpp` | a copy of the view | what-if actions | monotone; an empty one changes no answer |
| Coordinator, `src/coordinator/coordinator.cpp` | `running_`, `listener_`, `active_`, handler threads | accept loop, handlers, `stop` | counts are right; dead workers lose authority; stop drains and returns |
| Protocol codec, `src/protocol/protocol.cpp`, `protocol/payload.hpp` | `FrameBuffer` | encode, decode, append, pop; write and read of each payload | a frame is taken whole or not at all; a sent value keeps what the queries need |
| TCP transport, `src/protocol/tcp.cpp` | `inbuf_`, the socket | `sendFrame`, `recvFrame`, `close` | a channel of whole messages, whatever the cuts of the stream; an end is noticed |
| Worker process, `tools/worker_main.cpp` | where it is in its program, its connection | HELLO, REGISTER, PUBLISH_RESOURCE, hold, exit | READY means current evidence; it waits for nothing for ever |
| Coordinator process, `tools/coordinator_main.cpp` | the `Coordinator` | start, poll `running()`, stop | a shutdown ends every process |
| Reference adapters, `adapters/reference.hpp` | none | builders | the facts the instances use |

How they interact: workers and drivers talk to the coordinator over TCP, one request at a
time per connection; each handler thread makes one call into the shared `CapacityModel`
per request, under the model's mutex; queries build a `FleetView` from the evidence and
a `Timeline` from the ledger; `SAVE` writes the state file and the next process loads it.

Hard behaviours: publications, deaths and registrations of several incarnations in any order; a
crash before, during or after a save; a load that fails halfway; simultaneous timeline events
clamped one by one; the accept thread, the handlers, `stop` and dying clients interleaving; a
connection that names several workers; a stream cut in the middle of a frame and a peer that
dies there; a worker that restarts before its predecessor's death has been noticed. The hazards
in `PROJECT.json` name the lines.

## 2. Modules

| Module | Models | Uses |
|---|---|---|
| `Generations` | `GenerationTracker`, the publishers' stale test, `std::map` assignment | |
| `Capacity` | `Capacity`, `CapacityDelta`, `applyDelta`, the conversion to whole units that `save` applies | |
| `Evidence` | the evidence half of `CapacityModel` | `Generations`, `Capacity` |
| `Ledger` | the facts half of `CapacityModel` | `Generations`, `Capacity` |
| `CapacityModel` | both halves, `save`, crashes while saving, restarts with whole, partial and no load | `Evidence`, `Ledger` |
| `Reload` | `load` over a model in use, whole and failing halfway | `CapacityModel` |
| `Wire` | what the payload writers and readers keep of a report, a reservation, a release and a demand | `CapacityModel` |
| `EvidenceAuthority` | the abstract specification of the evidence half | |
| `Sums` | the one operator for sums of families of numbers | |
| `Timeline` | events, `freeze`, `capacityAt`, `rangeMin`, `buildTimeline`, the earliest-fit search and its slow reference | `Capacity` |
| `ProjectedCapacity` | `queryCapacity` and `queryEarliestFit` over every ledger | `Ledger`, `Timeline`, `Sums` |
| `Fleet` | the pure part of views, fragmentation, feasibility, headroom and scenarios | `Timeline`, `Sums` |
| `Feasibility` | `buildView` and the queries, over every state of `CapacityModel` | `Wire`, `Fleet` |
| `Coordinator` | accept thread, handlers, owner and clients over the evidence | `Evidence` |
| `Frames` | `encodeFrame`, `decodeFrame`, `FrameBuffer::pop` | |
| `Transport` | one direction of a `TcpConnection` and the stream under it | `Frames` |
| `MessageChannel` | the abstract specification of such a direction | |
| `Deployment` | the coordinator's process, worker processes running their whole program, drivers | `Coordinator` |
| `Reference` | the builders of the reference adapters | `Capacity` |
| `SetInduction` | induction and recursion on the naturals and on finite sets, and lemmas on sums | `Sums` |
| `EvidenceProofs` | lemmas about `Evidence` | `Evidence`, `SetInduction` |
| `CapacityModelProofs` | theorems about `CapacityModel`: the authority, the ledger, save, restart, `Reload` and `Wire` | `Reload`, `Wire`, `EvidenceProofs` |
| `TimelineProofs` | lemmas about amounts, sorting, the curve and what it adds up to, `rangeMin` and the search | `Timeline`, `SetInduction` |
| `ProjectionProofs` | theorems about `ProjectedCapacity` | `ProjectedCapacity`, `TimelineProofs` |
| `FeasibilityProofs` | theorems about `Feasibility` | `Feasibility`, `CapacityModelProofs`, `TimelineProofs` |
| `DeploymentProofs` | theorems about `Coordinator` and `Deployment` | `Deployment`, `EvidenceProofs` |
| `TransportProofs` | theorems about `Transport`, and that it implements `MessageChannel` | `Transport`, `SetInduction` |
| `MC...` | instances for TLC | |

Correspondence of state. `Evidence` keeps `sources_` as `sources`, `resources_` as `resources`
(a report with the worker, incarnation and generation it came from), `devices_` as `devices`
and the trackers as functions to the last generation, 0 for an id never seen. `Ledger` keeps
the vectors as sequences, since their order is the order of the timeline's events.
`CapacityModel` adds `disk`, the state file (absent, torn or intact) and `recovered`, whether
this process loaded it. `Coordinator` keeps the position of each thread; a handler iteration is
one action because its only effect on shared state is one call under the model's mutex, while
the accept thread's test of `active_` and its increment, and a handler's return and its
decrement, are steps of their own. Which worker and incarnation a REGISTER or a
PUBLISH_RESOURCE speaks for is in its payload, any of them and the invalid ids too (`Claims`);
the handler's local `curWorker` keeps the last REGISTER's. The history variable `registered`
keeps which incarnations the model accepted from a connection. `Transport` keeps `inbuf_` as
`inbuf` and the data `sendAll` has not handed over as `unsent`; one iteration of `recvFrame`'s
loop is an action. `Deployment` adds to `Coordinator` each worker's place in its program
(`step`) and the reply it has not read (`answer`): the handler writes the reply in the step in
which it handles the request, and the worker reads it in a step of its own. It keeps one
handler iteration as one action, which the refinement of `Transport` justifies: above
`recvFrame` and `sendFrame` a connection is a channel of whole messages that may end.

How the parts compose. `Transport` implements `MessageChannel`, and `Coordinator` uses a
connection as such a channel: at most one request is in it, it is received whole, or
receiving fails because the client is gone or the frame is corrupt. `Deployment` runs the
real clients against `Coordinator`, whose calls into the model are those of `Evidence`.
`Feasibility` asks the queries of every state of `CapacityModel`, and `Wire` says what a
value has become when it came over a connection.

What is abstracted. Ids, nodes, classes and incarnations are model values. Of the 21
dimensions three are kept: a count, a byte amount and a rate, the three ways the code treats a
dimension. Amounts are integers in a unit in which `Unit` steps make one whole; `Whole`
truncates as the typed accessors that `save` uses do. A report is a record of what the
queries read. Explanations, confidences and wording are left out. A frame is a sequence of
symbols, one for each header field (type, flags and seq are one), payload byte and checksum;
FNV-1a is taken to have no collisions, so its value is what it is computed over. Bytes
saturate at `ByteMax`, which stands for 2^64 - 1.

Definitions named *mutant* are plausible mistakes in the operation they stand above (a
dropped guard, a missing erase, an off-by-one). No specification uses one. `PROJECT.json`
pairs each property with the mutant under which TLC finds it violated, which shows that
the property depends on that part of the code.

## 3. Runs that pass

| Run | Instance | Checks |
|---|---|---|
| `evidence` | 2 workers, 2 incarnations each, 1 resource, generations to 2 | types; `GenerationsAgree`; `FencedNeverRegresses`; `ActivationNeedsIncarnation`; `SurvivesRestart`; refinement of `EvidenceAuthority` |
| `reservations` | 2 reservations, also with the default interval, generations 0 and 1, 1 topology link | vector and tracker are one ledger, whole and partial loads included (`ReservationLedger`); `ReservationsKept` |
| `reload` | 1 resource, 1 reservation at generations 1 and 2, 1 forecast, loads over any state | `CurrentAtFence`, `LedgerWithinFence`, `FencesKept`; `SecondRestartChangesNothing` |
| `projection` | 2 reservations, 1 release, 5 instants | the curve is never below the truth, and above it by no more than the order of events and the clamp can explain (`CurveIsSound`); the same of the order of the modes (`ModesOrdered`); the earliest fit is the earliest, and where it can fall short (`FitIsSound`); `MatchesReference` |
| `feasibility` | 2 workers, 2 resources on one or two devices, 1 reservation, 9 demands, byte sums that saturate at 3 | `NowWithinTimeline`, `DeathNeverHelps`, `ScenarioMonotone`, `EmptyScenarioAgrees`, `FragmentationIsSound`, `WireNeverTightens` |
| `recovery` | 1 worker, 1 resource, 1 reservation, 1 release, saves and restarts | `NoEvidenceNoFit`, `FutureFitHasStart`, `ReleaseLedger`, `WireLedgerReconstructs` |
| `coordinator` | 3 connections, 2 handlers, either of 2 workers, with a valid incarnation or not, in the payloads | `ActiveIsHandlers`, which includes that a drained coordinator is idle; `LiveSourceHasConnection` |
| `shutdown` | 2 connections, with fairness | `DeathInvalidates`, `StopReturnsOnceClientsLeave` |
| `framing` | 3 messages, payloads to 2 bytes, reads to 3 symbols, 1 damaged symbol | `BufferBounded`; `StreamIsWhole`; refinement of `MessageChannel`; `SentIsReceived`; `CloseIsNoticed` |
| `deployment` | 2 incarnations of 1 worker, 1 driver, 2 handlers, with fairness | `ReadyIsCurrent`; `ReadyStaysCurrent`; `RefusalHasReason`; `WorkerSettles`; `ShutdownEndsAll` |

The type invariants of `Coordinator`, `Transport` and `Deployment` hold in these instances
and are not among the properties of the runs; `FileLedger` is the half of the inductive
invariant of section 5 that speaks of the file.

Some properties carry a condition, and it is part of what they say. `CurveIsSound` has none: it
compares what the curve shows with the exact account (`Exact`), and bounds what it shows beyond
that by what some instant so far lacked *in the worst order of its events* (`Lacked`: the holds
that end at an instant still kept, the releases due at it not yet come). The worst order counts
because `freeze` sorts by time alone, so that a publication order, or `std::sort` itself,
decides what comes first at an instant. Where nothing is lacking in that order the curve is
exact; holds that follow each other can lack something in it although they fit, and then the
curve can be too high (`HoldsAreExact` in section 4). `ModesOrdered` bounds in the same way how
far a lower mode may exceed a higher one (`ConservativeBelowExpected`), and asks that each
release's expected time lies between its earliest and its latest (`BoundsInOrder`), which no
code checks: a release forecast outside its own bounds puts the modes out of order.
`FitIsSound` does not say that a fit found holds throughout, which the code does not keep
(`FitHoldsThroughout`): it says that a fit meets the requirement at its last instant, and falls
short before that only from its first instant on, in a dimension of which there is nothing at
all until some appears. That no earlier start would do has no exception. `NoEvidenceNoFit` has
a part for the query that asks for no evidence: `queryEarliestFit` can find a fit with no
current resource, on the strength of a release or of the clamped end of a hold, and the
property says that it rests on nothing else, in each dimension required. `MatchesReference`
allows a difference only where the reference's own answer does not hold. `ScenarioMonotone`
leaves out demands with a bound on fragmentation, which removing a fragmented device can
satisfy. For demands with an SLO obligation, what `DeathNeverHelps` says of fits and what
`ScenarioMonotone` says of removals and additions is restricted to reports that list no
dimension at zero (`ListsNoZero`; section 4). `EmptyScenarioAgrees` speaks of fleets on which
every resource is current, usable and alone on its device. `FragmentationAccounts` speaks of
reports whose blocks add up to the free memory in whole units. `LiveSourceHasConnection` speaks
of a running coordinator, and excepts a worker whose connection has named another since: the
handler forgets the first, which stays live when the connection ends. `DeathInvalidates` speaks
of the worker a handler noted last. `ReadyIsCurrent` speaks of workers whose id and resource no
other process has: with a rival the guarantee that is left is `ReadyStaysCurrent`, and
`live_incarnation_kept` shows how the rival takes over. A rival is an open connection that
claims the same id, or the id of another worker assigned the same resource: the proof showed
that the second kind takes a resource over too. `WireNeverTightens` allows the coordinator to
grant what the model would refuse, since six fields of a demand are all that is sent.
`FencesKept` excepts a reservation loaded with generation 0 (section 4).

Bounds. `MaxGen` and `FactGens` bound generations: the code only compares two of them, so
older, equal, newer and unknown need three values and 0. Two incarnations are enough for replay
and replacement, and two workers for one resource that passes between them. Two reservations
overlap, touch or follow each other in either publication order, and with one release reach
every clamping case of a pair. Three connections at a limit of two reach "full", "freed while
the accept thread waits" and two handlers on one worker; with two workers a connection
registers both and forgets one, and an invalid incarnation is a REGISTER that is rejected and
still noted. `coordinator` leaves out the requests that do not change which source is live;
`shutdown` and `deployment` have those, and two incarnations. In `recovery` the horizon is the
last time of any event. `reload` needs two valid generations of a reservation, so that the file
can be behind the tracker or ahead of it. In `framing` reads of up to three symbols and frames
of five to seven cut every frame everywhere and let one read end one frame and begin another;
one of the payloads starts like a frame, and one is too long to be sent. In `deployment` a
worker may be killed and its successor started at any moment, and a third connection at a limit
of two is turned away. `ByteMax` is small enough for the blocks of one device, and the free
memory of two, to overflow it. `MaxHistory` bounds a vector the code only appends to and scans.
`MaxAmount` bounds the amounts of reports, holds and credits.

Symmetry (`coordinator` and `live_incarnation_kept`) permutes connections, workers and incarnations, which the
modules use only as identities. The other runs use none.

Fairness. In `shutdown`, weak fairness of the accept thread, of each handler, of the
two joins and of the destructor; in `framing`, of a thread in `sendAll` and of one in
`recvFrame`; in `deployment`, of the accept thread, of the main thread, of each handler and
of each worker process: the operating system runs a thread that can go on. Nothing is
assumed of other clients, which may stay idle or die at any time, or of the owner's decision to call `stop`; nobody is
made to send another message, to start a worker or to kill one.

Deadlock is not reported in the coordinator runs, in `deployment` and in `framing`: a
coordinator whose clients have left and whose owner does nothing has stopped for good, all
processes may have ended, and a connection whose sender is gone has nothing to do. That
nobody is stuck before is what the temporal properties say. All other runs check it.

## 4. Where the code and its documentation part

Two runs are expected to find a violation; `PROJECT.json` quotes the sentences.

| Run | What happens |
|---|---|
| `stale_never_readmitted` | `load` restores `resources_` but not `resourceGen_`: after a restart an older generation replaces a restored record. |
| `live_incarnation_kept` | A handler remembers the worker of a REGISTER before it knows that it was accepted: when the rejected replay disconnects, the live incarnation is marked dead and the old one can register. |

The modules state further sentences of the documentation that the models refute. Each is a
definition under "the code does not keep these"; to see a trace, put its name in the
configuration given here in place of the properties.

| Definition (configuration) | What happens |
|---|---|
| `AcceptedIsNewer` (`MCStaleNeverReadmitted.cfg`, as a PROPERTY) | A publication at the recorded generation replaces the record; `freshness.hpp` says strictly newer. |
| `HoldsAreExact` (`MCProjection.cfg`) | Two holds that follow each other, the later one published first, nothing overcommitted: at the common instant its start is applied before the other's end and clamped, and the capacity it holds is then promised again. |
| `ConservativeBelowExpected` (`MCProjection.cfg`) | The same two holds and a release: what one mode credits early is spent where the clamp would otherwise have helped, so a lower mode ends up above a higher one. It takes no overcommitment; overcommitted holds do it too. |
| `FitHoldsThroughout` (`MCProjection.cfg`) | `earliestFit` finds a start at which a hold has taken all of a required dimension: `Capacity::min` takes the later segment's amount for a dimension the first does not list. |
| `FitsOnLiveDevices` (`MCFeasibility.cfg`) | `buildView` lists the devices of dead workers too and `evaluateNow` counts them: a demand for two devices fits with one of them behind a dead worker. |
| `RegressionRejected` (`MCReload.cfg` with `FactGens = {0, 1}`, as a PROPERTY) | `advance` stores an invalid generation over any other, so loading a reservation of generation 0 removes a fence; `freshness.hpp` says "generation regression is rejected". |
| `ErrorDiscards`, `DamageIsReported` (`MCTransport.cfg`, the second as a PROPERTY) | `pop` keeps the buffer on `Truncated`, which is a non-None error; a damaged length that is still legal is never reported, both ends wait, and no socket has a timeout. |
| `RestartIsAccepted` (`MCDeployment.cfg`, as a PROPERTY) | A worker started after its predecessor is gone may be refused: it publishes generation 1, which an advance has fenced off, and it does not try again. |
| `OwnerEndsProcess` (`MCDeployment.cfg`, as a PROPERTY) | An out-of-range confidence in a release throws in `readRelease`, nothing catches it, and the process ends. |
| `ReservationsReconstruct` (`MCReservations.cfg`) | `save` writes the accelerator count of a hold only; holds in other dimensions are lost. |
| `SavedStateLoads` (`MCReservations.cfg`) | A reservation with the default interval is accepted and saved, and every later load fails at it. |
| `RangeMinIsMinimum` (`MCProjection.cfg`) | `Capacity::min` takes the other side's amount for an absent dimension, and exhausted dimensions are erased. |
| `RemovalNeverIncreases`, `DegradeHitsOne` (`MCFeasibility.cfg`) | Scenarios aggregate again without the test for a live source; DegradeDevice fails every device. |
| `AvailableIsHealthy`, `DrainedNeverFits` (`MCFeasibility.cfg` with `Reports <- MCFaultyReports`, `HealthStates <- MCHealthStates`) | Failed and drained resources count as available. |
| `DeadMeansInvalid`, `StopDrains` (`MCCoordinator.cfg`) | A connection that registers two workers and ends leaves the first live: its handler marks the second dead only (a failed reply leaves a dead worker live too, with `Other` among the `Requests`); `stop` after a SHUTDOWN request returns without joining. |
| `StopReturns` (`MCShutdown.cfg`, as a PROPERTY) | `stop` waits for a handler whose client is idle. |

Two smaller ones have no definition of their own: a request longer than the rest of the
horizon is found by `earliestFit` at its first candidate and never by the reference
(`MatchesReference` is restricted accordingly), and a superseded incarnation may register
again once its successor has died (`EvidenceAuthority!Grant` allows it). Three behaviours
contradict no sentence but are worth knowing. A resource that lists a dimension at zero
makes a demand with an SLO obligation stop fitting when it is added, and start fitting when it
is removed or its worker dies: the dimension counts as exhausted, whether or not the demand asks
for it. `queryEarliestFit` and `queryCapacity` do not test for evidence: with no current
resource they answer from the releases, and from the ends of holds whose starts were clamped.
And `stop` after a SHUTDOWN request returns without joining
the accept thread, so the destructor of the `Coordinator` ends the process by
`std::terminate` (`terminate` in `Coordinator`).

## 5. Proofs

All theorems hold for all sets of workers, incarnations, resources, devices, reports,
reservations, sources, connections, messages and so on, and for all bounds. Every safety
property that a passing run checks is proved.

| Module | Theorem | States |
|---|---|---|
| `CapacityModelProofs` | `TypeCorrect` | `Spec => []TypeOK`, for the state and for an intact file |
| | `GenerationsAlwaysAgree` | `[]GenerationsAgree`: record and tracker never part |
| | `FencedResourcesNeverRegress` | `FencedNeverRegresses`, an action property |
| | `ReservationsInStep` | `[](ReservationLedger /\ FileLedger)` |
| | `EvidenceRefinesAuthority` | the refinement `ImplementsAuthority` |
| | `TypeCorrectUnderReload`, `LedgerStaysWithinFence`, `CurrentStandsAtFence` | types, `LedgerWithinFence` and `CurrentAtFence`, with loads over any state |
| | `FencesNeverFall`, `ActivationNeedsItsIncarnation` | the action properties `FencesKept` and `ActivationNeedsIncarnation`, with loads over any state |
| | `ReleasedOncePerSource` | `[]ReleaseLedger`, with and without such loads |
| | `DurableStateSurvives`, `WireLedgerSurvives` | `SurvivesRestart`, `WireLedgerReconstructs` |
| | `SecondRestartIsIdentity` | `SecondRestartChangesNothing` |
| | `ReservationsNeverLost` | the action property `ReservationsKept` |
| `ProjectionProofs` | `EarliestFitIsSound` | `[]FitIsSound`: no start before the one the search returns would do, and that one does but at its beginning, where a dimension is exhausted |
| | `EarliestFitMatchesReference` | `[]MatchesReference` |
| | `ReportedCapacityIsSound` | `[]CurveIsSound`: the curve is never below the exact account, and above it by no more than some instant lacked in the worst order of its events |
| | `ModesAreOrdered` | `[]ModesOrdered`: the same bound on how far a lower mode exceeds a higher one |
| `FeasibilityProofs` | `NoFitWithoutEvidence` | `[]NoEvidenceNoFit`, with what `queryEarliestFit` may rest on |
| | `FitsNowAreOnTheCurve`, `FutureFitsHaveStarts` | `[]NowWithinTimeline`, `[]FutureFitHasStart`: the three ways to ask whether something fits agree |
| | `DeathsNeverHelp` | `[]DeathNeverHelps` |
| | `ScenariosAreMonotone`, `ScenariosStartFromTheQuery` | `[]ScenarioMonotone`, `[]EmptyScenarioAgrees` |
| | `FragmentationReportsAreSound` | `[]FragmentationIsSound` |
| | `TheWireNeverTightens` | `[]WireNeverTightens` |
| `DeploymentProofs` | `CoordinatorTypeCorrect`, `ActiveCountsHandlers`, `LiveSourcesAreConnected` | the coordinator's types, `ActiveIsHandlers` and `LiveSourceHasConnection` |
| | `ReadyMeansCurrent`, `ReadyStays`, `RefusalsHaveReasons` | `ReadyIsCurrent`, and the action properties `ReadyStaysCurrent` and `RefusalHasReason` |
| `TransportProofs` | `BufferStaysBounded`, `StreamStaysWhole` | `BufferBounded`, `StreamIsWhole` |
| | `ConnectionIsAChannel` | the refinement `ImplementsChannel` |

Assumptions. Each is a named `ASSUME` of the module that declares the constants, and TLC
evaluates it in every run that uses the module. `MaxAmount` is a natural number and `Unit` a
positive one; generations, reports, holds, credits and requirements of the inputs are well
typed; `NoWorker` and `NoBoot` are not a worker and not an incarnation. `ProjectedCapacity`
and `Feasibility` take times to be integers (`TimePoint` is an `int64_t`), and an interval to
start at 0 or later and to end no earlier than it starts, which its constructor
ensures (`IntegerTimes`). `Feasibility` takes ids of resources to be finitely many naturals
(`ResourceIdsOrdered`: `resources_` is walked in their order) and the amounts and counts of
demands, and what scenarios add, to be such as could be published (`QuestionsTyped`).
`Deployment` takes a
client that registers or publishes to be a worker (`DriversAreNotWorkers`) and 1, the generation a worker
publishes, to be a generation (`FirstGeneration`).

### The authority and the ledger

`TypeOK` is inductive, action by action; the work is in the lemmas on what
`save` and `load` convert (`WholeBounded`, `ImageTypes`, the `Restored...` lemmas).
`GenerationsAgree` is inductive relative to `TypeOK`, because it says two things: a
recorded generation is that of the record, and a record is fenced unless load restored it. The
first alone would let a publication over an unfenced record of the same process go back.
`PublishEffect`, `RenewEffect` and `RestartUnfences` say what the three kinds of step do to
records and trackers. `FencedNeverRegresses` follows from both. `ReservationLedger` is not
inductive alone: a restart loads the file, so the file must hold each id once
(`FileLedger`), and for that the vector must when it is saved; the two are proved
together. `EraseId` gives what erase and push_back do to the ids of a vector. The
refinement shows, with `GenerationsAgree`, that each step is a `Grant`, `Revoke`, `Accept`,
`Renew`, `Restart` or a stutter under `Holder` and `Attribution`.

### Recovery

With loads over a model in use, `ReservationLedger` fails: a load may bring back an older
entry than its fence. What remains inductive is `LedgerInvariant`: types, each id once and
none newer than its fence, and the same of the file. `CurrentAtFence` is not inductive,
because a record that is not current may become current when its incarnation registers
again. `PublishedAtFence` is: a record that some incarnation stands behind (one that is no
orphan of a load) has the generation its tracker records. `ReleaseLedger` needs the file's
releases to be one per source (`FileReleases`), and `SecondRestartChangesNothing` needs the
file's amounts to be whole numbers of units (`FileWhole`): a load of a whole amount followed by
a save gives the same amount. `SurvivesRestart` and `WireLedgerReconstructs` are statements
about one state that follow from `TypeOK` and `ReservationLedger`: the tracker a load
rebuilds by going through the vector is the tracker of that vector, since no id occurs in it
twice.

### The earliest fit

`freeze`, `buildTimeline` and `rangeMin` are recursive functions. `RecursionExists`
(`SetInduction`) shows that such a function exists, and `IntervalInduction` what its values
are; both are proved from the well-foundedness of the naturals.

`Curve` says what a query needs to know of a timeline, and `BuildIsCurve` shows that every
ledger gives one: `SortRearranges` (what stands at any position after sorting was in the
vector) and the types of `applyDelta` and `negate` go into it. For a curve, `RangeMinIs` describes the running
minimum over the segments of a window. If every segment satisfies a requirement, the minimum
does (`RangeMinSatisfies`). The converse fails, since `Capacity::min` takes the second operand's
amount where the first has none; what is left of it is `RangeMinHolds`: an amount of the
minimum is at most that of each segment, but for segments before which, and in which, the
dimension does not occur. It occurs in the last one, so a fit meets its requirement at its last
instant (`FitHoldsInWindow`).

The starts `earliestFit` tries are enough for this reason. Let a requirement be satisfied on
each segment of the window at `t`, and let `u` be the last of the requested start and the event
times that is not after `t` (`LatestStart`). No event lies after `u` and up to `t`, so the
window of the same length at `u` touches no segment that the one at `t` does not
(`EarlierWindow`). Then the minimum over it satisfies, and the search returns `u` or an
earlier start. `MatchesReference` follows, because the starts are among those of the
reference when the window can end before the horizon.

### The curve

`SetInduction` proves what the sums need. `SumTableExists` shows that the fold behind `SumOf` has
a value on every finite domain; from it an element can be taken out of a sum (`SumRemove`),
sums are monotone (`SumMonotone`) and additive (`SumPlus`), and a sum is the same along an
injection that leaves out only zeroes (`SumReindex`).

An event of the timeline counts at an instant `t` with a *weight*: its delta if it has happened
by `t` (`Happened`), or its delta if it is earlier than `t` or takes something away at `t`
(`Worst`, what is left after the worst order of the events of `t`). A *flow* is the sum of
the weights of a sequence of events. `FlowSorted` shows that sorting keeps a flow, so
that what the curve shows can be compared with the events in the order in which they were
published. `PrefixBounds` goes through the sorted events: each prefix capacity is at least the
base and the deltas so far, and beyond that at most what some partial sum fell below zero, since
`applyDelta` clamps only there. `CurveBounds` then says that the curve at `t` is at least the base
and what has happened, never negative, and beyond it by no more than the flow of the worst order
falls below zero at some earlier instant. The worst order bounds every order of simultaneous
events, which is why the theorems need only `SortRearranges` of `std::sort`: up to 16 events it
keeps the order of publication (`StableSort`), and beyond it may give any order by time (`Sort`
chooses one). `HeldFlows` and `AllFlows` (by induction over the ledger, fact by fact)
turn flows of events into sums over reservations and releases, and `HoldFlowIs` and
`DueFlowIs` those into the reference's `Held`, `Ending` and `Credited`. `ReportedCapacityIsSound`
is that. `ModesAreOrdered` needs in addition that releases that are due later credit no more
by any instant (`LaterCreditsLess`): the higher mode's curve is then at least the lower mode's
exact account, and the lower mode's own excess is bounded.

### The queries

All properties of `Feasibility` are statements about one state that follow from `TypeOK`; the
work is in what the queries compute. `TotalIs` gives the amounts and the domain of
a total of capacities. The domain matters: a demand with an SLO obligation looks at every
dimension that is listed, and `subtractClamp` lists a dimension that either side lists.
`FitsWhen` turns the cascade of `evaluateNow` into the conjunction `Fitting` of its tests, on the
devices, on the amounts and on fragmentation.

- *Comparisons.* `NoMore` compares two capacities and `SomeOfTheRest` says that what only the
  larger one lists is not zero; then a requirement that the smaller satisfies the larger
  satisfies (`MoreSatisfies`), and headroom is kept (`MoreLeavesHeadroom`). A death
  (`FewerNeverFit`), more resources (`MoreResourcesFit`) and fewer reservations (`FewerHoldsFit`)
  are each shown to give such a pair. The proof for deaths failed at the second condition,
  for a report that lists a dimension at zero, and the properties now name it (`ListsNoZero`).
- *Scenarios.* `ScenarioOfNone`, `ScenarioOfOne` and `ScenarioOfTwo` unfold the recursion over the
  actions; a lemma for each action says which resources and reservations it leaves (`RemovedIs`,
  `AddingIs`, `CancelledIs` with `KeptIs` by induction over the vector, `BookedIs`,
  `DelayedIs`, `NoneLeft`).
- *The same devices in other places.* `buildView` keys the devices by device and a scenario by
  resource. `SameAnswer` shows that `evaluateNow` gives the same outcome whenever a bijection
  takes the devices of one view to equal devices of the other: counts, groups and the sums
  of the fragmentation report are kept along it. On an orderly fleet the resource of a device
  is such a bijection (`OrderlyViews`).
- *Now and later.* `EffectiveWithinCurve` puts the capacity of `evaluateNow`, clamped once, below
  the guaranteed curve with the bounds of the section above. `FutureFitHasStart` rests on
  `FitIsNotLate`.
- *No evidence.* `StaleEvidenceRefuses` covers the queries that test for evidence. For the
  earliest fit, `NothingComesOfNothing`: from an empty base, with no release due and no hold
  ended, the curve shows nothing, since no instant so far lacked more than the holds now running
  take; and a fit meets its requirement at its last instant.
- *Fragmentation.* `ReportParts` splits the free memory into that of the devices a shape can use
  and the rest. With the sums saturating, `SaturationHidesNothing` compares the two ratios
  by products.
- *The wire.* Sending removes fields that only constrain (`SentDemandFits`) and dimensions at
  zero (`FewerZeroesFit`).

### The coordinator and the deployment

`CoordinatorInvariant` is `TypeOK`, `ConnectionOK` (a client that never connected left nothing
behind), `AdmissionOK` (the accept thread's test of `active_` and its increment are two
steps, and nothing but a decrement comes between) and `LiveSourceHasConnection`. It
is shown for clients that send any request at any time with any payload. Every step of
`Deployment` is such a step (`DeploymentIsCoordinator`), so its workers and drivers inherit it.
`DeploymentInvariant` adds `ProgramsOK`, where a worker
is in its program given what is in its connection, and `Authority`: from the accepted REGISTER
on the source is the worker's incarnation, from the accepted PUBLISH on the record is its own,
unless another process shares the id or the resource.

An earlier form of `ReadyStaysCurrent` named only rivals for the same id. Its proof failed at
the publication of another worker that is assigned the same resource, a case the run's single
worker does not reach; the property now names both.

### The transport

`TransportInvariant` says, beside types, what `received` and the end of a receiver mean, and
the bound on the buffer: until the receiver gives up, the buffer, the stream and what the
sender's death cut off are together the frames of the messages sent and not yet received, with at
most one symbol damaged (`NothingMissing`). The lemmas on `decodeFrame` carry the proof:
`FrameShape`, `DecodesOnlyTheFrame` (a buffer that starts with a frame, perhaps with one symbol
changed, decodes to that frame or to an error, never to another message), `TruncatedIsShort`
and `BufferDecodes`. They rest on the checksum being a function of what it covers that
tells one changed symbol (FNV-1a is taken to have no collisions). TLC checked the
invariant on the `framing` instance before it was proved.

### Only model-checked

Liveness, which needs fairness and `ENABLED` and is out of the prover's reach:
`DeathInvalidates`, `StopReturnsOnceClientsLeave`, `SentIsReceived`, `CloseIsNoticed`,
`WorkerSettles` and `ShutdownEndsAll`. The definitions of section 4 that the code does not keep
are refuted by TLC.

## 6. Plan

Done: the modules, the runs and the theorems above. What could follow:

1. An abstract specification of the coordinator (who holds authority, given who is
   connected) and its refinement.
2. Scenarios of more than two actions: that actions on different resources and reservations
   commute, so that what is shown of one action extends to lists of them.

## 7. Running

`tlc -workers 2 -config <cfg> <module>` for each run of `PROJECT.json`;
`tlapm <module>` for each of `SetInduction`, `EvidenceProofs`, `CapacityModelProofs`,
`TimelineProofs`, `ProjectionProofs`, `FeasibilityProofs`, `DeploymentProofs` and
`TransportProofs`. The longest runs take about three minutes each, and so do the longest
proofs, `FeasibilityProofs` somewhat more.

## 8. Not modelled

- The byte encoding of the state file and of payloads: the file is torn or intact, and a
  payload is well formed or refused. Collisions of FNV-1a.
- The reuse of a `TcpConnection` after `close`, which keeps `inbuf_`: no caller does it.
  Listening, connecting, addresses and socket options.
- `load` concurrent with another call: it takes no mutex, so this is a data race; the calls of
  `Reload` come one after the other. `setEpoch`: nothing reads the epoch but HELLO.
- The coordinator's state path: `start` stores it, `handleConnection` receives it, and nothing
  uses it. A coordinator saves only when a client asks it to, and never loads.
- Negative holds, which `publishReservation` does not test for: inputs carry non-negative
  amounts.
- Confidence values (but for the exception), explanations, `describe`, `digest`, and
  forecast scores.
- `handlers_`, which keeps a thread object for every connection ever accepted: its growth
  changes no behaviour of the model.
- `seedReferenceModel`, the command line client, the CUDA device probing, benchmarks,
  examples and the packaging check: fixed lists of calls, I/O against real hardware, or
  callers with no logic of their own. The CUDA worker follows the program that
  `Deployment` models.
