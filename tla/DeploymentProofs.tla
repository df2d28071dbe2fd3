---------------------------- MODULE DeploymentProofs ----------------------------
(***************************************************************************)
(* Theorems about Coordinator and Deployment, for any number of workers,   *)
(* incarnations, resources, connections and drivers, any command lines,    *)
(* any assignment of resources and every limit on the connections.         *)
(*                                                                         *)
(* The first part is about the coordinator and clients that send whatever  *)
(* they like.  The second part uses it for the worker processes and the    *)
(* drivers, which are such clients.                                        *)
(***************************************************************************)
EXTENDS Deployment, EvidenceProofs, FiniteSetTheorems

\* A client that never connected left nothing behind.
ConnectionOK ==
    \A c \in Conns : peer[c] = "none" =>
        link[c] = "none" /\ curWorker[c] = NoWorker /\ pending[c] = Nothing
        /\ registered[c] = {}

\* A step of any client.
AnyClient(c) == connect(c) \/ (\E type \in RequestTypes : send(c, type)) \/ leave(c)

\* A step of the coordinator's threads or of any client.
AnyStep ==
    \/ AcceptLoop
    \/ stop \/ stopAgain \/ terminate \/ joinAccept \/ joinHandlers
    \/ \E c \in Conns : AnyClient(c) \/ Handler(c)

-----------------------------------------------------------------------------
(* Types.                                                                  *)

\* What the handlers ask of the model is an operation on the evidence.
LEMMA HandlerEvidence ==
    ASSUME TypeOK, NEW c \in Conns, Handler(c)
    PROVE  EvidenceNext \/ UNCHANGED evidenceVars
<1>1. CASE recvFails(c)
  <2>1. CASE curWorker[c] # NoWorker /\ curWorker[c] \in DOMAIN sources
    <3>1. markWorkerDead(curWorker[c]) /\ curWorker[c] \in Workers
      BY <1>1, <2>1 DEF recvFails, TypeOK
    <3> QED
      BY <3>1 DEF EvidenceNext
  <2>2. CASE ~(curWorker[c] # NoWorker /\ curWorker[c] \in DOMAIN sources)
    BY <1>1, <2>2 DEF recvFails
  <2> QED
    BY <2>1, <2>2
<1>2. ASSUME NEW id \in Claims, handleRegister(c, id)
      PROVE  EvidenceNext \/ UNCHANGED evidenceVars
  <2>1. CASE Registrable(id)
    <3>1. registerWorker(id.worker, id.boot)
      BY <1>2, <2>1 DEF handleRegister
    <3>2. id.worker \in Workers /\ id.boot \in Boots
      BY <2>1 DEF Registrable, Incarnations
    <3> QED
      BY <3>1, <3>2 DEF EvidenceNext
  <2>2. CASE ~Registrable(id)
    BY <1>2, <2>2 DEF handleRegister
  <2> QED
    BY <2>1, <2>2
<1>3. CASE dispatch(c)
  <2>1. ASSUME NEW id \in Claims, NEW r \in ResourceIds, NEW g \in Gens, NEW p \in Reports,
               Publish(c, id, r, g, p)
        PROVE  EvidenceNext \/ UNCHANGED evidenceVars
    <3> DEFINE w == id.worker
               b == id.boot
    <3>1. CASE publishResource(r, w, b, g, p)
      <4>1. w \in DOMAIN sources /\ sources[w].boot = b
        BY <3>1 DEF publishResource, Publishable, isFreshBoot, workerAlive
      <4>2. w \in Workers /\ b \in Boots
        BY <4>1 DEF TypeOK, EvidenceTypeOK, Source
      <4> QED
        BY <3>1, <4>2 DEF EvidenceNext
    <3>2. CASE UNCHANGED evidenceVars
      BY <3>2
    <3> QED
      BY <2>1, <3>1, <3>2 DEF Publish
  <2>2. ASSUME NEW r \in ResourceIds, Advance(c, r)
        PROVE  EvidenceNext \/ UNCHANGED evidenceVars
    BY <2>2 DEF Advance, EvidenceNext
  <2>3. CASE LeaveEvidence(c)
    BY <2>3 DEF LeaveEvidence
  <2> QED
    BY <1>3, <2>1, <2>2, <2>3 DEF dispatch
<1>4. CASE handleShutdown(c) \/ dispatchThrows(c) \/ endHandler(c)
  BY <1>4 DEF handleShutdown, dispatchThrows, Abort, endHandler
<1> QED
  BY <1>1, <1>2, <1>3, <1>4 DEF Handler

\* The types of the threads' and the clients' state.
ThreadTypeOK ==
    /\ running \in BOOLEAN /\ listening \in BOOLEAN
    /\ acceptor \in {"testing", "accepting", "admitting", "over"}
    /\ link \in [Conns -> {"none", "backlog", "accepted", "open", "returned", "closed"}]
    /\ curWorker \in [Conns -> Workers \cup {NoWorker}]
    /\ owner \in {"serving", "joiningAccept", "joiningHandlers", "drained", "skipped",
                  "aborted"}
    /\ peer \in [Conns -> {"none", "up", "gone"}]
    /\ pending \in [Conns -> RequestTypes \cup {Nothing}]
    /\ registered \in [Conns -> SUBSET Incarnations]

LEMMA ThreadTypes ==
    ASSUME ThreadTypeOK, [AnyStep]_coordinatorVars
    PROVE  ThreadTypeOK'
<1> USE DEF ThreadTypeOK
<1>1. CASE AcceptLoop
  BY <1>1 DEF AcceptLoop, testRunning, acceptFails, acceptConnection, startHandler, clientVars
<1>2. CASE Abort
  BY <1>2 DEF Abort
<1>3. CASE stop \/ stopAgain \/ joinAccept \/ joinHandlers
  BY <1>3 DEF stop, stopAgain, joinAccept, joinHandlers, clientVars
<1>4. ASSUME NEW c \in Conns, AnyClient(c)
      PROVE  ThreadTypeOK'
  <2>1. CASE connect(c)
    BY <2>1 DEF connect
  <2>2. ASSUME NEW type \in RequestTypes, send(c, type)
        PROVE  ThreadTypeOK'
    BY <2>2 DEF send, serverVars
  <2>3. CASE leave(c)
    BY <2>3 DEF leave, serverVars
  <2> QED
    BY <1>4, <2>1, <2>2, <2>3 DEF AnyClient
<1>5. ASSUME NEW c \in Conns, Handler(c)
      PROVE  ThreadTypeOK'
  <2>1. CASE recvFails(c)
    BY <2>1 DEF recvFails, Return, Handled
  <2>2. ASSUME NEW id \in Claims, handleRegister(c, id)
        PROVE  ThreadTypeOK'
    <3>1. /\ curWorker' \in [Conns -> Workers \cup {NoWorker}]
          /\ registered' \in [Conns -> SUBSET Incarnations]
      <4>1. id.worker \in Workers \cup {NoWorker}
        BY DEF Claims
      <4>2. registered' = registered
            \/ (id \in Incarnations
                /\ registered' = [registered EXCEPT ![c] = registered[c] \cup {id}])
        BY <2>2 DEF handleRegister, Registrable
      <4> QED
        BY <2>2, <4>1, <4>2 DEF handleRegister
    <3>2. pending' = [pending EXCEPT ![c] = Nothing]
          /\ UNCHANGED <<running, listening, acceptor, link, owner, peer>>
      BY <2>2 DEF handleRegister, Handled
    <3> QED
      BY <3>1, <3>2
  <2>3. CASE handleShutdown(c)
    BY <2>3 DEF handleShutdown, Return, Handled
  <2>4. CASE dispatch(c)
    <3>1. Answered(c)
      BY <2>4 DEF dispatch
    <3> QED
      BY <3>1 DEF Answered, Return, Handled
  <2>5. CASE dispatchThrows(c)
    BY <1>2, <2>5 DEF dispatchThrows
  <2>6. CASE endHandler(c)
    BY <2>6 DEF endHandler, clientVars
  <2> QED
    BY <1>5, <2>1, <2>2, <2>3, <2>4, <2>5, <2>6 DEF Handler
<1>6. CASE UNCHANGED coordinatorVars
  BY <1>6 DEF coordinatorVars, serverVars, clientVars
<1> QED
  BY <1>1, <1>2, <1>3, <1>4, <1>5, <1>6 DEF AnyStep, terminate

\* The evidence keeps its types under every step of the coordinator.
LEMMA EvidenceStepTypes ==
    ASSUME TypeOK, [AnyStep]_coordinatorVars
    PROVE  EvidenceTypeOK'
<1>1. EvidenceNext \/ UNCHANGED evidenceVars
  <2>1. ASSUME NEW c \in Conns, Handler(c)
        PROVE  EvidenceNext \/ UNCHANGED evidenceVars
    BY <2>1, HandlerEvidence
  <2>2. ASSUME NEW c \in Conns, AnyClient(c)
        PROVE  UNCHANGED evidenceVars
    BY <2>2 DEF AnyClient, connect, send, leave
  <2>3. CASE AcceptLoop
    BY <2>3 DEF AcceptLoop, testRunning, acceptFails, acceptConnection, startHandler
  <2>4. CASE stop \/ stopAgain \/ terminate \/ joinAccept \/ joinHandlers
    BY <2>4 DEF stop, stopAgain, terminate, Abort, joinAccept, joinHandlers
  <2>5. CASE UNCHANGED coordinatorVars
    BY <2>5 DEF coordinatorVars
  <2> QED
    BY <2>1, <2>2, <2>3, <2>4, <2>5 DEF AnyStep
<1>2. CASE EvidenceNext
  BY <1>2, EvidenceTypes DEF TypeOK
<1>3. CASE UNCHANGED evidenceVars
  BY <1>3 DEF evidenceVars, TypeOK, EvidenceTypeOK
<1> QED
  BY <1>1, <1>2, <1>3

\* No step leaves anything of a client that never connected.
LEMMA ConnectionStep ==
    ASSUME ThreadTypeOK, ConnectionOK, [AnyStep]_coordinatorVars
    PROVE  ConnectionOK'
<1> USE DEF ThreadTypeOK, ConnectionOK, Nothing
<1>1. CASE AcceptLoop
  <2>1. CASE testRunning \/ acceptFails
    BY <2>1 DEF testRunning, acceptFails, clientVars
  <2>2. ASSUME NEW c \in Conns, acceptConnection(c) \/ startHandler(c)
        PROVE  ConnectionOK'
    <3>1. /\ link[c] # "none"
          /\ link' = [link EXCEPT ![c] = link'[c]]
          /\ UNCHANGED <<curWorker, clientVars>>
      BY <2>2 DEF acceptConnection, startHandler
    <3>2. \A d \in Conns : d # c => link'[d] = link[d]
      BY <3>1
    <3> QED
      BY <3>1, <3>2 DEF clientVars
  <2> QED
    BY <1>1, <2>1, <2>2 DEF AcceptLoop
<1>2. CASE Abort
  BY <1>2 DEF Abort
<1>3. CASE stop \/ stopAgain \/ joinAccept \/ joinHandlers
  BY <1>3 DEF stop, stopAgain, joinAccept, joinHandlers, clientVars
<1>4. ASSUME NEW c \in Conns, AnyClient(c)
      PROVE  ConnectionOK'
  <2>1. CASE connect(c)
    <3>1. /\ peer'[c] = "up" /\ UNCHANGED <<curWorker, pending, registered>>
          /\ \A d \in Conns : d # c => peer'[d] = peer[d] /\ link'[d] = link[d]
      BY <2>1 DEF connect
    <3> QED
      BY <3>1
  <2>2. ASSUME NEW type \in RequestTypes, send(c, type)
        PROVE  ConnectionOK'
    BY <2>2 DEF send, serverVars
  <2>3. CASE leave(c)
    BY <2>3 DEF leave, serverVars
  <2> QED
    BY <1>4, <2>1, <2>2, <2>3 DEF AnyClient
<1>5. ASSUME NEW c \in Conns, Handler(c)
      PROVE  ConnectionOK'
  <2>1. CASE recvFails(c)
    BY <2>1 DEF recvFails, Return, Handled
  <2>2. ASSUME NEW id \in Claims, handleRegister(c, id)
        PROVE  ConnectionOK'
    <3>1. /\ link[c] = "open" /\ UNCHANGED <<link, peer>>
          /\ \A d \in Conns : d # c => /\ curWorker'[d] = curWorker[d]
                                       /\ pending'[d] = pending[d]
                                       /\ registered'[d] = registered[d]
      BY <2>2 DEF handleRegister, Handled
    <3> QED
      BY <3>1
  <2>3. CASE handleShutdown(c)
    BY <2>3 DEF handleShutdown, Return, Handled
  <2>4. CASE dispatch(c)
    <3>1. Answered(c)
      BY <2>4 DEF dispatch
    <3> QED
      BY <3>1 DEF Answered, Return, Handled
  <2>5. CASE dispatchThrows(c)
    BY <1>2, <2>5 DEF dispatchThrows
  <2>6. CASE endHandler(c)
    BY <2>6 DEF endHandler, clientVars
  <2> QED
    BY <1>5, <2>1, <2>2, <2>3, <2>4, <2>5, <2>6 DEF Handler
<1>6. CASE UNCHANGED coordinatorVars
  BY <1>6 DEF coordinatorVars, serverVars, clientVars
<1> QED
  BY <1>1, <1>2, <1>3, <1>4, <1>5, <1>6 DEF AnyStep, terminate

-----------------------------------------------------------------------------
(* The count of handlers and the limit.                                    *)

\* active_ counts the handlers; at most one connection is between the test of the
\* limit and the start of its handler, and only while the accept thread is there,
\* with room for it; and how far stop is bounds what the threads may still do.
AdmissionOK ==
    /\ IsFiniteSet(Handlers)
    /\ active = Cardinality(Handlers)
    /\ active <= MaxConnections
    /\ acceptor = "admitting" => active < MaxConnections
    /\ \A c \in Conns : link[c] = "accepted" => acceptor = "admitting"
    /\ \A c, d \in Conns : link[c] = "accepted" /\ link[d] = "accepted" => c = d
    /\ owner \in {"joiningAccept", "joiningHandlers", "drained"} => ~listening
    /\ owner \in {"joiningHandlers", "drained"} => acceptor = "over"
    /\ owner = "drained" => Handlers = {}

\* A step that starts no handler, admits no connection and moves neither the accept
\* thread nor the owner keeps the count.
LEMMA SameThreads ==
    ASSUME AdmissionOK, UNCHANGED <<active, acceptor, owner>>, listening' => listening,
           Handlers' = Handlers,
           \A c \in Conns : link'[c] = "accepted" => link[c] = "accepted"
    PROVE  AdmissionOK'
BY DEF AdmissionOK

\* The end of a handler takes one from the set and one from the count.
LEMMA EndAdmission ==
    ASSUME ThreadTypeOK, AdmissionOK, NEW c \in Conns, endHandler(c)
    PROVE  AdmissionOK'
<1>1. /\ link[c] = "returned" /\ link' = [link EXCEPT ![c] = "closed"]
      /\ active' = active - 1
      /\ UNCHANGED <<acceptor, owner, listening>>
  BY DEF endHandler
<1>2. c \in Handlers /\ Handlers' = Handlers \ {c}
  BY <1>1 DEF Handlers, ThreadTypeOK
<1>3. /\ IsFiniteSet(Handlers') /\ Cardinality(Handlers') = Cardinality(Handlers) - 1
      /\ Cardinality(Handlers) \in Nat
  BY <1>2, FS_RemoveElement, FS_CardinalityType DEF AdmissionOK
<1>4. \A d \in Conns : link'[d] = "accepted" => link[d] = "accepted"
  BY <1>1 DEF ThreadTypeOK
<1>5. /\ active' <= MaxConnections
      /\ acceptor = "admitting" => active' < MaxConnections
  BY <1>1, <1>3, MaxConnectionsNat DEF AdmissionOK
<1> QED
  BY <1>1, <1>2, <1>3, <1>4, <1>5 DEF AdmissionOK

\* A handler starts in the room the test of the limit had found: handlers may have
\* ended since, none can have started.
LEMMA StartAdmission ==
    ASSUME ThreadTypeOK, AdmissionOK, NEW c \in Conns, startHandler(c)
    PROVE  AdmissionOK'
<1>1. /\ acceptor = "admitting" /\ link[c] = "accepted"
      /\ link' = [link EXCEPT ![c] = "open"]
      /\ active' = active + 1 /\ acceptor' = "testing"
      /\ UNCHANGED <<owner, listening>>
  BY DEF startHandler
<1>2. c \notin Handlers /\ Handlers' = Handlers \cup {c}
  BY <1>1 DEF Handlers, ThreadTypeOK
<1>3. /\ IsFiniteSet(Handlers') /\ Cardinality(Handlers') = Cardinality(Handlers) + 1
      /\ Cardinality(Handlers) \in Nat
  BY <1>2, FS_AddElement, FS_CardinalityType DEF AdmissionOK
<1>4. \A d \in Conns : link'[d] # "accepted"
  BY <1>1 DEF ThreadTypeOK, AdmissionOK
<1>5. active' <= MaxConnections
  BY <1>1, <1>3, MaxConnectionsNat DEF AdmissionOK
<1>6. owner' \notin {"joiningHandlers", "drained"}
  BY <1>1 DEF AdmissionOK
<1> QED
  BY <1>1, <1>3, <1>4, <1>5, <1>6 DEF AdmissionOK

\* Accepting a connection, or refusing it at the limit.
LEMMA AcceptAdmission ==
    ASSUME ThreadTypeOK, AdmissionOK, NEW c \in Conns, acceptConnection(c)
    PROVE  AdmissionOK'
<1>0. Cardinality(Handlers) \in Nat
  BY FS_CardinalityType DEF AdmissionOK
<1>1. /\ acceptor = "accepting" /\ link[c] = "backlog"
      /\ \A d \in Conns : link[d] # "accepted"
      /\ UNCHANGED <<active, owner, listening>>
  BY DEF acceptConnection, AdmissionOK
<1>2. CASE active >= MaxConnections
  <2>1. link' = [link EXCEPT ![c] = "closed"] /\ acceptor' = "testing"
    BY <1>2 DEF acceptConnection
  <2>2. Handlers' = Handlers /\ \A d \in Conns : link'[d] # "accepted"
    BY <1>1, <2>1 DEF Handlers, ThreadTypeOK
  <2> QED
    BY <1>1, <2>1, <2>2 DEF AdmissionOK
<1>3. CASE ~(active >= MaxConnections)
  <2>1. link' = [link EXCEPT ![c] = "accepted"] /\ acceptor' = "admitting"
    BY <1>3 DEF acceptConnection
  <2>2. Handlers' = Handlers /\ \A d \in Conns : link'[d] = "accepted" => d = c
    BY <1>1, <2>1 DEF Handlers, ThreadTypeOK
  <2>3. active < MaxConnections
    BY <1>0, <1>3, MaxConnectionsNat DEF AdmissionOK
  <2> QED
    BY <1>1, <2>1, <2>2, <2>3 DEF AdmissionOK
<1> QED
  BY <1>2, <1>3

\* The end of the process leaves no handler.
LEMMA AbortAdmission ==
    ASSUME ThreadTypeOK, AdmissionOK, Abort
    PROVE  AdmissionOK'
<1>1. Handlers' = {} /\ \A d \in Conns : link'[d] # "accepted"
  BY DEF Abort, Handlers
<1> QED
  BY <1>1, FS_EmptySet, MaxConnectionsNat DEF Abort, AdmissionOK

\* Every step keeps the count, the limit and the order of stop.
LEMMA AdmissionStep ==
    ASSUME ThreadTypeOK, ConnectionOK, AdmissionOK, [AnyStep]_coordinatorVars
    PROVE  AdmissionOK'
<1>1. CASE AcceptLoop
  <2>1. CASE testRunning \/ acceptFails
    <3>1. /\ acceptor \in {"testing", "accepting"} /\ acceptor' # "admitting"
          /\ UNCHANGED <<link, active, owner, listening>>
      BY <2>1 DEF testRunning, acceptFails
    <3>2. Handlers' = Handlers /\ \A c \in Conns : link[c] # "accepted"
      BY <3>1 DEF Handlers, AdmissionOK
    <3> QED
      BY <3>1, <3>2 DEF AdmissionOK
  <2> QED
    BY <1>1, <2>1, AcceptAdmission, StartAdmission DEF AcceptLoop
<1>2. CASE stop
  <2>1. /\ owner' = "joiningAccept" /\ ~listening'
        /\ UNCHANGED <<acceptor, active>>
        /\ link' = [c \in Conns |-> IF link[c] = "backlog" THEN "closed" ELSE link[c]]
    BY <1>2 DEF stop
  <2>2. /\ Handlers' = Handlers
        /\ \A c \in Conns : link'[c] = "accepted" => link[c] = "accepted"
    BY <2>1 DEF Handlers, ThreadTypeOK
  <2> QED
    BY <2>1, <2>2 DEF AdmissionOK
<1>3. CASE stopAgain \/ joinAccept \/ joinHandlers
  <2>1. /\ UNCHANGED <<link, acceptor, active, listening>>
        /\ owner' \in {"joiningHandlers", "drained"} =>
              ~listening /\ acceptor = "over"
        /\ owner' = "drained" => Handlers = {}
        /\ owner' # "joiningAccept"
    BY <1>3 DEF stopAgain, joinAccept, joinHandlers, AdmissionOK
  <2>2. Handlers' = Handlers
    BY <2>1 DEF Handlers
  <2> QED
    BY <2>1, <2>2 DEF AdmissionOK
<1>4. CASE terminate
  BY <1>4, AbortAdmission DEF terminate
<1>5. ASSUME NEW c \in Conns, AnyClient(c)
      PROVE  AdmissionOK'
  <2>1. /\ UNCHANGED <<active, acceptor, owner, listening>>
        /\ Handlers' = Handlers
        /\ \A d \in Conns : link'[d] = "accepted" => link[d] = "accepted"
    <3>1. CASE UNCHANGED serverVars
      BY <3>1 DEF serverVars, Handlers
    <3>2. CASE connect(c)
      <4>1. /\ UNCHANGED <<active, acceptor, owner, listening>>
            /\ link[c] = "none" /\ link' = [link EXCEPT ![c] = "backlog"]
        BY <3>2 DEF connect, ConnectionOK
      <4> QED
        BY <4>1 DEF Handlers, ThreadTypeOK
    <3> QED
      BY <1>5, <3>1, <3>2 DEF AnyClient, send, leave
  <2> QED
    BY <2>1, SameThreads
<1>6. ASSUME NEW c \in Conns, Handler(c)
      PROVE  AdmissionOK'
  <2>1. CASE dispatchThrows(c)
    BY <2>1, AbortAdmission DEF dispatchThrows
  <2>2. CASE endHandler(c)
    BY <2>2, EndAdmission
  <2>3. CASE recvFails(c) \/ (\E id \in Claims : handleRegister(c, id)) \/ handleShutdown(c)
             \/ Answered(c)
    <3>1. /\ UNCHANGED <<active, acceptor, owner, listening>>
          /\ \/ UNCHANGED link
             \/ link[c] = "open" /\ link' = [link EXCEPT ![c] = "returned"]
      BY <2>3 DEF recvFails, handleRegister, handleShutdown, Answered, Return
    <3>2. /\ Handlers' = Handlers
          /\ \A d \in Conns : link'[d] = "accepted" => link[d] = "accepted"
      BY <3>1 DEF Handlers, ThreadTypeOK
    <3> QED
      BY <3>1, <3>2, SameThreads
  <2> QED
    BY <1>6, <2>1, <2>2, <2>3 DEF Handler, dispatch
<1>7. CASE UNCHANGED coordinatorVars
  <2>1. UNCHANGED <<active, acceptor, owner, listening, link>>
    BY <1>7 DEF coordinatorVars, serverVars
  <2>2. Handlers' = Handlers
    BY <2>1 DEF Handlers
  <2> QED
    BY <2>1, <2>2, SameThreads
<1> QED
  BY <1>1, <1>2, <1>3, <1>4, <1>5, <1>6, <1>7 DEF AnyStep

-----------------------------------------------------------------------------
(* Live sources.                                                           *)

\* The incarnation w runs was registered through connection c, which is open or has named
\* another worker since.
Behind(c, w) ==
    /\ [worker |-> w, boot |-> sources[w].boot] \in registered[c]
    /\ link[c] = "open" \/ curWorker[c] # w

\* A registration is behind its worker, and its connection, open as it is, is behind those
\* it was behind already.
LEMMA RegisterKeepsLive ==
    ASSUME TypeOK, LiveSourceHasConnection, NEW c \in Conns, NEW id \in Claims,
           handleRegister(c, id)
    PROVE  LiveSourceHasConnection'
<1> DEFINE w == id.worker
<1>1. /\ link[c] = "open" /\ curWorker' = [curWorker EXCEPT ![c] = w]
      /\ UNCHANGED <<running, link>>
  BY DEF handleRegister
<1>2. \A d \in Conns : registered[d] \subseteq registered'[d] /\ (d # c => curWorker'[d] = curWorker[d])
  BY <1>1 DEF handleRegister, TypeOK
<1>3. ASSUME NEW x \in Workers, NEW d \in Conns, Behind(d, x), sources'[x] = sources[x]
      PROVE  Behind(d, x)'
  <2>1. link'[d] = "open" \/ curWorker'[d] # x
    BY <1>1, <1>2, <1>3 DEF Behind
  <2> QED
    BY <1>2, <1>3, <2>1 DEF Behind
<1>4. ASSUME running', NEW x \in Workers, workerAlive(x)', sources'[x] = sources[x],
             workerAlive(x)
      PROVE  \E d \in Conns : Behind(d, x)'
  <2>1. PICK d \in Conns : Behind(d, x)
    BY <1>1, <1>4 DEF LiveSourceHasConnection, Behind
  <2> QED
    BY <1>3, <1>4, <2>1
<1>5. CASE Registrable(id)
  <2>1. /\ sources' = Put(sources, w, [boot |-> id.boot, alive |-> TRUE])
        /\ id \in Incarnations
        /\ registered' = [registered EXCEPT ![c] = registered[c] \cup {id}]
    BY <1>5 DEF handleRegister, registerWorker, Registrable
  <2>2. Behind(c, w)'
    <3>1. sources'[w].boot = id.boot /\ id = [worker |-> w, boot |-> id.boot]
      BY <2>1 DEF Put, Incarnations
    <3>2. id \in registered'[c] /\ link'[c] = "open"
      BY <1>1, <2>1 DEF TypeOK
    <3> QED
      BY <3>1, <3>2 DEF Behind
  <2>3. ASSUME NEW x \in Workers, x # w, workerAlive(x)'
        PROVE  workerAlive(x) /\ sources'[x] = sources[x]
    BY <2>1, <2>3 DEF workerAlive, Put
  <2>4. ASSUME running', NEW x \in Workers, workerAlive(x)'
        PROVE  \E d \in Conns : Behind(d, x)'
    <3>1. CASE x = w
      BY <2>2, <3>1
    <3>2. CASE x # w
      BY <1>4, <2>3, <2>4, <3>2
    <3> QED
      BY <3>1, <3>2
  <2> QED
    BY <2>4 DEF LiveSourceHasConnection, Behind
<1>6. CASE ~Registrable(id)
  <2>1. UNCHANGED sources
    BY <1>6 DEF handleRegister, evidenceVars
  <2> QED
    BY <1>4, <2>1 DEF LiveSourceHasConnection, Behind, workerAlive
<1> QED
  BY <1>5, <1>6

\* A handler that ends because nothing can be received takes its worker's life along.
LEMMA ReceiveFailureKeepsLive ==
    ASSUME TypeOK, LiveSourceHasConnection, NEW c \in Conns, recvFails(c)
    PROVE  LiveSourceHasConnection'
<1>1. /\ link[c] = "open" /\ link' = [link EXCEPT ![c] = "returned"]
      /\ UNCHANGED <<running, curWorker>>
  BY DEF recvFails, Return
<1>2. registered' = registered /\ \A d \in Conns : d # c => link'[d] = link[d]
  BY <1>1 DEF TypeOK, recvFails
<1>3. ASSUME NEW x \in Workers, workerAlive(x)'
      PROVE  workerAlive(x) /\ sources'[x] = sources[x] /\ curWorker[c] # x
  <2>1. CASE curWorker[c] # NoWorker /\ curWorker[c] \in DOMAIN sources
    <3> DEFINE w == curWorker[c]
    <3>1. w \in DOMAIN sources /\ sources' = [sources EXCEPT ![w].alive = FALSE]
      BY <2>1 DEF recvFails, markWorkerDead
    <3>2. sources[w] \in Source
      BY <3>1 DEF TypeOK, EvidenceTypeOK
    <3> HIDE DEF w
    <3>3. /\ DOMAIN sources' = DOMAIN sources
          /\ ~sources'[w].alive
          /\ \A y \in DOMAIN sources : y # w => sources'[y] = sources[y]
      BY <3>1, <3>2 DEF Source
    <3>4. workerAlive(x) /\ sources'[x] = sources[x] /\ w # x
      BY <1>3, <3>3 DEF workerAlive
    <3> QED
      BY <3>4 DEF w
  <2>2. CASE ~(curWorker[c] # NoWorker /\ curWorker[c] \in DOMAIN sources)
    <3>1. UNCHANGED sources
      BY <2>2 DEF recvFails, evidenceVars
    <3> QED
      BY <1>3, <2>2, <3>1, InvalidIds DEF workerAlive
  <2> QED
    BY <2>1, <2>2
<1>4. ASSUME running', NEW x \in Workers, workerAlive(x)'
      PROVE  \E d \in Conns : Behind(d, x)'
  <2>1. workerAlive(x) /\ sources'[x] = sources[x] /\ curWorker[c] # x
    BY <1>3, <1>4
  <2>2. PICK d \in Conns : Behind(d, x)
    BY <1>1, <1>4, <2>1 DEF LiveSourceHasConnection, Behind
  <2>3. link'[d] = "open" \/ curWorker'[d] # x
    BY <1>1, <1>2, <2>1, <2>2 DEF Behind
  <2> QED
    BY <1>2, <2>1, <2>2, <2>3 DEF Behind
<1> QED
  BY <1>4 DEF LiveSourceHasConnection, Behind

\* Every step keeps a connection behind each live source, or stops the coordinator.
LEMMA LiveStep ==
    ASSUME TypeOK, ConnectionOK, LiveSourceHasConnection, [AnyStep]_coordinatorVars
    PROVE  LiveSourceHasConnection'
<1>1. ASSUME UNCHANGED <<sources, curWorker, running, registered>>, Open \subseteq Open'
      PROVE  LiveSourceHasConnection'
  <2>1. \A x : workerAlive(x)' = workerAlive(x)
    BY <1>1 DEF workerAlive
  <2>2. \A d \in Conns : link[d] = "open" => link'[d] = "open"
    BY <1>1 DEF Open
  <2> QED
    BY <1>1, <2>1, <2>2 DEF LiveSourceHasConnection
<1>2. CASE ~running'
  BY <1>2 DEF LiveSourceHasConnection
<1>3. CASE AcceptLoop
  <2>1. UNCHANGED <<sources, curWorker, running, registered>>
    BY <1>3 DEF AcceptLoop, testRunning, acceptFails, acceptConnection, startHandler,
                evidenceVars, clientVars
  <2>2. Open \subseteq Open'
    <3>1. CASE UNCHANGED link
      BY <3>1 DEF Open
    <3>2. ASSUME NEW c \in Conns, acceptConnection(c) \/ startHandler(c)
          PROVE  Open \subseteq Open'
      <4>1. link[c] # "open" /\ \A d \in Conns : d # c => link'[d] = link[d]
        BY <3>2 DEF acceptConnection, startHandler, TypeOK
      <4> QED
        BY <4>1 DEF Open
    <3> QED
      BY <1>3, <3>1, <3>2 DEF AcceptLoop, testRunning, acceptFails
  <2> QED
    BY <1>1, <2>1, <2>2
<1>4. CASE stop \/ terminate
  BY <1>2, <1>4 DEF stop, terminate, Abort
<1>5. CASE stopAgain \/ joinAccept \/ joinHandlers \/ UNCHANGED coordinatorVars
  <2>1. UNCHANGED <<sources, curWorker, running, link, registered>>
    BY <1>5 DEF stopAgain, joinAccept, joinHandlers, coordinatorVars, evidenceVars, serverVars,
                clientVars
  <2> QED
    BY <1>1, <2>1 DEF Open
<1>6. ASSUME NEW c \in Conns, AnyClient(c)
      PROVE  LiveSourceHasConnection'
  <2>1. CASE UNCHANGED <<evidenceVars, serverVars, registered>>
    BY <1>1, <2>1 DEF evidenceVars, serverVars, Open
  <2>2. CASE connect(c)
    <3>1. /\ UNCHANGED <<sources, curWorker, running, registered>>
          /\ link[c] = "none" /\ link' = [link EXCEPT ![c] = "backlog"]
      BY <2>2 DEF connect, ConnectionOK, evidenceVars
    <3>2. Open \subseteq Open'
      BY <3>1 DEF Open, TypeOK
    <3> QED
      BY <1>1, <3>1, <3>2
  <2> QED
    BY <1>6, <2>1, <2>2 DEF AnyClient, send, leave
<1>7. ASSUME NEW c \in Conns, Handler(c)
      PROVE  LiveSourceHasConnection'
  <2>1. CASE recvFails(c)
    BY <2>1, ReceiveFailureKeepsLive
  <2>2. ASSUME NEW id \in Claims, handleRegister(c, id)
        PROVE  LiveSourceHasConnection'
    BY <2>2, RegisterKeepsLive
  <2>3. CASE handleShutdown(c) \/ dispatchThrows(c)
    BY <1>2, <2>3 DEF handleShutdown, dispatchThrows, Abort
  <2>4. CASE dispatch(c)
    <3>1. UNCHANGED <<sources, curWorker, registered>>
      <4>1. UNCHANGED sources
        BY <2>4 DEF dispatch, Publish, Advance, LeaveEvidence, publishResource,
                    advanceResourceGeneration, evidenceVars
      <4> QED
        BY <2>4, <4>1 DEF dispatch, Answered
    <3>2. UNCHANGED <<running, link>> \/ ~running'
      BY <2>4 DEF dispatch, Answered
    <3> QED
      BY <1>1, <1>2, <3>1, <3>2 DEF Open
  <2>5. CASE endHandler(c)
    <3>1. /\ UNCHANGED <<sources, curWorker, running, registered>>
          /\ link[c] = "returned" /\ link' = [link EXCEPT ![c] = "closed"]
      BY <2>5 DEF endHandler, evidenceVars, clientVars
    <3>2. Open \subseteq Open'
      BY <3>1 DEF Open, TypeOK
    <3> QED
      BY <1>1, <3>1, <3>2
  <2> QED
    BY <1>7, <2>1, <2>2, <2>3, <2>4, <2>5 DEF Handler
<1> QED
  BY <1>3, <1>4, <1>5, <1>6, <1>7 DEF AnyStep

-----------------------------------------------------------------------------
(* The theorems.                                                           *)

\* The inductive invariant.
CoordinatorInvariant == TypeOK /\ ConnectionOK /\ AdmissionOK /\ LiveSourceHasConnection

LEMMA CoordinatorInit ==
    ASSUME Init
    PROVE  CoordinatorInvariant
<1>1. EvidenceTypeOK
  BY DEF Init, EvidenceInit, EvidenceTypeOK
<1>2. TypeOK
  BY <1>1 DEF Init, TypeOK
<1>3. ConnectionOK
  BY DEF Init, ConnectionOK, Nothing
<1>4. Handlers = {}
  BY DEF Init, Handlers
<1>5. AdmissionOK
  BY <1>4, FS_EmptySet, MaxConnectionsNat DEF Init, AdmissionOK
<1>6. LiveSourceHasConnection
  BY DEF Init, EvidenceInit, LiveSourceHasConnection, workerAlive
<1> QED
  BY <1>2, <1>3, <1>5, <1>6 DEF CoordinatorInvariant

LEMMA CoordinatorStep ==
    ASSUME CoordinatorInvariant, [AnyStep]_coordinatorVars
    PROVE  CoordinatorInvariant'
<1>1. TypeOK /\ ThreadTypeOK /\ ConnectionOK /\ AdmissionOK /\ LiveSourceHasConnection
  BY DEF CoordinatorInvariant, TypeOK, ThreadTypeOK
<1>2. ThreadTypeOK'
  BY <1>1, ThreadTypes
<1>3. EvidenceTypeOK'
  BY <1>1, EvidenceStepTypes
<1>4. ConnectionOK'
  BY <1>1, ConnectionStep
<1>5. AdmissionOK'
  BY <1>1, AdmissionStep
<1>6. active' \in Nat
  BY <1>5, FS_CardinalityType DEF AdmissionOK
<1>7. TypeOK'
  BY <1>2, <1>3, <1>6 DEF TypeOK, ThreadTypeOK
<1>8. LiveSourceHasConnection'
  BY <1>1, LiveStep
<1> QED
  BY <1>4, <1>5, <1>7, <1>8 DEF CoordinatorInvariant

LEMMA CoordinatorInvariantHolds == SafetySpec => []CoordinatorInvariant
<1>1. Init => CoordinatorInvariant
  BY CoordinatorInit
<1>2. CoordinatorInvariant /\ [Next]_coordinatorVars => CoordinatorInvariant'
  <2>1. \A c \in Conns : Client(c) => AnyClient(c)
    BY RequestsAreRequests DEF Client, AnyClient
  <2>2. Next => AnyStep
    BY <2>1 DEF Next, AnyStep
  <2> QED
    BY <2>2, CoordinatorStep
<1> QED
  BY <1>1, <1>2, PTL DEF SafetySpec

\* The threads' and the clients' state and the evidence have their types in every
\* reachable state (src/coordinator/coordinator.cpp).
THEOREM CoordinatorTypeCorrect == Spec => []TypeOK
<1>1. CoordinatorInvariant => TypeOK
  BY DEF CoordinatorInvariant
<1> QED
  BY <1>1, CoordinatorInvariantHolds, PTL DEF Spec

\* active_ counts the handler threads that have not ended and never passes the limit,
\* and a stop that drained left no thread, for any number of connections and any limit
\* (src/coordinator/coordinator.cpp, acceptLoop, the handler's lambda, stop).
THEOREM ActiveCountsHandlers == Spec => []ActiveIsHandlers
<1>1. CoordinatorInvariant => ActiveIsHandlers
  BY FS_EmptySet DEF CoordinatorInvariant, AdmissionOK, ActiveIsHandlers
<1> QED
  BY <1>1, CoordinatorInvariantHolds, PTL DEF Spec

\* While the coordinator runs, a live incarnation was registered through a connection that
\* is open still or has named another worker since, whatever the clients' payloads name
\* (src/coordinator/coordinator.cpp, handleConnection's curWorker).
THEOREM LiveSourcesAreConnected == Spec => []LiveSourceHasConnection
<1>1. CoordinatorInvariant => LiveSourceHasConnection
  BY DEF CoordinatorInvariant
<1> QED
  BY <1>1, CoordinatorInvariantHolds, PTL DEF Spec

-----------------------------------------------------------------------------
(* Part two: worker processes and drivers.                                 *)

\* The process of a connection is an incarnation of a worker.
Identified(c) == CommandLine[c] \in Incarnations

\* The worker of this connection has been told that it is registered ...
Registered(c) ==
    \/ step[c] \in {"publish", "ready"}
    \/ step[c] = "register" /\ answer[c] = "yes"

\* ... and that its resource is published.
Published(c) ==
    \/ step[c] = "ready"
    \/ step[c] = "publish" /\ answer[c] = "yes"

\* Other worker processes that publish the same resource.
Others(c) == {d \in Conns \ {c} : IsWorker(d) /\ ResourceOf(d) = ResourceOf(c)}

\* The resource's record was written by this worker's incarnation.
RecordIsMine(c) ==
    /\ ResourceOf(c) \in DOMAIN resources
    /\ resources[ResourceOf(c)].worker = CommandLine[c].worker
    /\ resources[ResourceOf(c)].boot = CommandLine[c].boot

\* How far a worker's program is, and what is on the wire and known at the other end then.
Program(c) ==
    /\ step[c] = "none" => peer[c] = "none"
    /\ step[c] = "driver" =>
          peer[c] # "none" /\ CommandLine[c] = Driver /\ pending[c] \notin {"Register", "Publish"}
    /\ IsWorker(c) => Identified(c) /\ pending[c] \in {Nothing, "Other", "Register", "Publish"}
    /\ step[c] \in {"connected", "ready"} \cup Waiting => peer[c] = "up"
    /\ step[c] = "ended" => peer[c] = "gone"
    /\ step[c] \notin Waiting => answer[c] = NoAnswer
    /\ IsWorker(c) /\ peer[c] = "up" /\ pending[c] # Nothing =>
          /\ answer[c] = NoAnswer
          /\ <<step[c], pending[c]>> \in {<<"hello", "Other">>, <<"register", "Register">>,
                                          <<"publish", "Publish">>}
    /\ step[c] \in {"connected", "hello"} \/ (pending[c] = "Register" /\ peer[c] = "up") =>
          curWorker[c] = NoWorker
    /\ Registered(c) \/ (IsWorker(c) /\ pending[c] = "Publish") =>
          curWorker[c] = CommandLine[c].worker
    /\ link[c] \in {"none", "backlog", "accepted"} =>
          answer[c] = NoAnswer /\ step[c] \notin {"register", "publish", "ready"}
    /\ curWorker[c] \in {NoWorker, CommandLine[c].worker}
    /\ \A id \in registered[c] :
          id.worker = CommandLine[c].worker /\ curWorker[c] = CommandLine[c].worker

\* What the replies a worker has had still mean, unless another process stands in its way.
Authority(c) ==
    link[c] = "open" =>
        /\ Registered(c) => \/ Rivals(c) # {}
                            \/ isFreshBoot(CommandLine[c].worker, CommandLine[c].boot)
        /\ Published(c) => Others(c) # {} \/ RecordIsMine(c)

\* The inductive invariant.
ProgramsOK ==
    /\ CoordinatorInvariant
    /\ step \in [Conns -> Steps]
    /\ answer \in [Conns -> {NoAnswer, "yes", "no"}]
    /\ \A c \in Conns : Program(c)

DeploymentInvariant == ProgramsOK /\ \A c \in Conns : Authority(c)

-----------------------------------------------------------------------------
(* The deployment runs the coordinator.                                    *)

\* Every step of the deployment is a step of the coordinator with its clients.
LEMMA DeploymentIsCoordinator ==
    ASSUME ProgramsOK, [DeploymentNext]_deploymentVars
    PROVE  [AnyStep]_coordinatorVars
<1>1. ASSUME NEW c \in Conns, startWorker(c)
      PROVE  AnyClient(c)
  BY <1>1 DEF startWorker, AnyClient
<1>2. ASSUME NEW c \in Conns, startDriver(c)
      PROVE  AnyClient(c)
  BY <1>2 DEF startDriver, AnyClient
<1>3. ASSUME NEW c \in Conns, Worker(c) \/ kill(c)
      PROVE  AnyClient(c) \/ UNCHANGED coordinatorVars
  <2>1. CASE sayHello(c)
    BY <2>1 DEF sayHello, AnyClient, RequestTypes
  <2>2. CASE register(c)
    BY <2>2 DEF register, AnyClient, RequestTypes
  <2>3. CASE publish(c)
    BY <2>3 DEF publish, AnyClient, RequestTypes
  <2>4. CASE hold(c)
    BY <2>4 DEF hold
  <2>5. CASE giveUp(c) \/ kill(c)
    BY <2>5 DEF giveUp, kill, AnyClient
  <2> QED
    BY <1>3, <2>1, <2>2, <2>3, <2>4, <2>5 DEF Worker
<1>4. ASSUME NEW c \in Conns, drive(c)
      PROVE  AnyClient(c)
  BY <1>4, DriversAreNotWorkers DEF drive, AnyClient
<1>5. ASSUME NEW c \in Conns, Service(c)
      PROVE  Handler(c)
  <2>0. CommandLine[c] \in Claims
    BY CommandLines DEF Incarnations, Claims, Driver
  <2>1. CASE replyHello(c)
    BY <2>1 DEF replyHello, Handler, dispatch
  <2>2. CASE replyRegister(c)
    BY <2>0, <2>2 DEF replyRegister, Handler
  <2>3. CASE replyPublish(c)
    <3>1. ResourceOf(c) \in ResourceIds
      BY <2>3, AssignedResources DEF replyPublish, ProgramsOK, Program, Identified, Incarnations,
                                     ResourceOf
    <3> QED
      BY <2>0, <2>3, <3>1, FirstGeneration DEF replyPublish, Handler, dispatch
  <2>4. CASE replyDriver(c)
    BY <2>4 DEF replyDriver, Handler
  <2>5. CASE WithoutReply(c)
    BY <2>5 DEF WithoutReply, Handler
  <2> QED
    BY <1>5, <2>1, <2>2, <2>3, <2>4, <2>5 DEF Service
<1>6. CASE Accepting \/ MainThread
  BY <1>6 DEF Accepting, MainThread, AnyStep
<1>7. CASE UNCHANGED deploymentVars
  BY <1>7 DEF deploymentVars
<1> QED
  BY <1>1, <1>2, <1>3, <1>4, <1>5, <1>6, <1>7 DEF DeploymentNext, AnyStep

-----------------------------------------------------------------------------
(* The workers' programs.                                                  *)

\* A step that leaves the worker and its handler alone, but may take its request from the
\* wire or bring its connection nearer to its end.
LEMMA ProgramFrame ==
    ASSUME NEW c \in Conns, Program(c),
           step'[c] = step[c], answer'[c] = answer[c], peer'[c] = peer[c],
           curWorker'[c] = curWorker[c], registered'[c] = registered[c],
           pending'[c] \in {pending[c], Nothing},
           link'[c] \in {"none", "backlog", "accepted"} =>
               link[c] \in {"none", "backlog", "accepted"}
    PROVE  Program(c)'
BY DEF Program, IsWorker, Identified, Registered, Nothing

\* The steps that move neither a worker nor a driver.
LEMMA ProgramsUnmoved ==
    ASSUME ProgramsOK, UNCHANGED <<step, answer>>,
           \/ Accepting \/ MainThread
           \/ \E k \in Conns : replyDriver(k) \/ WithoutReply(k)
           \/ UNCHANGED deploymentVars
    PROVE  \A c \in Conns : Program(c)'
<1> DEFINE Early == {"none", "backlog", "accepted"}
           Kept == /\ UNCHANGED <<peer, curWorker, registered>>
                   /\ \A c \in Conns : /\ pending'[c] \in {pending[c], Nothing}
                                       /\ link'[c] \in Early => link[c] \in Early
<1> SUFFICES Kept
  BY ProgramFrame DEF ProgramsOK
<1>0. ThreadTypeOK
  BY DEF ProgramsOK, CoordinatorInvariant, TypeOK, ThreadTypeOK
<1>1. CASE Accepting
  <2>1. UNCHANGED <<curWorker, clientVars>>
    BY <1>1 DEF Accepting, AcceptLoop, testRunning, acceptFails, acceptConnection, startHandler
  <2>2. CASE UNCHANGED link
    BY <2>1, <2>2 DEF clientVars
  <2>3. ASSUME NEW k \in Conns, acceptConnection(k) \/ startHandler(k)
        PROVE  Kept
    <3>1. link[k] \in Early /\ \A c \in Conns : c # k => link'[c] = link[c]
      BY <1>0, <2>3 DEF acceptConnection, startHandler, ThreadTypeOK
    <3> QED
      BY <2>1, <3>1 DEF clientVars
  <2> QED
    BY <1>1, <2>2, <2>3 DEF Accepting, AcceptLoop, testRunning, acceptFails
<1>2. CASE Abort
  BY <1>2 DEF Abort
<1>3. CASE MainThread
  <2>1. CASE stopAgain
    BY <2>1 DEF stopAgain, clientVars
  <2> QED
    BY <1>2, <1>3, <2>1 DEF MainThread, terminate
<1>4. ASSUME NEW k \in Conns, replyDriver(k) \/ WithoutReply(k)
      PROVE  Kept
  <2>1. CASE recvFails(k) \/ handleShutdown(k) \/ Answered(k)
    <3>1. /\ UNCHANGED <<peer, curWorker, registered>>
          /\ pending' = [pending EXCEPT ![k] = Nothing]
          /\ UNCHANGED link \/ link' = [link EXCEPT ![k] = "returned"]
      BY <2>1 DEF recvFails, handleShutdown, Answered, Return, Handled
    <3> QED
      BY <1>0, <3>1 DEF ThreadTypeOK
  <2>2. CASE dispatchThrows(k)
    BY <1>2, <2>2 DEF dispatchThrows
  <2>3. CASE endHandler(k)
    BY <1>0, <2>3 DEF endHandler, clientVars, ThreadTypeOK
  <2> QED
    BY <1>4, <2>1, <2>2, <2>3 DEF replyDriver, WithoutReply, dispatch
<1>5. CASE UNCHANGED deploymentVars
  BY <1>5 DEF deploymentVars, coordinatorVars, serverVars, clientVars
<1> QED
  BY <1>1, <1>3, <1>4, <1>5

\* The steps of a client, and the replies to a worker, follow its program.
LEMMA ProgramsMoved ==
    ASSUME ProgramsOK, NEW k \in Conns,
           \/ startWorker(k) \/ startDriver(k) \/ Worker(k) \/ kill(k) \/ drive(k)
           \/ replyHello(k) \/ replyRegister(k) \/ replyPublish(k)
    PROVE  \A c \in Conns : Program(c)'
<1>0. /\ ThreadTypeOK /\ ConnectionOK /\ Program(k)
      /\ step \in [Conns -> Steps] /\ answer \in [Conns -> {NoAnswer, "yes", "no"}]
  BY DEF ProgramsOK, CoordinatorInvariant, TypeOK, ThreadTypeOK
<1> USE DEF At, Answer
<1>1. ASSUME NEW c \in Conns, c # k
      PROVE  Program(c)'
  <2>1. /\ step'[c] = step[c] /\ answer'[c] = answer[c] /\ peer'[c] = peer[c]
        /\ curWorker'[c] = curWorker[c] /\ registered'[c] = registered[c]
        /\ pending'[c] = pending[c] /\ link'[c] = link[c]
    <3>1. CASE startWorker(k) \/ startDriver(k)
      BY <1>0, <1>1, <3>1 DEF startWorker, startDriver, connect, ThreadTypeOK
    <3>2. CASE Worker(k) \/ kill(k)
      BY <1>0, <1>1, <3>2 DEF Worker, sayHello, register, publish, hold, giveUp, kill, send,
            leave, serverVars, coordinatorVars, clientVars, ThreadTypeOK
    <3>3. CASE drive(k)
      BY <1>0, <1>1, <3>3 DEF drive, send, leave, serverVars, ThreadTypeOK
    <3>4. CASE replyHello(k) \/ replyPublish(k)
      BY <1>0, <1>1, <3>4 DEF replyHello, replyPublish, Answered, Handled, Return, ThreadTypeOK
    <3>5. CASE replyRegister(k)
      BY <1>0, <1>1, <3>5 DEF replyRegister, handleRegister, Handled, ThreadTypeOK
    <3> QED
      BY <3>1, <3>2, <3>3, <3>4, <3>5
  <2> QED
    BY <2>1, ProgramFrame DEF ProgramsOK
<1> USE DEF Program, IsWorker, Identified, Registered, Waiting, NoAnswer, Nothing
<1>2. CASE startWorker(k) \/ startDriver(k)
  <2>1. /\ step'[k] \in {"connected", "driver"} /\ peer'[k] = "up" /\ link'[k] = "backlog"
        /\ answer'[k] = answer[k] /\ pending'[k] = Nothing /\ curWorker'[k] = NoWorker
        /\ peer[k] = "none" /\ registered'[k] = {}
    BY <1>0, <1>2 DEF startWorker, startDriver, connect, ConnectionOK, ThreadTypeOK
  <2>2. answer[k] = NoAnswer
    BY <1>0, <2>1 DEF Steps
  <2>3. /\ step'[k] = "driver" => CommandLine[k] = Driver
        /\ step'[k] = "connected" => CommandLine[k] \in Incarnations
    BY <1>0, <1>2, CommandLines DEF startWorker, startDriver
  <2>4. Program(k)'
    BY <2>1, <2>2, <2>3
  <2> QED
    BY <1>1, <2>4
<1>3. CASE sayHello(k) \/ register(k) \/ publish(k)
  <2>1. /\ peer[k] = "up" /\ pending[k] = Nothing
        /\ peer'[k] = "up" /\ UNCHANGED <<link, curWorker, registered>>
        /\ link[k] \in {"backlog", "accepted", "open"}
    BY <1>0, <1>3 DEF sayHello, register, publish, send, serverVars
  <2>2. /\ answer'[k] = NoAnswer
        /\ \/ step[k] = "connected" /\ step'[k] = "hello" /\ pending'[k] = "Other"
           \/ step[k] = "hello" /\ answer[k] = "yes" /\ step'[k] = "register"
              /\ pending'[k] = "Register"
           \/ step[k] = "register" /\ answer[k] = "yes" /\ step'[k] = "publish"
              /\ pending'[k] = "Publish"
    BY <1>0, <1>3, <2>1 DEF sayHello, register, publish, send, ThreadTypeOK
  <2>3. Program(k)'
    BY <1>0, <2>1, <2>2
  <2> QED
    BY <1>1, <2>3
<1>4. CASE hold(k)
  <2>1. /\ step[k] = "publish" /\ answer[k] = "yes" /\ step'[k] = "ready"
        /\ answer'[k] = NoAnswer
        /\ UNCHANGED <<peer, link, curWorker, pending, registered>>
    BY <1>0, <1>4 DEF hold, coordinatorVars, serverVars, clientVars
  <2>2. Program(k)'
    BY <1>0, <2>1
  <2> QED
    BY <1>1, <2>2
<1>5. CASE giveUp(k) \/ kill(k)
  <2>1. /\ IsWorker(k) /\ step'[k] = "ended" /\ answer'[k] = NoAnswer
        /\ peer'[k] = "gone"
        /\ UNCHANGED <<link, curWorker, pending, registered>>
    BY <1>0, <1>5 DEF giveUp, kill, leave, serverVars, ThreadTypeOK
  <2>2. Program(k)'
    BY <1>0, <2>1
  <2> QED
    BY <1>1, <2>2
<1>6. CASE drive(k)
  <2>1. /\ step[k] = "driver" /\ UNCHANGED <<step, answer, link, curWorker, registered>>
        /\ peer'[k] \in {"up", "gone"} /\ pending'[k] \in {pending[k]} \cup DriverRequests
    BY <1>0, <1>6 DEF drive, send, leave, serverVars, ThreadTypeOK
  <2>2. Program(k)'
    BY <1>0, <2>1, DriversAreNotWorkers
  <2> QED
    BY <1>1, <2>2
<1>7. CASE replyHello(k) \/ replyPublish(k)
  <2>1. /\ IsWorker(k) /\ pending[k] \in {"Other", "Publish"} /\ pending'[k] = Nothing
        /\ link[k] = "open" /\ link'[k] \in {"open", "returned"}
        /\ UNCHANGED <<step, peer, curWorker, registered>>
        /\ peer[k] # "up" => answer'[k] = NoAnswer
    BY <1>0, <1>7 DEF replyHello, replyPublish, LeaveEvidence, Publish, Answered, Handled,
                      Return, ThreadTypeOK
  <2>2. peer[k] = "up" => step[k] \in {"hello", "publish"}
    BY <1>0, <2>1
  <2>3. step[k] \in {"connected", "ready"} \cup Waiting => peer[k] = "up"
    BY <1>0
  <2>4. Program(k)'
    BY <1>0, <2>1, <2>2, <2>3
  <2> QED
    BY <1>1, <2>4
<1>8. CASE replyRegister(k)
  <2>1. /\ pending[k] = "Register" /\ pending'[k] = Nothing
        /\ link[k] = "open" /\ link'[k] = "open"
        /\ UNCHANGED <<step, peer>>
        /\ curWorker'[k] = CommandLine[k].worker
        /\ registered'[k] \subseteq registered[k] \cup {CommandLine[k]}
        /\ peer[k] # "up" => answer'[k] = NoAnswer
    BY <1>0, <1>8 DEF replyRegister, handleRegister, Handled, ThreadTypeOK
  <2>2. step[k] \in {"register", "ended"}
    BY <1>0, <2>1 DEF ConnectionOK, Steps
  <2>3. Program(k)'
    BY <1>0, <2>1, <2>2
  <2> QED
    BY <1>1, <2>3
<1> QED
  BY <1>2, <1>3, <1>4, <1>5, <1>6, <1>7, <1>8 DEF Worker

LEMMA ProgramsStep ==
    ASSUME ProgramsOK, [DeploymentNext]_deploymentVars
    PROVE  ProgramsOK'
<1>1. CoordinatorInvariant'
  BY DeploymentIsCoordinator, CoordinatorStep DEF ProgramsOK
<1>2. /\ step' \in [Conns -> Steps]
      /\ answer' \in [Conns -> {NoAnswer, "yes", "no"}]
  <2> USE DEF ProgramsOK, At, Answer, Steps, Waiting
  <2>1. CASE Accepting \/ MainThread \/ UNCHANGED deploymentVars
    BY <2>1 DEF Accepting, MainThread, deploymentVars
  <2>2. ASSUME NEW k \in Conns, startWorker(k) \/ startDriver(k) \/ drive(k)
        PROVE  /\ step' \in [Conns -> Steps]
               /\ answer' \in [Conns -> {NoAnswer, "yes", "no"}]
    BY <2>2 DEF startWorker, startDriver, drive
  <2>3. ASSUME NEW k \in Conns, Worker(k) \/ kill(k)
        PROVE  /\ step' \in [Conns -> Steps]
               /\ answer' \in [Conns -> {NoAnswer, "yes", "no"}]
    BY <2>3 DEF Worker, sayHello, register, publish, hold, giveUp, kill
  <2>4. ASSUME NEW k \in Conns, Service(k)
        PROVE  /\ step' \in [Conns -> Steps]
               /\ answer' \in [Conns -> {NoAnswer, "yes", "no"}]
    BY <2>4 DEF Service, replyHello, replyRegister, replyPublish, replyDriver, WithoutReply
  <2> QED
    BY <2>1, <2>2, <2>3, <2>4 DEF DeploymentNext
<1>3. \A c \in Conns : Program(c)'
  <2>1. CASE Accepting \/ MainThread \/ UNCHANGED deploymentVars
    BY <2>1, ProgramsUnmoved DEF Accepting, MainThread, deploymentVars
  <2>2. ASSUME NEW k \in Conns, replyDriver(k) \/ WithoutReply(k)
        PROVE  \A c \in Conns : Program(c)'
    BY <2>2, ProgramsUnmoved DEF replyDriver, WithoutReply
  <2> QED
    BY <2>1, <2>2, ProgramsMoved DEF DeploymentNext, Service
<1> QED
  BY <1>1, <1>2, <1>3 DEF ProgramsOK

-----------------------------------------------------------------------------
(* What a step may do to a worker's authority.                             *)

\* A process stays a worker's, a handler keeps the worker it noted, and a connection opens
\* only from the accepted.
LEMMA StepKeepsWorkers ==
    ASSUME ProgramsOK, [DeploymentNext]_deploymentVars, NEW c \in Conns
    PROVE  /\ curWorker'[c] \in {curWorker[c], CommandLine[c].worker}
           /\ IsWorker(c) => IsWorker(c)'
           /\ link'[c] = "open" => link[c] \in {"accepted", "open"}
<1>0. /\ ThreadTypeOK /\ ConnectionOK /\ Program(c)
      /\ step \in [Conns -> Steps]
  BY DEF ProgramsOK, CoordinatorInvariant, TypeOK, ThreadTypeOK
<1>2. /\ curWorker'[c] \in {curWorker[c], CommandLine[c].worker}
      /\ link'[c] = "open" => link[c] \in {"accepted", "open"}
  <2> DEFINE Kept == /\ curWorker'[c] \in {curWorker[c], CommandLine[c].worker}
                     /\ link'[c] = "open" => link[c] \in {"accepted", "open"}
  <2> USE <1>0 DEF ThreadTypeOK
  <2>1. CASE Accepting
    BY <2>1 DEF Accepting, AcceptLoop, testRunning, acceptFails, acceptConnection,
                startHandler
  <2>2. CASE Abort
    BY <2>2 DEF Abort
  <2>3. CASE MainThread \/ UNCHANGED deploymentVars
    BY <2>2, <2>3 DEF MainThread, stopAgain, terminate, deploymentVars, coordinatorVars,
                      serverVars
  <2>4. ASSUME NEW k \in Conns,
               \/ startWorker(k) \/ startDriver(k) \/ Worker(k) \/ kill(k) \/ drive(k)
        PROVE  Kept
    BY <2>4 DEF startWorker, startDriver, Worker, sayHello, register, publish, hold, giveUp,
                kill, drive, connect, send, leave, serverVars, coordinatorVars
  <2>5. ASSUME NEW k \in Conns, Service(k)
        PROVE  Kept
    <3>1. CASE recvFails(k) \/ handleShutdown(k) \/ Answered(k) \/ endHandler(k)
      BY <3>1 DEF recvFails, handleShutdown, Answered, endHandler, Return
    <3>2. CASE handleRegister(k, CommandLine[k])
      BY <3>2 DEF handleRegister
    <3> QED
      BY <2>2, <2>5, <3>1, <3>2 DEF Service, replyHello, replyRegister, replyPublish,
            replyDriver, dispatch, WithoutReply, dispatchThrows
  <2> QED
    BY <2>1, <2>3, <2>4, <2>5 DEF DeploymentNext
<1>3. IsWorker(c) => peer[c] # "none"
  BY <1>0 DEF Program, IsWorker, Steps, Waiting
<1>4. IsWorker(c) => IsWorker(c)'
  <2> USE DEF At, IsWorker
  <2>1. CASE Accepting \/ MainThread \/ UNCHANGED deploymentVars
    BY <2>1 DEF Accepting, MainThread, deploymentVars
  <2>2. ASSUME NEW k \in Conns, startWorker(k) \/ startDriver(k) \/ drive(k)
        PROVE  IsWorker(c) => IsWorker(c)'
    BY <1>0, <1>3, <2>2 DEF startWorker, startDriver, drive, connect
  <2>3. ASSUME NEW k \in Conns, Worker(k) \/ kill(k)
        PROVE  IsWorker(c) => IsWorker(c)'
    BY <1>0, <2>3 DEF Worker, sayHello, register, publish, hold, giveUp, kill
  <2>4. ASSUME NEW k \in Conns, Service(k)
        PROVE  IsWorker(c) => IsWorker(c)'
    BY <2>4 DEF Service, replyHello, replyRegister, replyPublish, replyDriver, WithoutReply
  <2> QED
    BY <2>1, <2>2, <2>3, <2>4 DEF DeploymentNext
<1> QED
  BY <1>2, <1>3, <1>4

\* So what stands in a worker's way stays there.
LEMMA RivalsStay ==
    ASSUME ProgramsOK, [DeploymentNext]_deploymentVars, NEW c \in Conns, IsWorker(c)
    PROVE  Rivals(c) \subseteq Rivals(c)' /\ Others(c) \subseteq Others(c)'
<1>1. CommandLine[c].worker \in Workers
  BY DEF ProgramsOK, Program, Identified, Incarnations
<1>2. ASSUME NEW d \in Rivals(c)
      PROVE  d \in Rivals(c)'
  <2>1. d \in Conns \ {c} /\ curWorker[d] = CommandLine[c].worker /\ curWorker[d] # NoWorker
    BY <1>1, <1>2, InvalidIds DEF Rivals
  <2>2. curWorker'[d] = curWorker[d]
    BY <2>1, StepKeepsWorkers DEF ProgramsOK, Program
  <2> QED
    BY <1>1, <2>1, <2>2 DEF Rivals
<1>3. ASSUME NEW d \in Others(c)
      PROVE  d \in Others(c)'
  <2>1. IsWorker(d)'
    BY <1>3, StepKeepsWorkers DEF Others
  <2> QED
    BY <1>3, <2>1 DEF Others, ResourceOf
<1> QED
  BY <1>2, <1>3

\* A live incarnation is lost only with the connection of a handler that noted it.
LEMMA SourceLost ==
    ASSUME ProgramsOK, [DeploymentNext]_deploymentVars, NEW w, NEW b, isFreshBoot(w, b)
    PROVE  \/ isFreshBoot(w, b)'
           \/ \E k \in Conns : link[k] = "open" /\ curWorker[k] = w /\ link'[k] # "open"
<1>0. ThreadTypeOK /\ EvidenceTypeOK
  BY DEF ProgramsOK, CoordinatorInvariant, TypeOK, ThreadTypeOK
<1>1. [AnyStep]_coordinatorVars
  BY DeploymentIsCoordinator
<1>2. CASE UNCHANGED sources
  BY <1>2 DEF isFreshBoot, workerAlive
<1>3. ASSUME NEW k \in Conns, recvFails(k), ~UNCHANGED sources
      PROVE  \/ isFreshBoot(w, b)'
             \/ link[k] = "open" /\ curWorker[k] = w /\ link'[k] # "open"
  <2>1. /\ link[k] = "open" /\ link'[k] = "returned"
        /\ sources' = [sources EXCEPT ![curWorker[k]].alive = FALSE]
    BY <1>0, <1>3 DEF recvFails, markWorkerDead, Return, evidenceVars, ThreadTypeOK
  <2>2. CASE curWorker[k] = w
    BY <2>1, <2>2
  <2>3. CASE curWorker[k] # w
    BY <2>1, <2>3 DEF isFreshBoot, workerAlive
  <2> QED
    BY <2>2, <2>3
<1>4. ASSUME NEW k \in Conns, NEW id \in Claims, handleRegister(k, id), ~UNCHANGED sources
      PROVE  isFreshBoot(w, b)'
  <2> DEFINE x == id.worker
             y == id.boot
  <2>1. Replaceable(x, y) /\ sources' = Put(sources, x, [boot |-> y, alive |-> TRUE])
    BY <1>4 DEF handleRegister, Registrable, registerWorker, evidenceVars
  <2>2. x = w => y = b
    BY <2>1 DEF Replaceable, isFreshBoot, workerAlive
  <2> QED
    BY <2>1, <2>2 DEF Put, isFreshBoot, workerAlive
<1>5. ASSUME NEW k \in Conns, Handler(k), ~recvFails(k),
             ~\E id \in Claims : handleRegister(k, id)
      PROVE  UNCHANGED sources
  BY <1>5 DEF Handler, handleShutdown, dispatch, Publish, Advance, LeaveEvidence,
              publishResource, advanceResourceGeneration, dispatchThrows, Abort, endHandler,
              evidenceVars
<1>6. AnyStep => UNCHANGED sources \/ \E k \in Conns : Handler(k)
  BY DEF AnyStep, AcceptLoop, testRunning, acceptFails, acceptConnection, startHandler, stop,
         stopAgain, terminate, Abort, joinAccept, joinHandlers, AnyClient, connect, send, leave,
         evidenceVars
<1> QED
  BY <1>1, <1>2, <1>3, <1>4, <1>5, <1>6 DEF coordinatorVars, evidenceVars

\* A record changes hands only by the publication of a worker whose resource it is.
LEMMA RecordLost ==
    ASSUME ProgramsOK, [DeploymentNext]_deploymentVars, NEW r \in DOMAIN resources
    PROVE  /\ r \in DOMAIN resources'
           /\ \/ /\ resources'[r].worker = resources[r].worker
                 /\ resources'[r].boot = resources[r].boot
              \/ \E k \in Conns :
                    /\ IsWorker(k) /\ link[k] = "open" /\ ResourceOf(k) = r
                    /\ curWorker[k] = CommandLine[k].worker
                    /\ isFreshBoot(CommandLine[k].worker, CommandLine[k].boot)
                    /\ resources'[r].worker = CommandLine[k].worker
                    /\ resources'[r].boot = CommandLine[k].boot
<1> DEFINE Same == /\ r \in DOMAIN resources'
                   /\ resources'[r].worker = resources[r].worker
                   /\ resources'[r].boot = resources[r].boot
<1>0. EvidenceTypeOK /\ resources[r] \in ResourceRecord
  BY DEF ProgramsOK, CoordinatorInvariant, TypeOK, EvidenceTypeOK
<1>1. CASE UNCHANGED resources
  BY <1>1
<1>2. ASSUME NEW k \in Conns, NEW x \in ResourceIds, Advance(k, x)
      PROVE  Same
  <2>1. CASE UNCHANGED resources
    BY <2>1
  <2>2. CASE advanceResourceGeneration(x)
    BY <1>0, <2>2 DEF advanceResourceGeneration, ResourceRecord
  <2> QED
    BY <1>2, <2>1, <2>2 DEF Advance, evidenceVars
<1>3. ASSUME NEW k \in Conns, replyPublish(k), ~UNCHANGED resources
      PROVE  /\ r \in DOMAIN resources'
             /\ \/ Same
                \/ /\ IsWorker(k) /\ link[k] = "open" /\ ResourceOf(k) = r
                   /\ curWorker[k] = CommandLine[k].worker
                   /\ isFreshBoot(CommandLine[k].worker, CommandLine[k].boot)
                   /\ resources'[r].worker = CommandLine[k].worker
                   /\ resources'[r].boot = CommandLine[k].boot
  <2> DEFINE w == CommandLine[k].worker
             b == CommandLine[k].boot
  <2>1. PICK p \in Reports : Publish(k, CommandLine[k], ResourceOf(k), 1, p)
    BY <1>3 DEF replyPublish
  <2>2. /\ isFreshBoot(w, b)
        /\ resources' = Put(resources, ResourceOf(k),
                            [worker |-> w, boot |-> b, gen |-> 1, report |-> p])
    BY <1>3, <2>1 DEF Publish, publishResource, Publishable, evidenceVars
  <2>3. IsWorker(k) /\ link[k] = "open" /\ pending[k] = "Publish"
    BY <1>3, <2>1 DEF replyPublish, Answered, Publish
  <2>4. curWorker[k] = w
    BY <2>3 DEF ProgramsOK, Program
  <2> QED
    BY <2>2, <2>3, <2>4 DEF Put
<1>4. ASSUME NEW k \in Conns, replyDriver(k)
      PROVE  Same
  <2>1. pending[k] # "Publish"
    BY <1>4 DEF replyDriver, IsWorker, ProgramsOK, Program, CoordinatorInvariant,
                ConnectionOK, Nothing
  <2>2. LeaveEvidence(k) => UNCHANGED resources
    BY DEF LeaveEvidence, evidenceVars
  <2> QED
    BY <1>2, <1>4, <2>1, <2>2 DEF replyDriver, dispatch, Publish
<1>5. ASSUME NEW k \in Conns, replyHello(k) \/ replyRegister(k) \/ WithoutReply(k)
      PROVE  UNCHANGED resources
  BY <1>5 DEF replyHello, LeaveEvidence, replyRegister, handleRegister, registerWorker,
              WithoutReply, recvFails, markWorkerDead, handleShutdown, dispatchThrows, Abort,
              endHandler, evidenceVars
<1>6. ASSUME NEW k \in Conns, \/ startWorker(k) \/ startDriver(k) \/ Worker(k) \/ kill(k)
                              \/ drive(k)
      PROVE  UNCHANGED resources
  BY <1>6 DEF startWorker, startDriver, Worker, sayHello, register, publish, hold, giveUp, kill,
              drive, connect, send, leave, evidenceVars, coordinatorVars
<1>7. Accepting \/ MainThread \/ UNCHANGED deploymentVars => UNCHANGED resources
  BY DEF Accepting, MainThread, AcceptLoop, testRunning, acceptFails, acceptConnection,
         startHandler, stopAgain, terminate, Abort, deploymentVars, coordinatorVars, evidenceVars
<1> QED
  BY <1>1, <1>3, <1>4, <1>5, <1>6, <1>7 DEF DeploymentNext, Service

\* A worker whose own program does not move keeps its authority or has found a rival.
LEMMA AuthorityFrame ==
    ASSUME ProgramsOK, [DeploymentNext]_deploymentVars, NEW c \in Conns, Authority(c),
           Registered(c)' => Registered(c), Published(c)' => Published(c)
    PROVE  Authority(c)'
<1> DEFINE w == CommandLine[c].worker
           b == CommandLine[c].boot
<1> SUFFICES ASSUME link'[c] = "open", Registered(c)
             PROVE  /\ Registered(c)' => Rivals(c)' # {} \/ isFreshBoot(w, b)'
                    /\ Published(c)' => Others(c)' # {} \/ RecordIsMine(c)'
  <2>1. Published(c)' => Registered(c)'
    BY DEF Published, Registered
  <2> QED
    BY <2>1 DEF Authority
<1>1. IsWorker(c) /\ step[c] \in {"register", "publish", "ready"}
  BY DEF IsWorker, Registered
<1>2. link[c] = "open"
  BY <1>1, StepKeepsWorkers DEF ProgramsOK, Program
<1>3. Rivals(c) \subseteq Rivals(c)' /\ Others(c) \subseteq Others(c)'
  BY <1>1, RivalsStay
<1>4. ASSUME isFreshBoot(w, b)
      PROVE  Rivals(c)' # {} \/ isFreshBoot(w, b)'
  <2>0. PICK x, y : x = w /\ y = b
    OBVIOUS
  <2>1. CASE isFreshBoot(x, y)'
    BY <1>2, <2>0, <2>1
  <2>2. ASSUME NEW k \in Conns, link[k] = "open", curWorker[k] = w, link'[k] # "open"
        PROVE  Rivals(c)' # {}
    <3>1. k \in Rivals(c)
      BY <2>2 DEF Rivals
    <3> QED
      BY <1>3, <3>1
  <2>3. isFreshBoot(x, y)
    BY <1>4, <2>0
  <2> QED
    BY <2>0, <2>1, <2>2, <2>3, SourceLost
<1>5. ASSUME RecordIsMine(c)
      PROVE  Others(c)' # {} \/ RecordIsMine(c)'
  <2> DEFINE r == ResourceOf(c)
  <2>0. r \in DOMAIN resources /\ resources[r].worker = w /\ resources[r].boot = b
    BY <1>5 DEF RecordIsMine
  <2>1. CASE /\ r \in DOMAIN resources'
             /\ resources'[r].worker = resources[r].worker
             /\ resources'[r].boot = resources[r].boot
    BY <1>2, <2>0, <2>1 DEF RecordIsMine, ResourceOf
  <2>2. ASSUME NEW k \in Conns, IsWorker(k), ResourceOf(k) = r, r \in DOMAIN resources',
               resources'[r].worker = CommandLine[k].worker,
               resources'[r].boot = CommandLine[k].boot
        PROVE  Others(c)' # {} \/ RecordIsMine(c)'
    <3>1. CASE k = c
      BY <1>2, <2>2, <3>1 DEF RecordIsMine, ResourceOf
    <3>2. CASE k # c
      <4>1. k \in Others(c)
        BY <2>2, <3>2 DEF Others
      <4> QED
        BY <1>3, <4>1
    <3> QED
      BY <3>1, <3>2
  <2> HIDE DEF r
  <2> QED
    BY <2>0, <2>1, <2>2, RecordLost
<1> QED
  BY <1>2, <1>3, <1>4, <1>5 DEF Authority

\* Registering, publishing and holding give a worker what its replies say.
LEMMA AuthorityGained ==
    ASSUME ProgramsOK, NEW c \in Conns, Authority(c),
           replyRegister(c) \/ replyPublish(c) \/ publish(c) \/ hold(c)
    PROVE  Authority(c)'
<1> DEFINE w == CommandLine[c].worker
           b == CommandLine[c].boot
<1>0. /\ ThreadTypeOK /\ ConnectionOK /\ Program(c) /\ step \in [Conns -> Steps]
      /\ answer \in [Conns -> {NoAnswer, "yes", "no"}]
  BY DEF ProgramsOK, CoordinatorInvariant, TypeOK, ThreadTypeOK
<1> USE DEF At, Answer
<1>1. CASE replyRegister(c)
  <2>1. /\ pending[c] = "Register" /\ link[c] = "open"
        /\ UNCHANGED <<step, peer>>
        /\ answer'[c] = "yes" => peer[c] = "up" /\ Registrable(CommandLine[c])
    BY <1>0, <1>1 DEF replyRegister, handleRegister, NoAnswer
  <2>2. step[c] \in {"register", "ended"}
    BY <1>0, <2>1 DEF Program, ConnectionOK, IsWorker, Nothing, Steps, Waiting
  <2>3. ASSUME answer'[c] = "yes"
        PROVE  isFreshBoot(w, b)'
    <3>1. registerWorker(w, b)
      BY <1>1, <2>1, <2>3 DEF replyRegister, handleRegister
    <3>2. sources' = Put(sources, w, [boot |-> b, alive |-> TRUE])
      BY <3>1 DEF registerWorker
    <3> QED
      BY <3>2 DEF Put, isFreshBoot, workerAlive
  <2>4. ~Published(c)' /\ (Registered(c)' => answer'[c] = "yes")
    BY <2>1, <2>2 DEF Published, Registered
  <2> QED
    BY <2>1, <2>3, <2>4 DEF Authority
<1>2. CASE replyPublish(c)
  <2>1. /\ IsWorker(c) /\ pending[c] = "Publish" /\ link[c] = "open"
        /\ UNCHANGED <<step, peer, curWorker, sources>>
        /\ answer'[c] = "yes" => peer[c] = "up" /\ Publishable(ResourceOf(c), w, b, 1)
    BY <1>0, <1>2 DEF replyPublish, Publish, publishResource, Answered, NoAnswer, evidenceVars
  <2>2. step[c] \in {"publish", "ended"}
    BY <1>0, <2>1 DEF Program, ConnectionOK, IsWorker, Nothing, Steps, Waiting
  <2>3. ASSUME answer'[c] = "yes"
        PROVE  RecordIsMine(c)'
    <3>1. PICK p \in Reports : publishResource(ResourceOf(c), w, b, 1, p)
      BY <1>2, <2>1, <2>3 DEF replyPublish, Publish
    <3>2. resources' = Put(resources, ResourceOf(c),
                           [worker |-> w, boot |-> b, gen |-> 1, report |-> p])
      BY <3>1 DEF publishResource
    <3> QED
      BY <2>1, <3>2 DEF Put, RecordIsMine, ResourceOf
  <2>4. /\ Registered(c)' => Registered(c)
        /\ Published(c)' => answer'[c] = "yes"
    BY <2>1, <2>2 DEF Published, Registered
  <2>5. Rivals(c)' = Rivals(c) /\ isFreshBoot(w, b)' = isFreshBoot(w, b)
    BY <2>1 DEF Rivals, isFreshBoot, workerAlive
  <2> QED
    BY <2>1, <2>3, <2>4, <2>5 DEF Authority
<1>3. CASE publish(c) \/ hold(c)
  <2>1. UNCHANGED <<evidenceVars, link, curWorker>>
    BY <1>3 DEF publish, hold, send, serverVars, coordinatorVars, clientVars
  <2>2. Registered(c) /\ (Published(c)' => Published(c))
    BY <1>0, <1>3 DEF publish, hold, Registered, Published, NoAnswer
  <2>3. IsWorker(c)' /\ IsWorker(c) /\ \A d \in Conns : d # c => step'[d] = step[d]
    BY <1>0, <1>3 DEF publish, hold, IsWorker
  <2>4. /\ Rivals(c)' = Rivals(c) /\ Others(c)' = Others(c)
        /\ isFreshBoot(w, b)' = isFreshBoot(w, b) /\ RecordIsMine(c)' = RecordIsMine(c)
    BY <2>1, <2>3 DEF Rivals, Others, IsWorker, ResourceOf, isFreshBoot, workerAlive,
                      RecordIsMine, evidenceVars
  <2> QED
    BY <2>1, <2>2, <2>4 DEF Authority
<1> QED
  BY <1>1, <1>2, <1>3

LEMMA AuthorityStep ==
    ASSUME DeploymentInvariant, [DeploymentNext]_deploymentVars, NEW c \in Conns
    PROVE  Authority(c)'
<1>0. /\ ProgramsOK /\ Authority(c) /\ Program(c) /\ step \in [Conns -> Steps]
      /\ answer \in [Conns -> {NoAnswer, "yes", "no"}]
  BY DEF DeploymentInvariant, ProgramsOK
<1> USE DEF At, Answer
<1>1. CASE replyRegister(c) \/ replyPublish(c) \/ publish(c) \/ hold(c)
  BY <1>0, <1>1, AuthorityGained
<1>2. ASSUME step'[c] = step[c], answer'[c] = answer[c]
      PROVE  Authority(c)'
  BY <1>0, <1>2, AuthorityFrame DEF Registered, Published
<1>3. ASSUME ~Registered(c)', ~Published(c)'
      PROVE  Authority(c)'
  BY <1>3 DEF Authority
<1>4. CASE Accepting \/ MainThread \/ UNCHANGED deploymentVars
  BY <1>2, <1>4 DEF Accepting, MainThread, deploymentVars
<1>5. ASSUME NEW k \in Conns, replyDriver(k) \/ WithoutReply(k) \/ drive(k)
      PROVE  Authority(c)'
  BY <1>2, <1>5 DEF replyDriver, WithoutReply, drive
<1>6. ASSUME NEW k \in Conns, k # c,
             \/ startWorker(k) \/ startDriver(k) \/ Worker(k) \/ kill(k)
             \/ replyHello(k) \/ replyRegister(k) \/ replyPublish(k)
      PROVE  Authority(c)'
  <2>1. step'[c] = step[c] /\ answer'[c] = answer[c]
    BY <1>0, <1>6 DEF startWorker, startDriver, Worker, sayHello, register, publish, hold,
          giveUp, kill, replyHello, replyRegister, replyPublish
  <2> QED
    BY <1>2, <2>1
<1>7. CASE startWorker(c) \/ startDriver(c) \/ sayHello(c) \/ giveUp(c) \/ kill(c)
  <2>1. step'[c] \in {"connected", "driver", "hello", "ended"}
    BY <1>0, <1>7 DEF startWorker, startDriver, sayHello, giveUp, kill
  <2> QED
    BY <1>3, <2>1 DEF Registered, Published
<1>8. CASE register(c)
  <2>1. step'[c] = "register" /\ answer'[c] = NoAnswer
    BY <1>0, <1>8 DEF register
  <2> QED
    BY <1>3, <2>1 DEF Registered, Published, NoAnswer
<1>9. CASE replyHello(c)
  <2>1. step'[c] = step[c] /\ IsWorker(c) /\ pending[c] = "Other"
    BY <1>9 DEF replyHello, LeaveEvidence
  <2>2. step[c] \in {"hello", "ended"}
    BY <1>0, <2>1 DEF Program, IsWorker, Steps, Waiting, Nothing
  <2> QED
    BY <1>3, <2>1, <2>2 DEF Registered, Published
<1> QED
  BY <1>1, <1>4, <1>5, <1>6, <1>7, <1>8, <1>9 DEF DeploymentNext, Service, Worker

-----------------------------------------------------------------------------
(* The theorems.                                                           *)

LEMMA DeploymentInvariantHolds == DeploymentSpec => []DeploymentInvariant
<1>1. DeploymentInit => DeploymentInvariant
  <2> SUFFICES ASSUME DeploymentInit
               PROVE  DeploymentInvariant
    OBVIOUS
  <2>1. CoordinatorInvariant
    BY CoordinatorInit DEF DeploymentInit
  <2>2. ASSUME NEW c \in Conns
        PROVE  Program(c) /\ Authority(c)
    BY <2>2 DEF DeploymentInit, Init, Program, Authority, IsWorker, Registered, Waiting,
                Nothing, NoAnswer
  <2> QED
    BY <2>1, <2>2 DEF DeploymentInit, DeploymentInvariant, ProgramsOK, Steps
<1>2. DeploymentInvariant /\ [DeploymentNext]_deploymentVars => DeploymentInvariant'
  BY ProgramsStep, AuthorityStep DEF DeploymentInvariant
<1> QED
  BY <1>1, <1>2, PTL DEF DeploymentSpec

\* READY means current: while a worker that printed it holds its connection and no other
\* worker process shares its id or its resource, its resource is recorded, current and its
\* own, whatever any number of drivers ask, which register and publish nothing, and however
\* other workers end (src/tools/worker_main.cpp, src/coordinator/coordinator.cpp,
\* handleConnection).
THEOREM ReadyMeansCurrent == DeploymentSpec => []ReadyIsCurrent
<1>1. DeploymentInvariant => ReadyIsCurrent
  <2> SUFFICES ASSUME DeploymentInvariant, NEW c \in Conns, step[c] = "ready",
                      link[c] = "open", Alone(c)
               PROVE  /\ ResourceOf(c) \in CurrentResources
                      /\ resources[ResourceOf(c)].worker = CommandLine[c].worker
    BY DEF ReadyIsCurrent
  <2>1. Registered(c) /\ Published(c) /\ Program(c) /\ Authority(c) /\ IsWorker(c)
    BY DEF Registered, Published, IsWorker, DeploymentInvariant, ProgramsOK
  <2>2. Identified(c)
    BY <2>1 DEF Program
  <2>3. Others(c) = {}
    BY DEF Alone, Others
  <2>4. Rivals(c) = {}
    <3> SUFFICES ASSUME NEW d \in Rivals(c)
                 PROVE  FALSE
      OBVIOUS
    <3>1. d \in Conns \ {c} /\ curWorker[d] = CommandLine[c].worker /\ curWorker[d] # NoWorker
      BY <2>2, InvalidIds DEF Rivals, Identified, Incarnations
    <3>2. curWorker[d] = CommandLine[d].worker
      BY <3>1 DEF DeploymentInvariant, ProgramsOK, Program
    <3>3. peer[d] # "none"
      BY <3>1 DEF DeploymentInvariant, ProgramsOK, CoordinatorInvariant, ConnectionOK
    <3>4. step[d] # "driver"
      BY <3>1, <3>2 DEF DeploymentInvariant, ProgramsOK, Program, Driver
    <3>5. IsWorker(d)
      BY <3>1, <3>3, <3>4 DEF DeploymentInvariant, ProgramsOK, Program, IsWorker
    <3> QED
      BY <3>1, <3>2, <3>5 DEF Alone
  <2> QED
    BY <2>1, <2>2, <2>3, <2>4, InvalidIds
       DEF Authority, RecordIsMine, CurrentResources, Current, Identified, Incarnations
<1> QED
  BY <1>1, DeploymentInvariantHolds, PTL

\* And it stays so: the evidence behind READY is lost only through another open connection
\* that has claimed the same id or that of another worker for the same resource
\* (src/coordinator/coordinator.cpp, handleConnection's curWorker).
THEOREM ReadyStays == DeploymentSpec => ReadyStaysCurrent
<1>1. ASSUME DeploymentInvariant, [DeploymentNext]_deploymentVars, NEW c \in Conns
      PROVE  step[c] = "ready" /\ link[c] = "open" /\ (link[c] = "open")' /\ IsMine(c)
               => IsMine(c)' \/ Contested(c)
  <2> SUFFICES ASSUME step[c] = "ready", link[c] = "open", link'[c] = "open", IsMine(c),
                      ~Contested(c)
               PROVE  IsMine(c)'
    OBVIOUS
  <2>0. ProgramsOK /\ IsWorker(c) /\ Program(c)
    BY <1>1 DEF DeploymentInvariant, ProgramsOK, IsWorker
  <2>1. PICK w, b, r : w = CommandLine[c].worker /\ b = CommandLine[c].boot /\ r = ResourceOf(c)
    OBVIOUS
  <2>2. w \in Workers /\ b \in Boots /\ r = Assigned[w]
    BY <2>0, <2>1 DEF Program, Identified, Incarnations, ResourceOf
  <2>3. /\ r \in DOMAIN resources /\ resources[r].worker = w /\ resources[r].boot = b
        /\ isFreshBoot(w, b)
    BY <2>1 DEF IsMine, CurrentResources, Current, isFreshBoot
  <2>4. ASSUME NEW d \in Conns, d # c, link[d] = "open", curWorker[d] \in Workers,
               Assigned[curWorker[d]] = r
        PROVE  FALSE
    BY <2>1, <2>4, InvalidIds DEF Contested, Open
  <2>5. isFreshBoot(w, b)'
    <3>1. ASSUME NEW k \in Conns, link[k] = "open", curWorker[k] = w, link'[k] # "open"
          PROVE  FALSE
      BY <2>2, <2>4, <3>1
    <3> QED
      BY <1>1, <2>0, <2>3, <3>1, SourceLost
  <2>6. r \in DOMAIN resources' /\ resources'[r].worker = w /\ resources'[r].boot = b
    <3>1. ASSUME NEW k \in Conns, IsWorker(k), link[k] = "open", ResourceOf(k) = r,
                 curWorker[k] = CommandLine[k].worker
          PROVE  k = c
      <4>1. curWorker[k] \in Workers /\ Assigned[curWorker[k]] = r
        BY <2>0, <3>1 DEF ProgramsOK, Program, Identified, Incarnations, ResourceOf
      <4> QED
        BY <2>4, <3>1, <4>1
    <3> QED
      BY <1>1, <2>0, <2>1, <2>3, <3>1, RecordLost
  <2>7. ResourceOf(c)' = r
    BY <2>1 DEF ResourceOf
  <2> QED
    BY <2>1, <2>2, <2>5, <2>6, <2>7, InvalidIds
       DEF IsMine, CurrentResources, Current, isFreshBoot
<1>2. DeploymentInvariant /\ [DeploymentNext]_deploymentVars
        => [\A c \in Conns :
              step[c] = "ready" /\ link[c] = "open" /\ (link[c] = "open")' /\ IsMine(c) =>
                  IsMine(c)' \/ Contested(c)]_deploymentVars
  BY <1>1
<1> QED
  BY <1>2, DeploymentInvariantHolds, PTL DEF DeploymentSpec, ReadyStaysCurrent

\* A worker is refused for a reason: at REGISTER because its id is held through another
\* connection that is open still, at PUBLISH because another has claimed the id or the
\* resource's generation has been advanced, for workers that name the incarnation of their
\* command line throughout (src/coordinator/coordinator.cpp, handleConnection).
THEOREM RefusalsHaveReasons == DeploymentSpec => RefusalHasReason
<1>1. ASSUME DeploymentInvariant, [DeploymentNext]_deploymentVars, running,
             NEW c \in Conns, Refused(c)
      PROVE  \/ step[c] = "register" /\ Rivals(c) \cap Open # {}
             \/ step[c] = "publish" /\ (Rivals(c) # {} \/ resourceGen[ResourceOf(c)] > 1)
  <2> DEFINE w == CommandLine[c].worker
             b == CommandLine[c].boot
  <2>0. /\ ProgramsOK /\ Program(c) /\ Authority(c) /\ step \in [Conns -> Steps]
        /\ answer \in [Conns -> {NoAnswer, "yes", "no"}]
        /\ EvidenceTypeOK /\ ConnectionOK /\ LiveSourceHasConnection
    BY <1>1 DEF DeploymentInvariant, ProgramsOK, CoordinatorInvariant, TypeOK
  <2>1. CASE replyRegister(c)
    <3>1. pending[c] = "Register" /\ ~Registrable(CommandLine[c])
      BY <1>1, <2>0, <2>1 DEF replyRegister, handleRegister, Answer, Refused, NoAnswer
    <3>2. step[c] = "register" /\ curWorker[c] = NoWorker /\ CommandLine[c] \in Incarnations
      BY <1>1, <2>0, <3>1 DEF Refused, Program, IsWorker, ConnectionOK, Identified, Nothing
    <3>3. workerAlive(w) /\ w \in Workers
      BY <3>1, <3>2 DEF Registrable, Replaceable, Incarnations
    <3>4. PICK d \in Conns : /\ [worker |-> w, boot |-> sources[w].boot] \in registered[d]
                             /\ link[d] = "open" \/ curWorker[d] # w
      BY <1>1, <2>0, <3>3 DEF LiveSourceHasConnection
    <3>5. CommandLine[d].worker = w /\ curWorker[d] = w
      BY <2>0, <3>4 DEF ProgramsOK, Program
    <3>6. d \in Rivals(c) /\ d \in Open
      BY <3>2, <3>3, <3>4, <3>5, InvalidIds DEF Rivals, Open
    <3> QED
      BY <3>2, <3>6
  <2>2. CASE replyPublish(c)
    <3>1. /\ pending[c] = "Publish" /\ IsWorker(c) /\ link[c] = "open"
          /\ ~Publishable(ResourceOf(c), w, b, 1)
      BY <1>1, <2>0, <2>2 DEF replyPublish, Publish, Answered, Answer, Refused, NoAnswer
    <3>2. step[c] = "publish" /\ Identified(c)
      BY <1>1, <2>0, <3>1 DEF Refused, Program, Nothing
    <3>3. Rivals(c) # {} \/ isFreshBoot(w, b)
      BY <2>0, <3>1, <3>2 DEF Authority, Registered
    <3>4. resourceGen[ResourceOf(c)] \in Nat
      BY <2>0, <3>2, AssignedResources DEF EvidenceTypeOK, ResourceOf, Identified, Incarnations
    <3>5. ~isFreshBoot(w, b) \/ resourceGen[ResourceOf(c)] > 1
      BY <3>1, <3>4 DEF Publishable, Stale
    <3> QED
      BY <3>2, <3>3, <3>5
  <2>3. ASSUME answer'[c] = answer[c] \/ answer'[c] # "no"
        PROVE  FALSE
    BY <1>1, <2>3 DEF Refused
  <2>4. CASE Accepting \/ MainThread \/ UNCHANGED deploymentVars
    BY <2>3, <2>4 DEF Accepting, MainThread, deploymentVars
  <2>5. ASSUME NEW k \in Conns,
               \/ startWorker(k) \/ startDriver(k) \/ Worker(k) \/ kill(k) \/ drive(k)
               \/ replyHello(k) \/ replyDriver(k) \/ WithoutReply(k)
        PROVE  FALSE
    BY <2>0, <2>3, <2>5 DEF startWorker, startDriver, Worker, sayHello, register, publish, hold,
          giveUp, kill, drive, replyHello, replyDriver, WithoutReply, Answer, NoAnswer
  <2>6. ASSUME NEW k \in Conns, k # c, replyRegister(k) \/ replyPublish(k)
        PROVE  FALSE
    BY <2>0, <2>3, <2>6 DEF replyRegister, replyPublish, Answer
  <2> QED
    BY <1>1, <2>1, <2>2, <2>4, <2>5, <2>6 DEF DeploymentNext, Service
<1>2. DeploymentInvariant /\ [DeploymentNext]_deploymentVars
        => [running => \A c \in Conns : Refused(c) =>
              \/ step[c] = "register" /\ Rivals(c) \cap Open # {}
              \/ step[c] = "publish" /\ (Rivals(c) # {} \/ resourceGen[ResourceOf(c)] > 1)
           ]_deploymentVars
  BY <1>1
<1> QED
  BY <1>2, DeploymentInvariantHolds, PTL DEF DeploymentSpec, RefusalHasReason

=============================================================================
