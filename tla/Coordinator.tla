------------------------------ MODULE Coordinator ------------------------------
(***************************************************************************)
(* The reference coordinator (src/coordinator/coordinator.cpp): one accept *)
(* thread, one handler thread per connection, the thread that owns the     *)
(* Coordinator object and calls stop, and the client processes at the      *)
(* other ends of the connections (tools/worker_main.cpp, and drivers that  *)
(* query, save and shut down).                                             *)
(*                                                                         *)
(* Which worker and incarnation a REGISTER or a PUBLISH_RESOURCE speaks    *)
(* for is in its payload: any, the invalid ids too, and one connection may *)
(* name several, one after the other.                                      *)
(*                                                                         *)
(* A client waits for the reply to a request before the next, so at most   *)
(* one request per connection is pending.  An iteration of a handler's     *)
(* loop is one action: its only effect on shared state is one call into    *)
(* the model, atomic under the model's mutex.  The accept thread's test of *)
(* active_ and its increment, and a handler's return and its decrement,    *)
(* are separate steps.  send to a client that is gone may succeed or fail, *)
(* and a reset may discard a request not yet read.                         *)
(*                                                                         *)
(* Requests that leave the evidence alone (HELLO, the queries, reservation *)
(* and release publications, SAVE, unknown types, payloads cut short) are  *)
(* "Other"; "OutOfRange" is a release whose confidence is not between 0    *)
(* and 1.                                                                  *)
(***************************************************************************)
EXTENDS Evidence, FiniteSets

CONSTANTS Conns,            \* bound: connections clients ever open
          MaxConnections,   \* kMaxConcurrentConnections
          Requests          \* the request types clients send

RequestTypes == {"Register", "Publish", "Advance", "Other", "Shutdown", "Corrupt",
                 "OutOfRange"}

\* The incarnations of workers, and what a payload may name instead.
Incarnations == [worker : Workers, boot : Boots]
Claims == [worker : Workers \cup {NoWorker}, boot : Boots \cup {NoBoot}]

ASSUME MaxConnectionsNat == MaxConnections \in Nat
ASSUME RequestsAreRequests == Requests \subseteq RequestTypes

VARIABLES running,      \* running_
          listening,    \* listener_ is open
          acceptor,     \* the accept thread: at the loop's test, in accept, past the
                        \* test of the limit, or over
          link,         \* connection -> coordinator's end
          active,       \* active_
          curWorker,    \* connection -> handler's local curWorker
          owner,        \* how far the owning thread is in stop, or the process gone
          peer,         \* connection -> client's end
          pending,      \* connection -> type of the request not yet handled
          registered    \* history: connection -> incarnations the model accepted
                        \* from it

serverVars == <<running, listening, acceptor, link, active, curWorker, owner>>
clientVars == <<peer, pending, registered>>
coordinatorVars == <<evidenceVars, serverVars, clientVars>>

Nothing == "nothing"

TypeOK ==
    /\ EvidenceTypeOK
    /\ running \in BOOLEAN /\ listening \in BOOLEAN
    /\ acceptor \in {"testing", "accepting", "admitting", "over"}
    /\ link \in [Conns -> {"none", "backlog", "accepted", "open", "returned", "closed"}]
    /\ active \in Nat
    /\ curWorker \in [Conns -> Workers \cup {NoWorker}]
    /\ owner \in {"serving", "joiningAccept", "joiningHandlers", "drained", "skipped", "aborted"}
    /\ peer \in [Conns -> {"none", "up", "gone"}]
    /\ pending \in [Conns -> RequestTypes \cup {Nothing}]
    /\ registered \in [Conns -> SUBSET Incarnations]

Open == {c \in Conns : link[c] = "open"}

\* The handler threads that have not ended: in handleConnection, or back from it.
Handlers == {c \in Conns : link[c] \in {"open", "returned"}}

-----------------------------------------------------------------------------
\* The state after start.
Init ==
    /\ EvidenceInit
    /\ running = TRUE
    /\ listening = TRUE
    /\ acceptor = "testing"
    /\ link = [c \in Conns |-> "none"]
    /\ active = 0
    /\ curWorker = [c \in Conns |-> NoWorker]
    /\ owner = "serving"
    /\ peer = [c \in Conns |-> "none"]
    /\ pending = [c \in Conns |-> Nothing]
    /\ registered = [c \in Conns |-> {}]

-----------------------------------------------------------------------------
(* Clients.                                                                *)

connect(c) ==
    /\ listening
    /\ peer[c] = "none"
    /\ peer' = [peer EXCEPT ![c] = "up"]
    /\ link' = [link EXCEPT ![c] = "backlog"]
    /\ UNCHANGED <<evidenceVars, running, listening, acceptor, active, curWorker,
                   owner, pending, registered>>

send(c, type) ==
    /\ peer[c] = "up"
    /\ link[c] \in {"backlog", "accepted", "open"}
    /\ pending[c] = Nothing
    /\ pending' = [pending EXCEPT ![c] = type]
    /\ UNCHANGED <<evidenceVars, serverVars, peer, registered>>

\* The process exits or is killed; what it has sent may still arrive.
leave(c) ==
    /\ peer[c] = "up"
    /\ peer' = [peer EXCEPT ![c] = "gone"]
    /\ UNCHANGED <<evidenceVars, serverVars, pending, registered>>

-----------------------------------------------------------------------------
(* The accept thread.                                                      *)

testRunning ==
    /\ acceptor = "testing"
    /\ acceptor' = IF running THEN "accepting" ELSE "over"
    /\ UNCHANGED <<evidenceVars, running, listening, link, active, curWorker, owner,
                   clientVars>>

\* Mutant of acceptConnection: the limit is off by one.
acceptConnectionOneMore(c) ==
    /\ acceptor = "accepting"
    /\ listening
    /\ link[c] = "backlog"
    /\ IF active > MaxConnections
         THEN /\ link' = [link EXCEPT ![c] = "closed"]
              /\ acceptor' = "testing"
         ELSE /\ link' = [link EXCEPT ![c] = "accepted"]
              /\ acceptor' = "admitting"
    /\ UNCHANGED <<evidenceVars, running, listening, active, curWorker, owner, clientVars>>

\* accept returns a connection, which is closed at once when active_ is at the limit.
acceptConnection(c) ==
    /\ acceptor = "accepting"
    /\ listening
    /\ link[c] = "backlog"
    /\ IF active >= MaxConnections
         THEN /\ link' = [link EXCEPT ![c] = "closed"]
              /\ acceptor' = "testing"
         ELSE /\ link' = [link EXCEPT ![c] = "accepted"]
              /\ acceptor' = "admitting"
    /\ UNCHANGED <<evidenceVars, running, listening, active, curWorker, owner, clientVars>>

\* active_.fetch_add(1) and the new handler thread.
startHandler(c) ==
    /\ acceptor = "admitting"
    /\ link[c] = "accepted"
    /\ active' = active + 1
    /\ link' = [link EXCEPT ![c] = "open"]
    /\ acceptor' = "testing"
    /\ UNCHANGED <<evidenceVars, running, listening, curWorker, owner, clientVars>>

acceptFails ==
    /\ acceptor = "accepting"
    /\ ~listening
    /\ acceptor' = IF running THEN "testing" ELSE "over"
    /\ UNCHANGED <<evidenceVars, running, listening, link, active, curWorker, owner,
                   clientVars>>

-----------------------------------------------------------------------------
(* The handler threads.                                                    *)

\* conn.close() and the return from handleConnection.
Return(c) == link' = [link EXCEPT ![c] = "returned"]

Handled(c) == pending' = [pending EXCEPT ![c] = Nothing]

\* Mutant of recvFails: the worker is not marked dead.
recvFailsSilently(c) ==
    /\ link[c] = "open"
    /\ peer[c] = "gone" \/ pending[c] = "Corrupt"
    /\ Return(c)
    /\ Handled(c)
    /\ UNCHANGED <<evidenceVars, running, listening, acceptor, active, curWorker, owner, peer,
                   registered>>

\* recvFrame fails: the client is gone, or it sent a corrupt frame.
recvFails(c) ==
    /\ link[c] = "open"
    /\ peer[c] = "gone" \/ pending[c] = "Corrupt"
    /\ IF curWorker[c] # NoWorker /\ curWorker[c] \in DOMAIN sources
         THEN markWorkerDead(curWorker[c])
         ELSE UNCHANGED evidenceVars
    /\ Return(c)
    /\ Handled(c)
    /\ UNCHANGED <<running, listening, acceptor, active, curWorker, owner, peer, registered>>

\* registerWorker takes valid ids only, and no other incarnation of a live worker.
Registrable(id) == id \in Incarnations /\ Replaceable(id.worker, id.boot)

\* The handler notes the worker before it knows whether the model accepts it, forgets
\* the one it had noted, and ignores a failed reply.
handleRegister(c, id) ==
    /\ link[c] = "open"
    /\ pending[c] = "Register"
    /\ curWorker' = [curWorker EXCEPT ![c] = id.worker]
    /\ IF Registrable(id)
         THEN /\ registerWorker(id.worker, id.boot)
              /\ registered' = [registered EXCEPT ![c] = @ \cup {id}]
         ELSE UNCHANGED <<evidenceVars, registered>>
    /\ Handled(c)
    /\ UNCHANGED <<running, listening, acceptor, link, active, owner, peer>>

handleShutdown(c) ==
    /\ link[c] = "open"
    /\ pending[c] = "Shutdown"
    /\ running' = FALSE
    /\ Return(c)
    /\ Handled(c)
    /\ UNCHANGED <<evidenceVars, listening, acceptor, active, curWorker, owner, peer,
                   registered>>

\* What dispatch asks of the model; a rejected call changes nothing.  The incarnation
\* that publishes is the payload's, and nothing compares it with curWorker.
Publish(c, id, r, g, p) ==
    /\ pending[c] = "Publish"
    /\ IF Publishable(r, id.worker, id.boot, g)
         THEN publishResource(r, id.worker, id.boot, g, p)
         ELSE UNCHANGED evidenceVars

Advance(c, r) ==
    /\ pending[c] = "Advance"
    /\ IF r \in DOMAIN resources
         THEN advanceResourceGeneration(r)
         ELSE UNCHANGED evidenceVars

LeaveEvidence(c) ==
    /\ pending[c] = "Other"
    /\ UNCHANGED evidenceVars

\* dispatch returns whether its reply was sent; a failure ends the handler, and
\* tells the coordinator to stop.
Answered(c) ==
    /\ link[c] = "open"
    /\ Handled(c)
    /\ \/ UNCHANGED <<running, link>>
       \/ /\ peer[c] = "gone"
          /\ running' = FALSE
          /\ Return(c)
    /\ UNCHANGED <<listening, acceptor, active, curWorker, owner, peer, registered>>

dispatch(c) ==
    /\ \/ \E id \in Claims, r \in ResourceIds, g \in Gens, p \in Reports :
             Publish(c, id, r, g, p)
       \/ \E r \in ResourceIds : Advance(c, r)
       \/ LeaveEvidence(c)
    /\ Answered(c)

\* The end of the process by std::terminate: every thread and socket is gone.
Abort ==
    /\ running' = FALSE
    /\ listening' = FALSE
    /\ acceptor' = "over"
    /\ link' = [c \in Conns |-> IF link[c] = "none" THEN "none" ELSE "closed"]
    /\ active' = 0
    /\ owner' = "aborted"
    /\ pending' = [c \in Conns |-> Nothing]
    /\ UNCHANGED <<evidenceVars, curWorker, peer, registered>>

\* readRelease lets the exception of Confidence's constructor pass, and nothing on
\* the handler's stack catches it.
dispatchThrows(c) ==
    /\ link[c] = "open"
    /\ pending[c] = "OutOfRange"
    /\ Abort

\* The handler thread's lambda: active_.fetch_sub(1) after handleConnection.
endHandler(c) ==
    /\ link[c] = "returned"
    /\ active' = active - 1
    /\ link' = [link EXCEPT ![c] = "closed"]
    /\ UNCHANGED <<evidenceVars, running, listening, acceptor, curWorker, owner, clientVars>>

Handler(c) ==
    \/ recvFails(c)
    \/ \E id \in Claims : handleRegister(c, id)
    \/ handleShutdown(c) \/ dispatch(c) \/ dispatchThrows(c)
    \/ endHandler(c)

-----------------------------------------------------------------------------
(* The owner: stop, and the destructor, which calls it too.                *)

\* Mutant of stop: the listener is left open.
stopWithoutClose ==
    /\ owner = "serving"
    /\ running
    /\ running' = FALSE
    /\ owner' = "joiningAccept"
    /\ UNCHANGED <<evidenceVars, listening, acceptor, link, active, curWorker, clientVars>>

\* running_.exchange(false) and listener_.close(); connections not yet accepted
\* are reset with the listener.
stop ==
    /\ owner = "serving"
    /\ running
    /\ running' = FALSE
    /\ listening' = FALSE
    /\ link' = [c \in Conns |-> IF link[c] = "backlog" THEN "closed" ELSE link[c]]
    /\ owner' = "joiningAccept"
    /\ UNCHANGED <<evidenceVars, acceptor, active, curWorker, clientVars>>

\* running_ was false already: stop returns at once.
stopAgain ==
    /\ owner = "serving"
    /\ ~running
    /\ owner' = "skipped"
    /\ UNCHANGED <<evidenceVars, running, listening, acceptor, link, active, curWorker,
                   clientVars>>

\* After such a stop the destructor destroys an accept thread nobody has joined.
terminate ==
    /\ owner = "skipped"
    /\ Abort

joinAccept ==
    /\ owner = "joiningAccept"
    /\ acceptor = "over"
    /\ owner' = "joiningHandlers"
    /\ UNCHANGED <<evidenceVars, running, listening, acceptor, link, active, curWorker,
                   clientVars>>

joinHandlers ==
    /\ owner = "joiningHandlers"
    /\ Handlers = {}
    /\ owner' = "drained"
    /\ UNCHANGED <<evidenceVars, running, listening, acceptor, link, active, curWorker,
                   clientVars>>

-----------------------------------------------------------------------------
AcceptLoop ==
    testRunning \/ acceptFails \/ \E c \in Conns : acceptConnection(c) \/ startHandler(c)

Client(c) ==
    \/ connect(c)
    \/ \E type \in Requests : send(c, type)
    \/ leave(c)

Next ==
    \/ AcceptLoop
    \/ stop \/ stopAgain \/ terminate \/ joinAccept \/ joinHandlers
    \/ \E c \in Conns : Client(c) \/ Handler(c)

\* The scheduler runs every thread of the coordinator that can run.  Nothing makes
\* a client send, leave or connect, or the owner call stop.
Fairness ==
    /\ WF_coordinatorVars(AcceptLoop)
    /\ WF_coordinatorVars(joinAccept \/ joinHandlers \/ terminate)
    /\ \A c \in Conns : WF_coordinatorVars(Handler(c))

SafetySpec == Init /\ [][Next]_coordinatorVars

Spec == SafetySpec /\ Fairness

-----------------------------------------------------------------------------
(* Properties.                                                             *)

\* active_ counts the handler threads that have not ended and never passes the limit,
\* although the accept thread tests it and increments it in two steps while handlers
\* decrement it: only one thread increments (acceptLoop).  When stop returns having
\* cleared running_ itself, no thread is left, nor one that could start another.
ActiveIsHandlers ==
    /\ active = Cardinality(Handlers)
    /\ active <= MaxConnections
    /\ owner = "drained" => acceptor = "over" /\ active = 0 /\ ~listening

\* While the coordinator runs, a live incarnation was registered through a connection
\* that is open still, or that has named another worker in a later REGISTER: a handler
\* remembers the last one only, and marks no other dead when it ends.  No other way out
\* of a handler leaves it live but the two that also stop the coordinator
\* (handleConnection's curWorker).
LiveSourceHasConnection ==
    running => \A w \in Workers : workerAlive(w) =>
        \E c \in Conns :
            /\ [worker |-> w, boot |-> sources[w].boot] \in registered[c]
            /\ link[c] = "open" \/ curWorker[c] # w

\* When a client goes away the worker its handler noted last loses its authority, unless
\* the coordinator is on its way out, or a REGISTER is still to be read, which may name
\* another worker instead (handleConnection's receive failure).
DeathInvalidates ==
    \A c \in Conns, w \in Workers :
        (/\ peer[c] = "gone" /\ link[c] = "open"
         /\ curWorker[c] = w /\ pending[c] # "Register")
            ~> (~workerAlive(w) \/ ~running)

\* stop returns once every client has gone, unless a handler brings the process down
\* meanwhile (acceptLoop's exit and the joins).
StopReturnsOnceClientsLeave ==
    <>[](\A c \in Conns : peer[c] # "up")
        => (owner = "joiningAccept" ~> owner \in {"drained", "aborted"})

-----------------------------------------------------------------------------
(* What the README, the tests and the comments say; the code does not keep *)
(* these.                                                                  *)

\* README.md: "worker death invalidates its evidence".  A worker is live only while a
\* connection that registered it is open or its client runs.  It stays live when its
\* client's last reply cannot be sent, and when one connection registers two workers.
DeadMeansInvalid ==
    \A w \in Workers : workerAlive(w) =>
        \E c \in Conns :
            /\ \E id \in registered[c] : id.worker = w
            /\ link[c] = "open" \/ peer[c] = "up"


\* coordinator.hpp on stop: "Stops accepting, drains active handlers, closes sockets".
StopDrains ==
    owner \in {"drained", "skipped", "aborted"} => acceptor = "over" /\ Handlers = {} /\ ~listening

\* payload.hpp: "Every reader checks bounds; a nullopt means the payload was malformed".
\* The process ends only because the owner ends it.
OwnerEndsProcess == [][owner' = "aborted" => owner \in {"skipped", "aborted"}]_coordinatorVars

\* coordinator.hpp on stop again: once begun it gets there.
StopReturns == owner = "joiningAccept" ~> owner = "drained"

=============================================================================
