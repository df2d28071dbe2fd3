------------------------------- MODULE Deployment -------------------------------
(***************************************************************************)
(* The reference deployment: the processes of tools/coordinator_main.cpp   *)
(* and tools/worker_main.cpp (cuda/cuda_worker_main.cpp speaks the same    *)
(* protocol), and drivers that ask, advance generations and shut down.     *)
(*                                                                         *)
(* A worker runs a fixed program: HELLO, REGISTER, PUBLISH_RESOURCE, each  *)
(* sent when the reply to the one before has come, and then it holds its   *)
(* connection.  It never tries again: a reply that is missing or says no   *)
(* ends the process.  Each handler writes its reply in the step in which   *)
(* it handles the request; the worker reads it in a step of its own, and   *)
(* a reset may discard it before.                                          *)
(***************************************************************************)
EXTENDS Coordinator

CONSTANTS CommandLine,      \* connection -> worker and incarnation of the process that
                            \* may open it, of neither for a driver
          Assigned,         \* worker -> the resource its command line names
          DriverRequests    \* the request types drivers send

Driver == [worker |-> NoWorker, boot |-> NoBoot]

ASSUME CommandLines ==
    CommandLine \in [Conns -> Incarnations \cup {Driver}]
ASSUME AssignedResources == Assigned \in [Workers -> ResourceIds]
\* A client that registers or publishes speaks for a worker, and is one here.
ASSUME DriversAreNotWorkers == DriverRequests \subseteq RequestTypes \ {"Register", "Publish"}
ASSUME FirstGeneration == 1 \in Gens

VARIABLES step,     \* connection -> where its worker is: the request it waits for a
                    \* reply to, holding its connection, or ended; or a driver
          answer    \* connection -> reply not yet read by its worker

deploymentVars == <<coordinatorVars, step, answer>>

\* The requests a worker waits for a reply to, one after the other.
Waiting == {"hello", "register", "publish"}

Steps == {"none", "connected", "ready", "ended", "driver"} \cup Waiting

NoAnswer == "none"

DeploymentTypeOK ==
    /\ TypeOK
    /\ step \in [Conns -> Steps]
    /\ answer \in [Conns -> {NoAnswer, "yes", "no"}]

IsWorker(c) == step[c] \notin {"none", "driver"}

At(c, s) == step' = [step EXCEPT ![c] = s]

\* A reply to a process that is gone is read by nobody.
Answer(c, a) == answer' = [answer EXCEPT ![c] = IF peer[c] = "up" THEN a ELSE NoAnswer]

ResourceOf(c) == Assigned[CommandLine[c].worker]

DeploymentInit ==
    /\ Init
    /\ step = [c \in Conns |-> "none"]
    /\ answer = [c \in Conns |-> NoAnswer]

-----------------------------------------------------------------------------
(* Workers.                                                                *)

startWorker(c) ==
    /\ CommandLine[c] # Driver
    /\ connect(c)
    /\ At(c, "connected")
    /\ UNCHANGED answer

sayHello(c) ==
    /\ step[c] = "connected"
    /\ send(c, "Other")
    /\ At(c, "hello")
    /\ UNCHANGED answer

register(c) ==
    /\ step[c] = "hello"
    /\ answer[c] = "yes"
    /\ send(c, "Register")
    /\ At(c, "register")
    /\ Answer(c, NoAnswer)

publish(c) ==
    /\ step[c] = "register"
    /\ answer[c] = "yes"
    /\ send(c, "Publish")
    /\ At(c, "publish")
    /\ Answer(c, NoAnswer)

\* Mutant of hold: READY is printed before the reply has come.
holdBeforeReply(c) ==
    /\ step[c] = "publish"
    /\ At(c, "ready")
    /\ Answer(c, NoAnswer)
    /\ UNCHANGED coordinatorVars

\* Prints READY.
hold(c) ==
    /\ step[c] = "publish"
    /\ answer[c] = "yes"
    /\ At(c, "ready")
    /\ Answer(c, NoAnswer)
    /\ UNCHANGED coordinatorVars

\* Mutant of giveUp: a worker that holds its connection does not look at it.
giveUpUnlessReady(c) ==
    /\ step[c] \in {"connected"} \cup Waiting
    /\ leave(c)
    /\ answer[c] = "no" \/ link[c] \in {"returned", "closed"}
    /\ At(c, "ended")
    /\ Answer(c, NoAnswer)

\* Refused, or the connection was closed, and the unread reply with it.
giveUp(c) ==
    /\ IsWorker(c)
    /\ leave(c)
    /\ answer[c] = "no" \/ link[c] \in {"returned", "closed"}
    /\ At(c, "ended")
    /\ Answer(c, NoAnswer)

\* The worker is killed.
kill(c) ==
    /\ IsWorker(c)
    /\ leave(c)
    /\ At(c, "ended")
    /\ Answer(c, NoAnswer)

Worker(c) == sayHello(c) \/ register(c) \/ publish(c) \/ hold(c) \/ giveUp(c)

-----------------------------------------------------------------------------
(* Drivers: tests/test_multiprocess.cpp, cuda/cuda_proof_main.cpp.         *)

startDriver(c) ==
    /\ CommandLine[c] = Driver
    /\ connect(c)
    /\ At(c, "driver")
    /\ UNCHANGED answer

drive(c) ==
    /\ step[c] = "driver"
    /\ \/ \E type \in DriverRequests : send(c, type)
       \/ leave(c)
    /\ UNCHANGED <<step, answer>>

-----------------------------------------------------------------------------
(* The coordinator's process.                                              *)

\* Mutant of replyHello: the request is handled without a reply.
replyHelloSilently(c) ==
    /\ IsWorker(c)
    /\ LeaveEvidence(c)
    /\ Answered(c)
    /\ UNCHANGED <<step, answer>>

replyHello(c) ==
    /\ IsWorker(c)
    /\ LeaveEvidence(c)
    /\ Answered(c)
    /\ Answer(c, "yes")
    /\ UNCHANGED step

\* A worker's requests name the worker and the incarnation of its command line.
replyRegister(c) ==
    /\ handleRegister(c, CommandLine[c])
    /\ Answer(c, IF Registrable(CommandLine[c]) THEN "yes" ELSE "no")
    /\ UNCHANGED step

\* The worker published its resource at generation 1.
replyPublish(c) ==
    /\ IsWorker(c)
    /\ \E p \in Reports : Publish(c, CommandLine[c], ResourceOf(c), 1, p)
    /\ Answered(c)
    /\ Answer(c, IF Publishable(ResourceOf(c), CommandLine[c].worker, CommandLine[c].boot, 1)
                    THEN "yes" ELSE "no")
    /\ UNCHANGED step

replyDriver(c) ==
    /\ ~IsWorker(c)
    /\ dispatch(c)
    /\ UNCHANGED <<step, answer>>

WithoutReply(c) ==
    /\ recvFails(c) \/ handleShutdown(c) \/ dispatchThrows(c) \/ endHandler(c)
    /\ UNCHANGED <<step, answer>>

Service(c) ==
    replyHello(c) \/ replyRegister(c) \/ replyPublish(c) \/ replyDriver(c) \/ WithoutReply(c)

Accepting == AcceptLoop /\ UNCHANGED <<step, answer>>

\* main looks at running() every 10 ms, and stops and destroys the coordinator once
\* it is false.
MainThread ==
    /\ stopAgain \/ terminate
    /\ UNCHANGED <<step, answer>>

-----------------------------------------------------------------------------
DeploymentNext ==
    \/ Accepting
    \/ MainThread
    \/ \E c \in Conns :
          \/ startWorker(c)
          \/ startDriver(c)
          \/ Worker(c)
          \/ kill(c)
          \/ drive(c)
          \/ Service(c)

\* Every thread of the coordinator and every worker goes on when it can.  Nothing makes
\* a worker or a driver start or die, or a driver send.
DeploymentFairness ==
    /\ WF_deploymentVars(Accepting)
    /\ WF_deploymentVars(MainThread)
    /\ \A c \in Conns : WF_deploymentVars(Service(c)) /\ WF_deploymentVars(Worker(c))

DeploymentSpec == DeploymentInit /\ [][DeploymentNext]_deploymentVars /\ DeploymentFairness

-----------------------------------------------------------------------------
(* Properties.                                                             *)

\* No other worker process has the id or the resource of this one.
Alone(c) ==
    \A d \in Conns \ {c} : IsWorker(d) =>
        CommandLine[d].worker # CommandLine[c].worker /\ ResourceOf(d) # ResourceOf(c)

\* What READY means: while such a worker holds its connection and the coordinator runs,
\* its resource is recorded, current and its own, whatever drivers ask, advances
\* included, and however other workers die (worker_main.cpp's order of requests,
\* handleConnection).
ReadyIsCurrent ==
    running => \A c \in Conns :
        step[c] = "ready" /\ link[c] = "open" /\ Alone(c) =>
            /\ ResourceOf(c) \in CurrentResources
            /\ resources[ResourceOf(c)].worker = CommandLine[c].worker

\* The record of the worker's resource is current and of this incarnation.
IsMine(c) ==
    LET w == CommandLine[c].worker
    IN  /\ ResourceOf(c) \in CurrentResources
        /\ resources[ResourceOf(c)].worker = w
        /\ sources[w].boot = CommandLine[c].boot

\* Another open connection has claimed the same id, or that of another worker for the
\* same resource.
Contested(c) ==
    \E d \in Open \ {c} : curWorker[d] # NoWorker /\ Assigned[curWorker[d]] = ResourceOf(c)

\* And it stays so: the evidence behind READY is lost only through another connection
\* that is open and contests it (handleConnection's curWorker, publishResource).
ReadyStaysCurrent ==
    [][\A c \in Conns :
          step[c] = "ready" /\ link[c] = "open" /\ (link[c] = "open")' /\ IsMine(c) =>
              IsMine(c)' \/ Contested(c)]_deploymentVars

\* Other connections that have claimed this one's id.
Rivals(c) == {d \in Conns \ {c} : curWorker[d] = CommandLine[c].worker}

Refused(c) == peer[c] = "up" /\ answer'[c] = "no" /\ answer[c] # "no"

\* A worker is refused for a reason: at REGISTER because the id is held through another
\* connection that is open still; at PUBLISH because the resource's generation has been
\* advanced past 1, or another connection has claimed the id (handleConnection).
RefusalHasReason ==
    [][running => \A c \in Conns : Refused(c) =>
          \/ step[c] = "register" /\ Rivals(c) \cap Open # {}
          \/ step[c] = "publish" /\ (Rivals(c) # {} \/ resourceGen[ResourceOf(c)] > 1)
      ]_deploymentVars

\* A worker waits for nothing for ever: each one started gets as far as READY, or ends,
\* also when it comes while the coordinator is full, shutting down or about to crash
\* (acceptLoop, handleConnection, coordinator_main.cpp).
WorkerSettles ==
    \A c \in Conns :
        step[c] \in {"connected"} \cup Waiting ~> step[c] \in {"ready", "ended"}

\* A SHUTDOWN request, or a reply that cannot be sent, ends every process: the
\* coordinator's, and then those of the workers that hold their connections.
ShutdownEndsAll ==
    ~running ~> \A c \in Conns : IsWorker(c) => step[c] = "ended"

-----------------------------------------------------------------------------
(* What the README says; the code does not keep this.                      *)

\* README.md: evidence is to be revalidated "until fresh workers republish".  A worker
\* started when no connection of its id is open may be refused all the same, and ends: it
\* always publishes generation 1, which an advance has fenced off.
RestartIsAccepted ==
    [][running => \A c \in Conns : Refused(c) =>
          \E d \in Conns \ {c} :
              CommandLine[d].worker = CommandLine[c].worker /\ link[d] = "open"
      ]_deploymentVars

=============================================================================
