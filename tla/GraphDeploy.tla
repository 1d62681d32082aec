---------------------------- MODULE GraphDeploy ----------------------------
(***************************************************************************)
(* Deployment of one dependency graph: pkg/scheduler/scheduler.go, from    *)
(* dependencyGraph.Deploy down to the goroutines it starts.                *)
(*                                                                         *)
(*   - the deployer (Deploy) requests the roots, then counts `created`;    *)
(*   - the dispatcher (createResources) turns every queued resource into a *)
(*     worker goroutine, bounded by the semaphore ccLimiter;               *)
(*   - a worker makes up to Attempts[r] attempts to create its resource;   *)
(*   - each attempt's Wait starts a poller goroutine;                      *)
(*   - the first attempt starts one ticker goroutine per dependent, which  *)
(*     keeps calling RequestCreation on it;                                *)
(*   - the cluster is the environment: objects become ready, API calls     *)
(*     fail, the deployment may be stopped.                                *)
(*                                                                         *)
(* Every mutex-protected section of the code is one step, except IsBlocked,*)
(* which runs with the lock of the dependent held and locks each parent in *)
(* turn: there each parent's Status, and the read of its Ignored flag, are *)
(* steps of their own.                                                     *)
(***************************************************************************)
EXTENDS Integers, FiniteSets

CONSTANTS
  Nodes,        \* the scheduled resources of the graph
  Edges,        \* pairs <<parent, child>>: the child requires the parent
  Full,         \* the readiness level at which a resource is 100% ready
  Need,         \* Need[e]: level the child of e asks of the parent (success_factor)
  OnErrorEdges, \* edges whose dependency metadata has the key "on-error"
  Policy,       \* Policy[r]: the resource's own "on-error" metadata
  Attempts,     \* Attempts[r]: the resource's "retry" metadata (default 1)
  Concurrency,  \* the scheduler's concurrency; 0 means no limit
  Existing,     \* resources without a definition: expected in the cluster
  AllowDeleteExternalResources,
  PodBacked,    \* Service, StatefulSet, PetSet: Status is an error until all pods are ready
  AlwaysCreate, \* Deployment: Create calls the API even when the object is found
  Preexisting,  \* objects that are in the cluster when the deployment starts
  Stuck,        \* objects that never become more ready than they are
  MayTimeOut,   \* resources whose Wait may run into its timeout
  MaxFaults,    \* bound on failed API calls
  MayStop       \* whether the deployment can be stopped

Absent == -1

Policies == {"", "ignore", "ignore-all"}

ASSUME NodesAssumption == IsFiniteSet(Nodes)

ASSUME EdgesAssumption == Edges \subseteq Nodes \X Nodes

\* EnsureNoCycles has accepted the graph.
ASSUME AcyclicAssumption ==
  \E rank \in [Nodes -> 0 .. Cardinality(Nodes)] :
    \A e \in Edges : rank[e[1]] < rank[e[2]]

ASSUME ParameterAssumption ==
  /\ Full \in Nat
  /\ Need \in [Edges -> 0 .. Full]
  /\ OnErrorEdges \subseteq Edges
  /\ Policy \in [Nodes -> Policies]
  /\ Attempts \in [Nodes -> Nat]
  /\ Concurrency \in Nat
  /\ AllowDeleteExternalResources \in BOOLEAN
  /\ MaxFaults \in Nat
  /\ MayStop \in BOOLEAN

ASSUME SubsetAssumption ==
  \A S \in {Existing, PodBacked, AlwaysCreate, Preexisting, Stuck, MayTimeOut} :
    S \subseteq Nodes

VARIABLES
  \* the cluster
  obj,        \* obj[r]: Absent, or the readiness level of the object
  reached,    \* history: the highest level obj[r] has ever had
  faults,     \* API calls that may still fail
  \* the fields of ScheduledResource
  started, ignored,
  error,      \* Error # nil: the resource timed out
  status,     \* status = "ready" is cached
  \* tickers and the IsBlocked call in progress on a dependent
  tick,       \* tick[e]: where the ticker of edge e is
  todo,       \* todo[c]: parents IsBlocked has not looked at yet
  erred,      \* erred[c]: parent whose Status was an error, Ignored not read yet
  \* workers and pollers
  wpc,        \* wpc[r]: where the worker of r is
  attempt,    \* attempt[r]: attemptNo
  pollers,    \* pollers[r]: attempts whose poller is still running
  result,     \* result[r]: content of the current attempt's channel
  frontier,   \* frontier[r]: nodes the ignoreAll call of r's worker has yet to mark
  gaveUp,     \* history: resources whose last attempt failed
  \* Deploy and createResources
  mpc,        \* where Deploy is
  queued,     \* queued[r]: copies of r in the channel toCreate
  dispatcher, \* whether createResources is still running
  slots,      \* occupancy of the channel ccLimiter
  created,    \* messages in the channel created
  collected,  \* messages Deploy has received from it
  stop,       \* stopChan is closed
  crash       \* "panic": send on a closed channel; "fatal": log.Fatalf

clusterVars == <<obj, reached, faults>>
nodeVars    == <<started, ignored, error, status>>
tickVars    == <<tick, todo, erred>>
workerVars  == <<wpc, attempt, pollers, result, frontier, gaveUp>>
deployVars  == <<mpc, queued, dispatcher, slots, created, collected, stop, crash>>
vars == <<clusterVars, nodeVars, tickVars, workerVars, deployVars>>

(***************************************************************************)
(* The graph                                                               *)
(***************************************************************************)
Requires(c)   == {p \in Nodes : <<p, c>> \in Edges}
RequiredBy(r) == {c \in Nodes : <<r, c>> \in Edges}
Roots         == {r \in Nodes : Requires(r) = {}}

\* capacity of ccLimiter
ConcurrencyLimit ==
  IF Concurrency > 0 /\ Concurrency < Cardinality(Nodes)
  THEN Concurrency ELSE Cardinality(Nodes)

TickStates == {"none", "sleep", "lock", "check", "gone"}
WorkerStates == {"none", "acquire", "reset", "delete", "skip", "create", "wait",
                 "policy", "ignoreall", "finish", "done", "stopped"}
\* where the worker is between the acquisition and the release of the semaphore
Holding == {"reset", "delete", "skip", "create", "wait", "policy", "ignoreall", "finish"}

Holders == {r \in Nodes : wpc[r] \in Holding}

ClusterOK ==
  /\ obj \in [Nodes -> Absent .. Full] /\ reached \in [Nodes -> Absent .. Full]
  /\ faults \in 0 .. MaxFaults
NodesOK ==
  /\ started \in [Nodes -> BOOLEAN] /\ ignored \in [Nodes -> BOOLEAN]
  /\ error \in [Nodes -> BOOLEAN] /\ status \in [Nodes -> BOOLEAN]
TickersOK ==
  /\ tick \in [Edges -> TickStates]
  /\ todo \in [Nodes -> SUBSET Nodes] /\ erred \in [Nodes -> SUBSET Nodes]
WorkersOK ==
  /\ wpc \in [Nodes -> WorkerStates]
  /\ attempt \in [Nodes -> Nat] /\ pollers \in [Nodes -> SUBSET Nat]
  /\ result \in [Nodes -> {"", "ok", "err"}]
  /\ frontier \in [Nodes -> SUBSET Nodes] /\ gaveUp \in SUBSET Nodes
DeployOK ==
  /\ mpc \in {"roots", "collect", "finished", "stopped"}
  /\ queued \in [Nodes -> Nat]
  /\ slots \in Nat /\ created \in Nat /\ collected \in Nat
  /\ dispatcher \in BOOLEAN /\ stop \in BOOLEAN /\ crash \in {"", "panic", "fatal"}

\* Every variable has its type; in particular no counter, the semaphore's
\* occupancy included, drops below zero.
TypeOK == ClusterOK /\ NodesOK /\ TickersOK /\ WorkersOK /\ DeployOK

Init ==
  /\ obj = [r \in Nodes |-> IF r \in Preexisting THEN Full ELSE Absent]
  /\ reached = obj
  /\ faults = MaxFaults
  /\ started = [r \in Nodes |-> FALSE] /\ ignored = [r \in Nodes |-> FALSE]
  /\ error = [r \in Nodes |-> FALSE] /\ status = [r \in Nodes |-> FALSE]
  /\ tick = [e \in Edges |-> "none"]
  /\ todo = [r \in Nodes |-> {}] /\ erred = [r \in Nodes |-> {}]
  /\ wpc = [r \in Nodes |-> "none"]
  /\ attempt = [r \in Nodes |-> 0]
  /\ pollers = [r \in Nodes |-> {}]
  /\ result = [r \in Nodes |-> ""]
  /\ frontier = [r \in Nodes |-> {}]
  /\ gaveUp = {}
  /\ mpc = "roots"
  /\ queued = [r \in Nodes |-> 0]
  /\ dispatcher = TRUE /\ stop = FALSE /\ crash = ""
  /\ slots = 0 /\ created = 0 /\ collected = 0

(***************************************************************************)
(* The cluster (external), seen through Resource.Status, Create and Delete *)
(***************************************************************************)

\* An object becomes one level more ready.
Progress(r) ==
  /\ r \notin Stuck
  /\ obj[r] \in 0 .. Full - 1
  /\ obj' = [obj EXCEPT ![r] = @ + 1]
  /\ reached' = [reached EXCEPT ![r] = IF obj[r] + 1 > @ THEN obj[r] + 1 ELSE @]
  /\ UNCHANGED <<faults, nodeVars, tickVars, workerVars, deployVars>>

\* Resource.Status answers with an error: the object is not found, or is of a
\* kind that turns "a pod is not ready" into an error
StatusFails(r) == obj[r] = Absent \/ (r \in PodBacked /\ obj[r] < Full)

\* What Resource.Create does, by kind: an object that is found is kept; one
\* that is not is created, unless it is expected to exist already.
CreateKeeps(r) == ~StatusFails(r) /\ (r \in Existing \/ r \notin AlwaysCreate)
CreateMakes(r) == obj[r] = Absent /\ r \notin Existing

(***************************************************************************)
(* The lock of a ScheduledResource: held across steps by IsBlocked only    *)
(***************************************************************************)
LockFree(r) == \A e \in Edges : e[2] = r => tick[e] # "check"

\* What ScheduledResource.Status answers to a caller asking for `need`: the
\* cached answer, or the cluster's, or (cost 1) that of a failed API call
Answer(r, need, ready, err, cost) ==
  IF status[r] \/ error[r]
  THEN (ready <=> status[r]) /\ (err <=> error[r]) /\ cost = 0
  ELSE \/ /\ ready <=> obj[r] >= need /\ ~StatusFails(r)
          /\ err <=> StatusFails(r)
          /\ cost = 0
       \/ ~ready /\ err /\ cost = 1 /\ faults > 0

\* Mutation: every answer that is not an error is cached as "ready".
StatusCachesAny(r, ready, err, cost) ==
  /\ LockFree(r)
  /\ status' = [status EXCEPT ![r] = @ \/ ~err]
  /\ faults' = faults - cost

\* ... and its effect: only "ready" is cached
Status(r, ready, err, cost) ==
  /\ LockFree(r)
  /\ status' = [status EXCEPT ![r] = @ \/ (ready /\ ~err)]
  /\ faults' = faults - cost

\* Both channels are closed when Deploy returns.
Closed == mpc \in {"finished", "stopped"}

\* toCreate <- r
SendToCreate(r) ==
  IF Closed THEN crash' = "panic" /\ UNCHANGED queued
            ELSE queued' = [queued EXCEPT ![r] = @ + 1] /\ UNCHANGED crash

(***************************************************************************)
(* RequestCreation, called by the ticker of edge e = <<parent, child>>     *)
(***************************************************************************)

\* The first look at Started, under RLock: TRUE ends the ticker.
TickerWake(e) ==
  /\ tick[e] = "sleep"
  /\ LockFree(e[2])
  /\ tick' = [tick EXCEPT ![e] = IF started[e[2]] THEN "gone" ELSE "lock"]
  /\ UNCHANGED <<clusterVars, nodeVars, todo, erred, workerVars, deployVars>>

\* select chooses stopChan
TickerStop(e) ==
  /\ tick[e] = "sleep"
  /\ stop
  /\ tick' = [tick EXCEPT ![e] = "gone"]
  /\ UNCHANGED <<clusterVars, nodeVars, todo, erred, workerVars, deployVars>>

\* Mutation: Started is not looked at again under the lock.
StartedMeanwhileUnchecked(c) == FALSE

\* The second look at Started, under the lock
StartedMeanwhile(c) == started[c]

\* The lock is taken and Started looked at again; then IsBlocked begins.
TickerLock(e) ==
  /\ tick[e] = "lock"
  /\ LockFree(e[2])
  /\ IF StartedMeanwhile(e[2])
     THEN tick' = [tick EXCEPT ![e] = "sleep"] /\ UNCHANGED todo
     ELSE /\ tick' = [tick EXCEPT ![e] = "check"]
          /\ todo' = [todo EXCEPT ![e[2]] = Requires(e[2])]
  /\ UNCHANGED <<clusterVars, nodeVars, erred, workerVars, deployVars>>

\* IsBlocked is TRUE: RequestCreation unlocks and returns FALSE.
Blocked(e) ==
  /\ tick' = [tick EXCEPT ![e] = "sleep"]
  /\ todo' = [todo EXCEPT ![e[2]] = {}]

\* Parent p does not block; IsBlocked goes on to the next.
Passed(e, p) ==
  /\ todo' = [todo EXCEPT ![e[2]] = @ \ {p}]
  /\ UNCHANGED tick

\* Mutation: a parent that is not ready, but not failing either, lets pass.
BlocksOnSuccessOnly(ready, err, onErrorSet) == ready /\ onErrorSet

\* IsBlocked's verdict on a parent's answer, the ignored flag aside
Blocks(ready, err, onErrorSet) == (ready /\ onErrorSet) \/ (~err /\ ~ready)

\* IsBlocked asks parent p for its status.
CheckParent(e, p) ==
  LET c == e[2]
      onErrorSet == <<p, c>> \in OnErrorEdges
  IN /\ tick[e] = "check"
     /\ p \in todo[c]
     /\ erred[c] = {}
     /\ \E ready, err \in BOOLEAN, cost \in 0 .. 1 :
          /\ Answer(p, Need[<<p, c>>], ready, err, cost)
          /\ Status(p, ready, err, cost)
          /\ \/ /\ err /\ ~onErrorSet
                /\ erred' = [erred EXCEPT ![c] = {p}]
                /\ UNCHANGED <<tick, todo>>
             \/ /\ ~err \/ onErrorSet
                /\ IF Blocks(ready, err, onErrorSet) THEN Blocked(e) ELSE Passed(e, p)
                /\ UNCHANGED erred
     /\ UNCHANGED <<obj, reached, started, ignored, error, workerVars, deployVars>>

\* Mutation: the failure of an ignored parent blocks as well.
NeverExcused(p) == FALSE

Excused(p) == ignored[p]

\* Parent p answered with an error: the failure counts unless p is ignored.
ReadIgnored(e, p) ==
  /\ tick[e] = "check"
  /\ p \in erred[e[2]]
  /\ LockFree(p)
  /\ IF Excused(p) THEN Passed(e, p) ELSE Blocked(e)
  /\ erred' = [erred EXCEPT ![e[2]] = {}]
  /\ UNCHANGED <<clusterVars, nodeVars, workerVars, deployVars>>

\* IsBlocked is FALSE: the creation is requested.
TickerRequest(e) ==
  /\ tick[e] = "check"
  /\ todo[e[2]] = {}
  /\ started' = [started EXCEPT ![e[2]] = TRUE]
  /\ SendToCreate(e[2])
  /\ tick' = [tick EXCEPT ![e] = "gone"]
  /\ UNCHANGED <<clusterVars, ignored, error, status, todo, erred, workerVars,
                 mpc, dispatcher, slots, created, collected, stop>>

Ticker(e) ==
  \/ TickerWake(e) \/ TickerStop(e) \/ TickerLock(e) \/ TickerRequest(e)
  \/ \E p \in Nodes : CheckParent(e, p) \/ ReadIgnored(e, p)

(***************************************************************************)
(* createResources: the dispatcher and the workers                         *)
(***************************************************************************)

\* for r := range toCreate: the channel's order does not matter, since every
\* resource received gets a goroutine of its own.
Dispatch(r) ==
  /\ dispatcher
  /\ queued[r] > 0
  /\ queued' = [queued EXCEPT ![r] = @ - 1]
  /\ IF stop THEN dispatcher' = FALSE /\ UNCHANGED wpc
             ELSE wpc' = [wpc EXCEPT ![r] = "acquire"] /\ UNCHANGED dispatcher
  /\ UNCHANGED <<clusterVars, nodeVars, tickVars, attempt, pollers, result, frontier,
                 gaveUp, mpc, slots, created, collected, stop, crash>>

\* The range loop ends when toCreate is closed and drained.
DispatcherExit ==
  /\ dispatcher
  /\ Closed
  /\ \A r \in Nodes : queued[r] = 0
  /\ dispatcher' = FALSE
  /\ UNCHANGED <<clusterVars, nodeVars, tickVars, workerVars,
                 mpc, queued, slots, created, collected, stop, crash>>

\* Where the loop over the attempts goes: another attempt, or out.
NextAttempt(r, n) == IF n <= Attempts[r] THEN "reset" ELSE "finish"

\* Mutations: the deferred release is missing, or done twice.
ReleaseForgotten == UNCHANGED slots
ReleaseTwice == slots' = slots - 2

\* <-ccLimiter, deferred to the end of the worker
Release == slots' = slots - 1

\* ccLimiter <- struct{}{}, and the resource's metadata is read
Acquire(r) ==
  /\ wpc[r] = "acquire"
  /\ slots < ConcurrencyLimit
  /\ slots' = slots + 1
  /\ attempt' = [attempt EXCEPT ![r] = 1]
  /\ wpc' = [wpc EXCEPT ![r] = NextAttempt(r, 1)]
  /\ UNCHANGED <<clusterVars, nodeVars, tickVars, pollers, result, frontier, gaveUp,
                 mpc, queued, dispatcher, created, collected, stop, crash>>

\* Mutation: external objects are deleted like the others.
MayDeleteAny(r) == TRUE

MayDelete(r) == r \notin Existing \/ AllowDeleteExternalResources

\* r.ResetStatus(), and on the first attempt the tickers of the dependents
ResetStatus(r) ==
  /\ wpc[r] = "reset"
  /\ LockFree(r)
  /\ error' = [error EXCEPT ![r] = FALSE]
  /\ status' = [status EXCEPT ![r] = FALSE]
  /\ tick' = [e \in Edges |-> IF attempt[r] = 1 /\ e[1] = r THEN "sleep" ELSE tick[e]]
  /\ wpc' = [wpc EXCEPT ![r] =
       IF attempt[r] > 1 /\ MayDelete(r) THEN "delete" ELSE "skip"]
  /\ UNCHANGED <<clusterVars, started, ignored, todo, erred, attempt, pollers, result,
                 frontier, gaveUp, deployVars>>

\* r.Delete() before a further attempt; its error is only logged.
Delete(r) ==
  /\ wpc[r] = "delete"
  /\ \/ obj' = [obj EXCEPT ![r] = Absent] /\ UNCHANGED faults
     \/ faults > 0 /\ faults' = faults - 1 /\ UNCHANGED obj
  /\ wpc' = [wpc EXCEPT ![r] = "skip"]
  /\ UNCHANGED <<reached, nodeVars, tickVars, attempt, pollers, result, frontier,
                 gaveUp, deployVars>>

\* An ignored resource is not created.
SkipIgnored(r) ==
  /\ wpc[r] = "skip"
  /\ LockFree(r)
  /\ wpc' = [wpc EXCEPT ![r] = IF ignored[r] THEN "finish" ELSE "create"]
  /\ UNCHANGED <<clusterVars, nodeVars, tickVars, attempt, pollers, result, frontier,
                 gaveUp, deployVars>>

\* r.Create() succeeds; Wait starts the poller of this attempt.
Create(r) ==
  /\ wpc[r] = "create"
  /\ CreateKeeps(r) \/ CreateMakes(r)
  /\ obj' = [obj EXCEPT ![r] = IF CreateMakes(r) THEN 0 ELSE @]
  /\ reached' = [reached EXCEPT ![r] = IF @ = Absent THEN 0 ELSE @]
  /\ pollers' = [pollers EXCEPT ![r] = @ \cup {attempt[r]}]
  /\ result' = [result EXCEPT ![r] = ""]
  /\ wpc' = [wpc EXCEPT ![r] = "wait"]
  /\ UNCHANGED <<faults, nodeVars, tickVars, attempt, frontier, gaveUp, deployVars>>

\* Mutation: a failed Create is reported as finished and then retried.
CreateFailsReported(r) ==
  /\ wpc[r] = "create"
  /\ faults > 0
  /\ faults' = faults - 1
  /\ created' = created + 1
  /\ attempt' = [attempt EXCEPT ![r] = @ + 1]
  /\ wpc' = [wpc EXCEPT ![r] = NextAttempt(r, attempt[r] + 1)]
  /\ UNCHANGED <<obj, reached, nodeVars, tickVars, pollers, result, frontier, gaveUp,
                 mpc, queued, dispatcher, slots, collected, stop, crash>>

\* r.Create() fails: the loop continues with the next attempt, if any, and
\* does not look at the on-error policy.
CreateFails(r) ==
  /\ wpc[r] = "create"
  /\ r \notin Existing \cap AlwaysCreate
  /\ \/ ~(CreateKeeps(r) \/ CreateMakes(r)) /\ UNCHANGED faults
     \/ faults > 0 /\ faults' = faults - 1
  /\ attempt' = [attempt EXCEPT ![r] = @ + 1]
  /\ wpc' = [wpc EXCEPT ![r] = NextAttempt(r, attempt[r] + 1)]
  /\ gaveUp' = IF attempt[r] >= Attempts[r] THEN gaveUp \cup {r} ELSE gaveUp
  /\ UNCHANGED <<obj, reached, nodeVars, tickVars, pollers, result, frontier, deployVars>>

\* existingDeployment.Create calls log.Fatalf when the object is not found.
CreateFatal(r) ==
  /\ wpc[r] = "create"
  /\ r \in Existing \cap AlwaysCreate
  /\ StatusFails(r) \/ faults > 0
  /\ crash' = "fatal"
  /\ UNCHANGED <<clusterVars, nodeVars, tickVars, workerVars,
                 mpc, queued, dispatcher, slots, created, collected, stop>>

\* The poller of attempt k looks at the status (isResourceFinished, no
\* metadata) and ends when it has an answer. Only the current attempt's
\* channel still has a reader; an older poller merely refreshes the cache.
Poll(r, k) ==
  /\ k \in pollers[r]
  /\ \E ready, err \in BOOLEAN, cost \in 0 .. 1 :
       /\ Answer(r, Full, ready, err, cost)
       /\ Status(r, ready, err, cost)
       /\ pollers' = [pollers EXCEPT ![r] = IF err \/ ready THEN @ \ {k} ELSE @]
       /\ result' = [result EXCEPT ![r] =
            IF k = attempt[r] /\ (err \/ ready) THEN IF err THEN "err" ELSE "ok" ELSE @]
  /\ UNCHANGED <<obj, reached, started, ignored, error, tickVars, wpc, attempt,
                 frontier, gaveUp, deployVars>>

\* A poller's select chooses stopChan.
PollerStop(r, k) ==
  /\ k \in pollers[r]
  /\ stop
  /\ pollers' = [pollers EXCEPT ![r] = @ \ {k}]
  /\ UNCHANGED <<clusterVars, nodeVars, tickVars, wpc, attempt, result, frontier,
                 gaveUp, deployVars>>

\* The attempt's Wait returned an error.
AttemptFailed(r) ==
  IF attempt[r] < Attempts[r]
  THEN /\ attempt' = [attempt EXCEPT ![r] = @ + 1]
       /\ wpc' = [wpc EXCEPT ![r] = "reset"]
       /\ UNCHANGED gaveUp
  ELSE /\ wpc' = [wpc EXCEPT ![r] = "policy"]
       /\ gaveUp' = gaveUp \cup {r}
       /\ UNCHANGED attempt

\* Wait receives the poller's answer.
WaitResult(r) ==
  /\ wpc[r] = "wait"
  /\ \/ /\ result[r] = "ok"
        /\ wpc' = [wpc EXCEPT ![r] = "finish"]
        /\ UNCHANGED <<attempt, gaveUp>>
     \/ /\ result[r] = "err"
        /\ AttemptFailed(r)
  /\ UNCHANGED <<clusterVars, nodeVars, tickVars, pollers, result, frontier, deployVars>>

\* Wait's timeout fires first and marks the resource as failed.
WaitTimeout(r) ==
  /\ wpc[r] = "wait"
  /\ r \in MayTimeOut
  /\ LockFree(r)
  /\ error' = [error EXCEPT ![r] = TRUE]
  /\ AttemptFailed(r)
  /\ UNCHANGED <<clusterVars, started, ignored, status, tickVars, pollers, result,
                 frontier, deployVars>>

\* Wait's select chooses stopChan: the worker returns without reporting.
WaitStop(r) ==
  /\ wpc[r] = "wait"
  /\ stop
  /\ wpc' = [wpc EXCEPT ![r] = "stopped"]
  /\ Release
  /\ UNCHANGED <<clusterVars, nodeVars, tickVars, attempt, pollers, result, frontier,
                 gaveUp, mpc, queued, dispatcher, created, collected, stop, crash>>

\* The last attempt failed: the resource's on-error metadata decides.
FailurePolicy(r) ==
  /\ wpc[r] = "policy"
  /\ LockFree(r)
  /\ ignored' = [ignored EXCEPT ![r] = @ \/ Policy[r] = "ignore"]
  /\ frontier' = [frontier EXCEPT ![r] = IF Policy[r] = "ignore-all" THEN {r} ELSE {}]
  /\ wpc' = [wpc EXCEPT ![r] = IF Policy[r] = "ignore-all" THEN "ignoreall" ELSE "finish"]
  /\ UNCHANGED <<clusterVars, started, error, status, tickVars, attempt, pollers,
                 result, gaveUp, deployVars>>

\* Mutation: ignoreAll does not descend.
MarkTopOnly(r, n) ==
  /\ wpc[r] = "ignoreall"
  /\ n \in frontier[r]
  /\ LockFree(n)
  /\ ignored' = [ignored EXCEPT ![n] = TRUE]
  /\ frontier' = [frontier EXCEPT ![r] = @ \ {n}]
  /\ wpc' = [wpc EXCEPT ![r] = "finish"]
  /\ UNCHANGED <<clusterVars, started, error, status, tickVars, attempt, pollers,
                 result, gaveUp, deployVars>>

\* ignoreAll marks one node, under that node's lock only, and goes on with its
\* dependents. The frontier admits any order of siblings and subtrees.
MarkIgnored(r, n) ==
  /\ wpc[r] = "ignoreall"
  /\ n \in frontier[r]
  /\ LockFree(n)
  /\ ignored' = [ignored EXCEPT ![n] = TRUE]
  /\ frontier' = [frontier EXCEPT ![r] = (@ \ {n}) \cup RequiredBy(n)]
  /\ wpc' = [wpc EXCEPT ![r] = IF (frontier[r] \ {n}) \cup RequiredBy(n) = {}
                               THEN "finish" ELSE @]
  /\ UNCHANGED <<clusterVars, started, error, status, tickVars, attempt, pollers,
                 result, gaveUp, deployVars>>

\* finished <- r.Key(), and the release of the semaphore
Finish(r) ==
  /\ wpc[r] = "finish"
  /\ IF Closed THEN crash' = "panic" /\ UNCHANGED created
               ELSE created' = created + 1 /\ UNCHANGED crash
  /\ Release
  /\ wpc' = [wpc EXCEPT ![r] = "done"]
  /\ UNCHANGED <<clusterVars, nodeVars, tickVars, attempt, pollers, result, frontier,
                 gaveUp, mpc, queued, dispatcher, collected, stop>>

Poller(r) == \E k \in pollers[r] : Poll(r, k) \/ PollerStop(r, k)

Worker(r) ==
  \/ Acquire(r) \/ ResetStatus(r) \/ Delete(r) \/ SkipIgnored(r)
  \/ Create(r) \/ CreateFails(r) \/ CreateFatal(r)
  \/ WaitResult(r) \/ WaitTimeout(r) \/ WaitStop(r)
  \/ FailurePolicy(r) \/ Finish(r)
  \/ \E n \in Nodes : MarkIgnored(r, n)

(***************************************************************************)
(* Deploy                                                                  *)
(***************************************************************************)

\* RequestCreation of a resource without parents: IsBlocked is FALSE.
RequestRoot(r) ==
  /\ mpc = "roots"
  /\ r \in Roots
  /\ ~started[r]
  /\ started' = [started EXCEPT ![r] = TRUE]
  /\ SendToCreate(r)
  /\ UNCHANGED <<clusterVars, ignored, error, status, tickVars, workerVars,
                 mpc, dispatcher, slots, created, collected, stop>>

\* The roots are requested; the loop over `created` begins.
AwaitCreated ==
  /\ mpc = "roots"
  /\ \A r \in Roots : started[r]
  /\ mpc' = "collect"
  /\ UNCHANGED <<clusterVars, nodeVars, tickVars, workerVars,
                 queued, dispatcher, slots, created, collected, stop, crash>>

\* Mutation: off by one
AllButOneCollected == collected + 1 >= Cardinality(Nodes)

AllCollected == collected = Cardinality(Nodes)

\* case <-created
Collect ==
  /\ mpc = "collect"
  /\ ~AllCollected
  /\ created > 0
  /\ created' = created - 1
  /\ collected' = collected + 1
  /\ UNCHANGED <<clusterVars, nodeVars, tickVars, workerVars,
                 mpc, queued, dispatcher, slots, stop, crash>>

\* Everything was reported: the finalizer runs and the channels are closed.
Finalize ==
  /\ mpc = "collect"
  /\ AllCollected
  /\ mpc' = "finished"
  /\ UNCHANGED <<clusterVars, nodeVars, tickVars, workerVars,
                 queued, dispatcher, slots, created, collected, stop, crash>>

\* select chooses stopChan: Deploy returns, which closes the channels.
DeployStopped ==
  /\ mpc = "collect"
  /\ ~AllCollected
  /\ stop
  /\ mpc' = "stopped"
  /\ UNCHANGED <<clusterVars, nodeVars, tickVars, workerVars,
                 queued, dispatcher, slots, created, collected, stop, crash>>

\* The caller closes stopChan.
Stop ==
  /\ MayStop
  /\ ~stop
  /\ stop' = TRUE
  /\ UNCHANGED <<clusterVars, nodeVars, tickVars, workerVars,
                 mpc, queued, dispatcher, slots, created, collected, crash>>

Deployer ==
  \/ \E r \in Nodes : RequestRoot(r)
  \/ AwaitCreated \/ Collect \/ Finalize \/ DeployStopped

Dispatcher == DispatcherExit \/ \E r \in Nodes : Dispatch(r)

\* Nothing is left to do once Deploy has returned or the process has died.
Terminated == (Closed \/ crash # "") /\ UNCHANGED vars

Step ==
  \/ Deployer \/ Dispatcher \/ Stop
  \/ \E r \in Nodes : Worker(r) \/ Poller(r) \/ Progress(r)
  \/ \E e \in Edges : Ticker(e)

Next == (crash = "" /\ Step) \/ Terminated

Spec == Init /\ [][Next]_vars

\* Goroutines run, tickers fire, API calls return, an object that is not stuck
\* gets ready. Strong fairness is needed only where a step waits for a mutex
\* that other goroutines keep taking: ignoreAll marking a resource whose tickers
\* go on checking it.
Alive(A) == crash = "" /\ A
Fairness ==
  /\ WF_vars(Alive(Deployer)) /\ WF_vars(Alive(Dispatcher))
  /\ \A r \in Nodes : /\ WF_vars(Alive(Worker(r))) /\ WF_vars(Alive(Poller(r)))
                      /\ WF_vars(Alive(Progress(r)))
                      /\ SF_vars(Alive(\E n \in Nodes : MarkIgnored(r, n)))
  /\ \A e \in Edges : WF_vars(Alive(Ticker(e)))

FairSpec == Spec /\ Fairness

(***************************************************************************)
(* Properties                                                              *)
(***************************************************************************)

\* However many tickers race for a resource with several parents, its creation
\* is requested once: it is in toCreate, or has a worker, never both or twice.
OnceOnly ==
  \A r \in Nodes : queued[r] + (IF wpc[r] = "none" THEN 0 ELSE 1) <= 1

\* The semaphore counts the workers between acquisition and release on every
\* path out of a worker, and never more of them than the concurrency allows.
LimiterBalanced ==
  /\ slots = Cardinality(Holders)
  /\ slots <= ConcurrencyLimit

\* A resource is requested only after every parent it depends on normally has
\* been as ready as this dependency asks, or has been marked as ignored.
DependenciesMet ==
  \A e \in Edges \ OnErrorEdges :
    started[e[2]] => reached[e[1]] >= Need[e] \/ ignored[e[1]]

\* The finalizer (which acknowledges or deletes replicas) runs after the last
\* worker has finished, and no creation is requested after it.
FinalizerLast ==
  mpc = "finished" => \A r \in Nodes : wpc[r] = "done" /\ queued[r] = 0

\* No goroutine that outlives Deploy sends on a channel Deploy has closed.
NoSendOnClosed == crash # "panic"

\* ignoreAll reaches every dependent, direct or not: a marked resource whose
\* dependents are not marked yet has an ignoreAll call that will mark them.
IgnoreAllClosed ==
  \A e \in Edges :
    ignored[e[1]] /\ Policy[e[1]] # "ignore" =>
      ignored[e[2]] \/ \E r \in Nodes : e[2] \in frontier[r]

\* A worker that reports success leaves a fully ready object behind.
SuccessMeansReady ==
  \A r \in Nodes :
    wpc[r] = "done" /\ Attempts[r] > 0 /\ r \notin gaveUp /\ ~ignored[r] => obj[r] = Full

\* An object that has no resource definition is neither created nor deleted
\* unless the options allow the deletion of external resources.
ExternalUntouched ==
  [][\A r \in Existing : ~AllowDeleteExternalResources =>
        (obj[r] = Absent <=> obj'[r] = Absent)]_vars

\* The deployment ends and runs its finalizer.
DeployTerminates == <>(mpc = "finished")
=============================================================================
