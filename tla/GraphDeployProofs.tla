------------------------- MODULE GraphDeployProofs -------------------------
(***************************************************************************)
(* Theorems about GraphDeploy, for every graph, every metadata and every   *)
(* concurrency: types, single requests, the semaphore, the finalizer, what *)
(* is sent on closed channels, and external resources.                     *)
(***************************************************************************)
EXTENDS GraphDeploy, FiniteSetTheorems, TLAPS

\* A worker between acquisition and release accounts for a taken slot.
LEMMA SlotTaken ==
  ASSUME TypeOK, LimiterBalanced, NEW r \in Nodes, wpc[r] \in Holding
  PROVE  slots > 0
<1>1. IsFiniteSet(Holders)
  BY NodesAssumption, FS_Subset DEF Holders
<1>2. r \in Holders
  BY DEF Holders
<1>3. Cardinality(Holders) # 0 /\ Cardinality(Holders) \in Nat
  BY <1>1, <1>2, FS_EmptySet, FS_CardinalityType
<1> QED
  BY <1>3 DEF LimiterBalanced

\* Each part of the type invariant depends on its own group of variables.
LEMMA TypeFrame ==
  ASSUME TypeOK
  PROVE  /\ UNCHANGED clusterVars => ClusterOK'
         /\ UNCHANGED nodeVars => NodesOK'
         /\ UNCHANGED tickVars => TickersOK'
         /\ UNCHANGED workerVars => WorkersOK'
         /\ UNCHANGED deployVars => DeployOK'
<1>1. UNCHANGED clusterVars => ClusterOK'
  BY DEF TypeOK, ClusterOK, clusterVars
<1>2. UNCHANGED nodeVars => NodesOK'
  BY DEF TypeOK, NodesOK, nodeVars
<1>3. UNCHANGED tickVars => TickersOK'
  BY DEF TypeOK, TickersOK, tickVars
<1>4. UNCHANGED workerVars => WorkersOK'
  BY DEF TypeOK, WorkersOK, workerVars
<1>5. UNCHANGED deployVars => DeployOK'
  BY DEF TypeOK, DeployOK, deployVars
<1> QED
  BY <1>1, <1>2, <1>3, <1>4, <1>5

LEMMA SendType ==
  ASSUME TypeOK, NEW r \in Nodes, SendToCreate(r)
  PROVE  queued' \in [Nodes -> Nat] /\ crash' \in {"", "panic", "fatal"}
<1>1. CASE Closed
  BY <1>1 DEF SendToCreate, TypeOK, DeployOK
<1>2. CASE ~Closed
  <2>1. queued \in [Nodes -> Nat]
    BY DEF TypeOK, DeployOK
  <2>2. queued' = [queued EXCEPT ![r] = @ + 1]
    BY <1>2 DEF SendToCreate
  <2>3. queued' \in [Nodes -> Nat]
    BY <2>1, <2>2
  <2>4. crash' \in {"", "panic", "fatal"}
    BY <1>2 DEF SendToCreate, TypeOK, DeployOK
  <2> QED
    BY <2>3, <2>4
<1> QED
  BY <1>1, <1>2

LEMMA TypeTicker ==
  ASSUME TypeOK, NEW e \in Edges, Ticker(e)
  PROVE  TypeOK'
<1>0. e[1] \in Nodes /\ e[2] \in Nodes
  BY EdgesAssumption
<1>1. CASE TickerWake(e)
  <2>1. TickersOK'
    BY <1>1 DEF TickerWake, TypeOK, TickersOK, TickStates
  <2> QED
    BY <1>1, <2>1, TypeFrame DEF TickerWake, TypeOK
<1>2. CASE TickerStop(e)
  <2>1. TickersOK'
    BY <1>2 DEF TickerStop, TypeOK, TickersOK, TickStates
  <2> QED
    BY <1>2, <2>1, TypeFrame DEF TickerStop, TypeOK
<1>3. CASE TickerLock(e)
  <2>1. Requires(e[2]) \subseteq Nodes
    BY DEF Requires
  <2>2. TickersOK'
    BY <1>3, <2>1 DEF TickerLock, TypeOK, TickersOK, TickStates
  <2> QED
    BY <1>3, <2>2, TypeFrame DEF TickerLock, TypeOK
<1>4. CASE TickerRequest(e)
  <2>1. NodesOK'
    BY <1>4 DEF TickerRequest, TypeOK, NodesOK
  <2>2. TickersOK'
    BY <1>4 DEF TickerRequest, TypeOK, TickersOK, TickStates
  <2>3. DeployOK'
    BY <1>0, <1>4, SendType DEF TickerRequest, TypeOK, DeployOK
  <2> QED
    BY <1>4, <2>1, <2>2, <2>3, TypeFrame DEF TickerRequest, TypeOK
<1>5. ASSUME NEW p \in Nodes, CheckParent(e, p)
      PROVE  TypeOK'
  <2>1. PICK ready \in BOOLEAN, err \in BOOLEAN, cost \in 0 .. 1 :
          /\ Answer(p, Need[<<p, e[2]>>], ready, err, cost)
          /\ Status(p, ready, err, cost)
    BY <1>5 DEF CheckParent
  <2>2. ClusterOK'
    BY <1>5, <2>1, ParameterAssumption
       DEF CheckParent, Answer, Status, TypeOK, ClusterOK
  <2>3. NodesOK'
    BY <1>5, <2>1 DEF CheckParent, Status, TypeOK, NodesOK
  <2>4. tick' \in [Edges -> TickStates]
    BY <1>5 DEF CheckParent, Blocked, Passed, TypeOK, TickersOK, TickStates
  <2>5. todo' \in [Nodes -> SUBSET Nodes]
    BY <1>0, <1>5 DEF CheckParent, Blocked, Passed, TypeOK, TickersOK
  <2>6. erred' \in [Nodes -> SUBSET Nodes]
    BY <1>0, <1>5 DEF CheckParent, TypeOK, TickersOK
  <2> QED
    BY <1>5, <2>2, <2>3, <2>4, <2>5, <2>6, TypeFrame DEF CheckParent, TypeOK, TickersOK
<1>6. ASSUME NEW p \in Nodes, ReadIgnored(e, p)
      PROVE  TypeOK'
  <2>1. tick' \in [Edges -> TickStates]
    BY <1>6 DEF ReadIgnored, Blocked, Passed, TypeOK, TickersOK, TickStates
  <2>2. todo' \in [Nodes -> SUBSET Nodes]
    BY <1>0, <1>6 DEF ReadIgnored, Blocked, Passed, TypeOK, TickersOK
  <2>3. erred' \in [Nodes -> SUBSET Nodes]
    BY <1>6 DEF ReadIgnored, TypeOK, TickersOK
  <2> QED
    BY <1>6, <2>1, <2>2, <2>3, TypeFrame DEF ReadIgnored, TypeOK, TickersOK
<1> QED
  BY <1>1, <1>2, <1>3, <1>4, <1>5, <1>6 DEF Ticker

LEMMA NextAttemptType ==
  ASSUME NEW r \in Nodes, NEW n \in Nat
  PROVE  NextAttempt(r, n) \in WorkerStates
  BY DEF NextAttempt, WorkerStates

LEMMA AttemptFailedType ==
  ASSUME TypeOK, NEW r \in Nodes, AttemptFailed(r)
  PROVE  /\ wpc' \in [Nodes -> WorkerStates] /\ attempt' \in [Nodes -> Nat]
         /\ gaveUp' \in SUBSET Nodes
<1>1. CASE attempt[r] < Attempts[r]
  <2>1. attempt \in [Nodes -> Nat]
    BY DEF TypeOK, WorkersOK
  <2>2. attempt' \in [Nodes -> Nat]
    BY <1>1, <2>1 DEF AttemptFailed
  <2> QED
    BY <1>1, <2>2 DEF AttemptFailed, TypeOK, WorkersOK, WorkerStates
<1>2. CASE ~(attempt[r] < Attempts[r])
  BY <1>2 DEF AttemptFailed, TypeOK, WorkersOK, WorkerStates
<1> QED
  BY <1>1, <1>2

LEMMA ReleaseType ==
  ASSUME TypeOK, slots > 0, Release
  PROVE  slots' \in Nat
<1>1. slots \in Nat
  BY DEF TypeOK, DeployOK
<1> QED
  BY <1>1 DEF Release

LEMMA TypeWorker ==
  ASSUME TypeOK, LimiterBalanced, NEW r \in Nodes, Worker(r)
  PROVE  TypeOK'
<1>1. CASE Acquire(r)
  <2>1. NextAttempt(r, 1) \in WorkerStates
    BY NextAttemptType
  <2>2. WorkersOK'
    BY <1>1, <2>1 DEF Acquire, TypeOK, WorkersOK
  <2>3. slots \in Nat
    BY DEF TypeOK, DeployOK
  <2>4. slots' \in Nat
    BY <1>1, <2>3 DEF Acquire
  <2>5. DeployOK'
    BY <1>1, <2>4 DEF Acquire, TypeOK, DeployOK
  <2> QED
    BY <1>1, <2>2, <2>5, TypeFrame DEF Acquire, TypeOK
<1>2. CASE ResetStatus(r)
  <2>1. NodesOK'
    BY <1>2 DEF ResetStatus, TypeOK, NodesOK
  <2>2. TickersOK'
    BY <1>2 DEF ResetStatus, TypeOK, TickersOK, TickStates
  <2>3. WorkersOK'
    BY <1>2 DEF ResetStatus, TypeOK, WorkersOK, WorkerStates
  <2> QED
    BY <1>2, <2>1, <2>2, <2>3, TypeFrame DEF ResetStatus, TypeOK
<1>3. CASE Delete(r)
  <2>1. ClusterOK'
    BY <1>3, ParameterAssumption DEF Delete, TypeOK, ClusterOK, Absent
  <2>2. WorkersOK'
    BY <1>3 DEF Delete, TypeOK, WorkersOK, WorkerStates
  <2> QED
    BY <1>3, <2>1, <2>2, TypeFrame DEF Delete, TypeOK
<1>4. CASE SkipIgnored(r)
  <2>1. WorkersOK'
    BY <1>4 DEF SkipIgnored, TypeOK, WorkersOK, WorkerStates
  <2> QED
    BY <1>4, <2>1, TypeFrame DEF SkipIgnored, TypeOK
<1>5. CASE Create(r)
  <2>0. obj \in [Nodes -> -1 .. Full] /\ reached \in [Nodes -> -1 .. Full] /\ 0 \in -1 .. Full
    BY ParameterAssumption DEF TypeOK, ClusterOK, Absent
  <2>1. obj' \in [Nodes -> -1 .. Full] /\ reached' \in [Nodes -> -1 .. Full]
    BY <1>5, <2>0 DEF Create
  <2>1a. ClusterOK'
    BY <1>5, <2>1 DEF Create, TypeOK, ClusterOK, Absent
  <2>2. pollers' \in [Nodes -> SUBSET Nat]
    BY <1>5 DEF Create, TypeOK, WorkersOK
  <2>3. WorkersOK'
    BY <1>5, <2>2 DEF Create, TypeOK, WorkersOK, WorkerStates
  <2> QED
    BY <1>5, <2>1a, <2>3, TypeFrame DEF Create, TypeOK
<1>6. CASE CreateFails(r)
  <2>1. ClusterOK'
    BY <1>6, ParameterAssumption DEF CreateFails, TypeOK, ClusterOK
  <2>2. attempt \in [Nodes -> Nat]
    BY DEF TypeOK, WorkersOK
  <2>3. attempt[r] + 1 \in Nat
    BY <2>2
  <2>4. NextAttempt(r, attempt[r] + 1) \in WorkerStates
    BY <2>3, NextAttemptType
  <2>5. attempt' \in [Nodes -> Nat]
    BY <1>6, <2>2, <2>3 DEF CreateFails
  <2>6. WorkersOK'
    BY <1>6, <2>4, <2>5 DEF CreateFails, TypeOK, WorkersOK
  <2> QED
    BY <1>6, <2>1, <2>6, TypeFrame DEF CreateFails, TypeOK
<1>7. CASE CreateFatal(r)
  <2>1. DeployOK'
    BY <1>7 DEF CreateFatal, TypeOK, DeployOK
  <2> QED
    BY <1>7, <2>1, TypeFrame DEF CreateFatal, TypeOK
<1>8. CASE WaitResult(r)
  <2>1. wpc' \in [Nodes -> WorkerStates] /\ attempt' \in [Nodes -> Nat]
        /\ gaveUp' \in SUBSET Nodes
    <3>1. CASE AttemptFailed(r)
      BY <3>1, AttemptFailedType DEF TypeOK
    <3>2. CASE wpc' = [wpc EXCEPT ![r] = "finish"] /\ UNCHANGED <<attempt, gaveUp>>
      BY <3>2 DEF TypeOK, WorkersOK, WorkerStates
    <3> QED
      BY <1>8, <3>1, <3>2, Zenon DEF WaitResult
  <2>2. WorkersOK'
    BY <1>8, <2>1 DEF WaitResult, TypeOK, WorkersOK
  <2> QED
    BY <1>8, <2>2, TypeFrame DEF WaitResult, TypeOK
<1>9. CASE WaitTimeout(r)
  <2>1. NodesOK'
    BY <1>9 DEF WaitTimeout, TypeOK, NodesOK
  <2>2. WorkersOK'
    BY <1>9, AttemptFailedType DEF WaitTimeout, TypeOK, WorkersOK
  <2> QED
    BY <1>9, <2>1, <2>2, TypeFrame DEF WaitTimeout, TypeOK
<1>10. CASE WaitStop(r)
  <2>1. slots > 0
    BY <1>10, SlotTaken DEF WaitStop, Holding
  <2>2. WorkersOK'
    BY <1>10 DEF WaitStop, TypeOK, WorkersOK, WorkerStates
  <2>3. DeployOK'
    BY <1>10, <2>1, ReleaseType DEF WaitStop, TypeOK, DeployOK
  <2> QED
    BY <1>10, <2>2, <2>3, TypeFrame DEF WaitStop, TypeOK
<1>11. CASE FailurePolicy(r)
  <2>1. NodesOK'
    BY <1>11 DEF FailurePolicy, TypeOK, NodesOK
  <2>2. frontier' \in [Nodes -> SUBSET Nodes]
    BY <1>11 DEF FailurePolicy, TypeOK, WorkersOK
  <2>3. WorkersOK'
    BY <1>11, <2>2 DEF FailurePolicy, TypeOK, WorkersOK, WorkerStates
  <2> QED
    BY <1>11, <2>1, <2>3, TypeFrame DEF FailurePolicy, TypeOK
<1>12. CASE Finish(r)
  <2>1. slots > 0
    BY <1>12, SlotTaken DEF Finish, Holding
  <2>2. WorkersOK'
    BY <1>12 DEF Finish, TypeOK, WorkersOK, WorkerStates
  <2>3. created \in Nat
    BY DEF TypeOK, DeployOK
  <2>4. created' \in Nat /\ crash' \in {crash, "panic"}
    BY <1>12, <2>3 DEF Finish
  <2>5. DeployOK'
    BY <1>12, <2>1, <2>4, ReleaseType DEF Finish, TypeOK, DeployOK
  <2> QED
    BY <1>12, <2>2, <2>5, TypeFrame DEF Finish, TypeOK
<1>13. ASSUME NEW n \in Nodes, MarkIgnored(r, n)
       PROVE  TypeOK'
  <2>1. NodesOK'
    BY <1>13 DEF MarkIgnored, TypeOK, NodesOK
  <2>2. RequiredBy(n) \subseteq Nodes
    BY DEF RequiredBy
  <2>3. frontier' \in [Nodes -> SUBSET Nodes]
    BY <1>13, <2>2 DEF MarkIgnored, TypeOK, WorkersOK
  <2>4. wpc' \in [Nodes -> WorkerStates]
    BY <1>13 DEF MarkIgnored, TypeOK, WorkersOK, WorkerStates
  <2> QED
    BY <1>13, <2>1, <2>3, <2>4, TypeFrame DEF MarkIgnored, TypeOK, WorkersOK
<1> QED
  BY <1>1, <1>2, <1>3, <1>4, <1>5, <1>6, <1>7, <1>8, <1>9, <1>10, <1>11, <1>12, <1>13
     DEF Worker

LEMMA TypePoller ==
  ASSUME TypeOK, NEW r \in Nodes, Poller(r)
  PROVE  TypeOK'
<1>1. PICK k \in pollers[r] : Poll(r, k) \/ PollerStop(r, k)
  BY DEF Poller
<1>2. CASE Poll(r, k)
  <2>1. PICK ready \in BOOLEAN, err \in BOOLEAN, cost \in 0 .. 1 :
          /\ Answer(r, Full, ready, err, cost)
          /\ Status(r, ready, err, cost)
          /\ pollers' = [pollers EXCEPT ![r] = IF err \/ ready THEN @ \ {k} ELSE @]
          /\ result' = [result EXCEPT ![r] =
               IF k = attempt[r] /\ (err \/ ready) THEN IF err THEN "err" ELSE "ok" ELSE @]
    BY <1>2 DEF Poll
  <2>2. ClusterOK'
    BY <1>2, <2>1, ParameterAssumption DEF Poll, Answer, Status, TypeOK, ClusterOK
  <2>3. NodesOK'
    BY <1>2, <2>1 DEF Poll, Status, TypeOK, NodesOK
  <2>4. pollers' \in [Nodes -> SUBSET Nat] /\ result' \in [Nodes -> {"", "ok", "err"}]
    BY <2>1 DEF TypeOK, WorkersOK
  <2> QED
    BY <1>2, <2>2, <2>3, <2>4, TypeFrame DEF Poll, TypeOK, WorkersOK
<1>3. CASE PollerStop(r, k)
  <2>1. WorkersOK'
    BY <1>3 DEF PollerStop, TypeOK, WorkersOK
  <2> QED
    BY <1>3, <2>1, TypeFrame DEF PollerStop, TypeOK
<1> QED
  BY <1>1, <1>2, <1>3

LEMMA TypeDispatcher ==
  ASSUME TypeOK, Dispatcher
  PROVE  TypeOK'
<1>1. CASE DispatcherExit
  <2>1. DeployOK'
    BY <1>1 DEF DispatcherExit, TypeOK, DeployOK
  <2> QED
    BY <1>1, <2>1, TypeFrame DEF DispatcherExit, TypeOK
<1>2. ASSUME NEW r \in Nodes, Dispatch(r)
      PROVE  TypeOK'
  <2>1. queued \in [Nodes -> Nat]
    BY DEF TypeOK, DeployOK
  <2>2. queued' \in [Nodes -> Nat]
    BY <1>2, <2>1 DEF Dispatch
  <2>3. DeployOK'
    BY <1>2, <2>2 DEF Dispatch, TypeOK, DeployOK
  <2>4. WorkersOK'
    BY <1>2 DEF Dispatch, TypeOK, WorkersOK, WorkerStates
  <2> QED
    BY <1>2, <2>3, <2>4, TypeFrame DEF Dispatch, TypeOK
<1> QED
  BY <1>1, <1>2 DEF Dispatcher

LEMMA TypeDeployer ==
  ASSUME TypeOK, Deployer \/ Stop
  PROVE  TypeOK'
<1>1. ASSUME NEW r \in Nodes, RequestRoot(r)
      PROVE  TypeOK'
  <2>1. NodesOK'
    BY <1>1 DEF RequestRoot, TypeOK, NodesOK
  <2>2. DeployOK'
    BY <1>1, SendType DEF RequestRoot, TypeOK, DeployOK
  <2> QED
    BY <1>1, <2>1, <2>2, TypeFrame DEF RequestRoot, TypeOK
<1>2. CASE AwaitCreated
  <2>1. DeployOK'
    BY <1>2 DEF AwaitCreated, TypeOK, DeployOK
  <2> QED
    BY <1>2, <2>1, TypeFrame DEF AwaitCreated, TypeOK
<1>3. CASE Collect
  <2>1. created \in Nat /\ collected \in Nat
    BY DEF TypeOK, DeployOK
  <2>2. created' \in Nat /\ collected' \in Nat
    BY <1>3, <2>1 DEF Collect
  <2>3. DeployOK'
    BY <1>3, <2>2 DEF Collect, TypeOK, DeployOK
  <2> QED
    BY <1>3, <2>3, TypeFrame DEF Collect, TypeOK
<1>4. CASE Finalize
  <2>1. DeployOK'
    BY <1>4 DEF Finalize, TypeOK, DeployOK
  <2> QED
    BY <1>4, <2>1, TypeFrame DEF Finalize, TypeOK
<1>5. CASE DeployStopped
  <2>1. DeployOK'
    BY <1>5 DEF DeployStopped, TypeOK, DeployOK
  <2> QED
    BY <1>5, <2>1, TypeFrame DEF DeployStopped, TypeOK
<1>6. CASE Stop
  <2>1. DeployOK'
    BY <1>6 DEF Stop, TypeOK, DeployOK
  <2> QED
    BY <1>6, <2>1, TypeFrame DEF Stop, TypeOK
<1> QED
  BY <1>1, <1>2, <1>3, <1>4, <1>5, <1>6 DEF Deployer

LEMMA TypeProgress ==
  ASSUME TypeOK, NEW r \in Nodes, Progress(r)
  PROVE  TypeOK'
<1>1. obj \in [Nodes -> -1 .. Full] /\ reached \in [Nodes -> -1 .. Full] /\ Full \in Nat
  BY ParameterAssumption DEF TypeOK, ClusterOK, Absent
<1>2. obj' \in [Nodes -> -1 .. Full] /\ reached' \in [Nodes -> -1 .. Full]
  BY <1>1 DEF Progress
<1>3. ClusterOK'
  BY <1>2 DEF Progress, TypeOK, ClusterOK, Absent
<1> QED
  BY <1>3, TypeFrame DEF Progress, TypeOK

LEMMA TypeStep ==
  ASSUME TypeOK, LimiterBalanced, [Next]_vars
  PROVE  TypeOK'
<1>1. CASE UNCHANGED vars
  BY <1>1, TypeFrame DEF vars, TypeOK
<1>2. CASE Terminated
  BY <1>2, <1>1 DEF Terminated
<1>3. CASE Step
  BY <1>3, TypeTicker, TypeWorker, TypePoller, TypeDispatcher, TypeDeployer, TypeProgress
     DEF Step
<1> QED
  BY <1>1, <1>2, <1>3 DEF Next

LEMMA TypeInit == Init => TypeOK
<1> SUFFICES ASSUME Init PROVE TypeOK
  OBVIOUS
<1>1. ClusterOK
  <2>1. -1 \in -1 .. Full /\ Full \in -1 .. Full /\ MaxFaults \in 0 .. MaxFaults
    BY ParameterAssumption
  <2> QED
    BY <2>1 DEF Init, ClusterOK, Absent
<1>2. NodesOK
  BY DEF Init, NodesOK
<1>3. TickersOK
  BY DEF Init, TickersOK, TickStates
<1>4. WorkersOK
  BY DEF Init, WorkersOK, WorkerStates
<1>5. DeployOK
  BY DEF Init, DeployOK
<1> QED
  BY <1>1, <1>2, <1>3, <1>4, <1>5 DEF TypeOK

(***************************************************************************)
(* A creation is requested once.  OnceOnly is not inductive: it needs that *)
(* at most one goroutine holds the lock of a dependent, that the dependent *)
(* is not started while it is held, and what has happened to a resource    *)
(* that is started or not.                                                 *)
(***************************************************************************)
CheckMutex ==
  \A e, f \in Edges : tick[e] = "check" /\ tick[f] = "check" /\ e[2] = f[2] => e = f

CheckUnstarted == \A e \in Edges : tick[e] = "check" => ~started[e[2]]

Requested ==
  \A r \in Nodes :
    /\ ~started[r] => queued[r] = 0 /\ wpc[r] = "none"
    /\ queued[r] = 0 \/ (queued[r] = 1 /\ wpc[r] = "none")

OnceInv == CheckMutex /\ CheckUnstarted /\ Requested

\* Steps of a worker other than its own pc leave the request of r as it is.
LEMMA RequestedFrame ==
  ASSUME TypeOK, OnceInv, NEW r \in Nodes, wpc[r] # "none",
         wpc' \in [Nodes -> WorkerStates], wpc'[r] # "none",
         \A n \in Nodes \ {r} : wpc'[n] = wpc[n],
         UNCHANGED <<started, queued>>
  PROVE  Requested'
  BY DEF OnceInv, Requested

\* Starting a resource that was never requested and queueing it once
LEMMA RequestOne ==
  ASSUME TypeOK, OnceInv, NEW r \in Nodes, queued[r] = 0, wpc[r] = "none",
         wpc' = wpc, started' = [started EXCEPT ![r] = TRUE],
         queued' = queued \/ queued' = [queued EXCEPT ![r] = @ + 1]
  PROVE  Requested'
<1> SUFFICES ASSUME NEW n \in Nodes
             PROVE  /\ ~started'[n] => queued'[n] = 0 /\ wpc'[n] = "none"
                    /\ queued'[n] = 0 \/ (queued'[n] = 1 /\ wpc'[n] = "none")
  BY DEF Requested
<1>1. CASE n = r
  <2>1. started'[r]
    BY DEF TypeOK, NodesOK
  <2>2. queued \in [Nodes -> Nat]
    BY DEF TypeOK, DeployOK
  <2>3. queued'[r] = 0 \/ queued'[r] = 1
    BY <2>2
  <2> QED
    BY <1>1, <2>1, <2>3
<1>2. CASE n # r
  <2>1. started'[n] = started[n]
    BY <1>2 DEF TypeOK, NodesOK
  <2>2. queued \in [Nodes -> Nat]
    BY DEF TypeOK, DeployOK
  <2>3. queued'[n] = queued[n]
    BY <1>2, <2>2
  <2> QED
    BY <2>1, <2>3 DEF OnceInv, Requested
<1> QED
  BY <1>1, <1>2

LEMMA OnceTicker ==
  ASSUME TypeOK, OnceInv, NEW e \in Edges, Ticker(e)
  PROVE  OnceInv'
<1>0. e[2] \in Nodes
  BY EdgesAssumption
<1>1. CASE TickerWake(e)
  <2>1. CheckMutex' /\ CheckUnstarted'
    BY <1>1 DEF TickerWake, nodeVars, TypeOK, TickersOK, OnceInv, CheckMutex, CheckUnstarted
  <2>2. Requested'
    BY <1>1 DEF TickerWake, nodeVars, workerVars, deployVars, OnceInv, Requested
  <2> QED
    BY <2>1, <2>2 DEF OnceInv
<1>2. CASE TickerStop(e)
  <2>1. CheckMutex' /\ CheckUnstarted'
    BY <1>2 DEF TickerStop, nodeVars, TypeOK, TickersOK, OnceInv, CheckMutex, CheckUnstarted
  <2>2. Requested'
    BY <1>2 DEF TickerStop, nodeVars, workerVars, deployVars, OnceInv, Requested
  <2> QED
    BY <2>1, <2>2 DEF OnceInv
<1>3. CASE TickerLock(e)
  <2>1. CheckMutex'
    BY <1>3 DEF TickerLock, LockFree, TypeOK, TickersOK, OnceInv, CheckMutex
  <2>2. CheckUnstarted'
    BY <1>3 DEF TickerLock, StartedMeanwhile, nodeVars, TypeOK, TickersOK, OnceInv, CheckUnstarted
  <2>3. Requested'
    BY <1>3 DEF TickerLock, nodeVars, workerVars, deployVars, OnceInv, Requested
  <2> QED
    BY <2>1, <2>2, <2>3 DEF OnceInv
<1>4. CASE TickerRequest(e)
  <2>1. CheckMutex'
    BY <1>4 DEF TickerRequest, TypeOK, TickersOK, OnceInv, CheckMutex
  <2>2. CheckUnstarted'
    <3> SUFFICES ASSUME NEW f \in Edges, tick'[f] = "check"
                 PROVE  ~started'[f[2]]
      BY DEF CheckUnstarted
    <3>1. f # e /\ tick[f] = "check" /\ tick[e] = "check"
      BY <1>4 DEF TickerRequest, TypeOK, TickersOK
    <3>2. f[2] # e[2] /\ ~started[f[2]]
      BY <3>1 DEF OnceInv, CheckMutex, CheckUnstarted
    <3>3. f[2] \in Nodes
      BY EdgesAssumption
    <3> QED
      BY <1>0, <1>4, <3>2, <3>3 DEF TickerRequest, TypeOK, NodesOK
  <2>3. queued[e[2]] = 0 /\ wpc[e[2]] = "none"
    BY <1>0, <1>4 DEF TickerRequest, OnceInv, CheckUnstarted, Requested
  <2>4. wpc' = wpc /\ started' = [started EXCEPT ![e[2]] = TRUE]
    BY <1>4 DEF TickerRequest, workerVars
  <2>5. queued' = queued \/ queued' = [queued EXCEPT ![e[2]] = @ + 1]
    BY <1>4 DEF TickerRequest, SendToCreate
  <2>6. Requested'
    BY <1>0, <2>3, <2>4, <2>5, RequestOne
  <2> QED
    BY <2>1, <2>2, <2>6 DEF OnceInv
<1>5. ASSUME NEW p \in Nodes, CheckParent(e, p) \/ ReadIgnored(e, p)
      PROVE  OnceInv'
  <2>1. tick' = tick \/ tick' = [tick EXCEPT ![e] = "sleep"]
    BY <1>5 DEF CheckParent, ReadIgnored, Blocked, Passed
  <2>2. UNCHANGED <<started, queued, wpc>>
    BY <1>5 DEF CheckParent, ReadIgnored, nodeVars, workerVars, deployVars
  <2>3. CheckMutex' /\ CheckUnstarted'
    BY <2>1, <2>2 DEF TypeOK, TickersOK, OnceInv, CheckMutex, CheckUnstarted
  <2> QED
    BY <2>2, <2>3 DEF OnceInv, Requested
<1> QED
  BY <1>1, <1>2, <1>3, <1>4, <1>5 DEF Ticker

\* What a step of r's worker does to the variables of OnceInv
LEMMA WorkerEffect ==
  ASSUME TypeOK, NEW r \in Nodes, Worker(r)
  PROVE  /\ wpc[r] # "none" /\ wpc'[r] # "none"
         /\ \A n \in Nodes \ {r} : wpc'[n] = wpc[n]
         /\ UNCHANGED <<started, queued>>
         /\ \A e \in Edges : tick'[e] = tick[e] \/ tick'[e] = "sleep"
<1> USE DEF nodeVars, tickVars, workerVars, deployVars
<1>0. wpc \in [Nodes -> WorkerStates]
  BY DEF TypeOK, WorkersOK
<1>1. CASE Acquire(r)
  BY <1>0, <1>1 DEF Acquire, NextAttempt
<1>2. CASE ResetStatus(r)
  BY <1>0, <1>2 DEF ResetStatus
<1>3. CASE Delete(r)
  BY <1>0, <1>3 DEF Delete
<1>4. CASE SkipIgnored(r)
  BY <1>0, <1>4 DEF SkipIgnored
<1>5. CASE Create(r)
  BY <1>0, <1>5 DEF Create
<1>6. CASE CreateFails(r)
  BY <1>0, <1>6 DEF CreateFails, NextAttempt
<1>7. CASE CreateFatal(r)
  BY <1>0, <1>7 DEF CreateFatal
<1>8. CASE WaitResult(r)
  BY <1>0, <1>8 DEF WaitResult, AttemptFailed
<1>9. CASE WaitTimeout(r)
  BY <1>0, <1>9 DEF WaitTimeout, AttemptFailed
<1>10. CASE WaitStop(r)
  BY <1>0, <1>10 DEF WaitStop
<1>11. CASE FailurePolicy(r)
  BY <1>0, <1>11 DEF FailurePolicy
<1>12. CASE Finish(r)
  BY <1>0, <1>12 DEF Finish
<1>13. ASSUME NEW n \in Nodes, MarkIgnored(r, n)
       PROVE  /\ wpc[r] # "none" /\ wpc'[r] # "none"
              /\ \A m \in Nodes \ {r} : wpc'[m] = wpc[m]
              /\ UNCHANGED <<started, queued>>
              /\ \A e \in Edges : tick'[e] = tick[e] \/ tick'[e] = "sleep"
  BY <1>0, <1>13 DEF MarkIgnored
<1> QED
  BY <1>1, <1>2, <1>3, <1>4, <1>5, <1>6, <1>7, <1>8, <1>9, <1>10, <1>11, <1>12, <1>13
     DEF Worker

LEMMA OnceWorker ==
  ASSUME TypeOK, TypeOK', OnceInv, NEW r \in Nodes, Worker(r)
  PROVE  OnceInv'
<1>1. Requested'
  BY WorkerEffect, RequestedFrame DEF TypeOK, WorkersOK
<1>2. CheckMutex' /\ CheckUnstarted'
  BY WorkerEffect DEF OnceInv, CheckMutex, CheckUnstarted
<1> QED
  BY <1>1, <1>2 DEF OnceInv

LEMMA OnceFrame ==
  ASSUME OnceInv, UNCHANGED <<started, queued, wpc, tick>>
  PROVE  OnceInv'
  BY DEF OnceInv, CheckMutex, CheckUnstarted, Requested

LEMMA OnceDispatcher ==
  ASSUME TypeOK, OnceInv, Dispatcher
  PROVE  OnceInv'
<1>1. CASE DispatcherExit
  BY <1>1, OnceFrame DEF DispatcherExit, nodeVars, tickVars, workerVars
<1>2. ASSUME NEW r \in Nodes, Dispatch(r)
      PROVE  OnceInv'
  <2>1. UNCHANGED <<started, tick>>
    BY <1>2 DEF Dispatch, nodeVars, tickVars
  <2>2. queued \in [Nodes -> Nat] /\ wpc \in [Nodes -> WorkerStates]
    BY DEF TypeOK, DeployOK, WorkersOK
  <2>3. queued[r] = 1 /\ started[r]
    BY <1>2, <2>2 DEF Dispatch, OnceInv, Requested
  <2>4. queued' = [queued EXCEPT ![r] = @ - 1]
    BY <1>2 DEF Dispatch
  <2>5. queued'[r] = 0 /\ \A n \in Nodes \ {r} : queued'[n] = queued[n]
    BY <2>2, <2>3, <2>4
  <2>6. \A n \in Nodes \ {r} : wpc'[n] = wpc[n]
    BY <1>2, <2>2 DEF Dispatch
  <2>7. Requested'
    BY <2>1, <2>3, <2>5, <2>6 DEF OnceInv, Requested
  <2> QED
    BY <2>1, <2>7 DEF OnceInv, CheckMutex, CheckUnstarted
<1> QED
  BY <1>1, <1>2 DEF Dispatcher

LEMMA OnceDeployer ==
  ASSUME TypeOK, OnceInv, Deployer
  PROVE  OnceInv'
<1>1. ASSUME NEW r \in Nodes, RequestRoot(r)
      PROVE  OnceInv'
  <2>1. UNCHANGED <<tick, wpc>> /\ started' = [started EXCEPT ![r] = TRUE]
    BY <1>1 DEF RequestRoot, tickVars, workerVars
  <2>2. queued' = queued \/ queued' = [queued EXCEPT ![r] = @ + 1]
    BY <1>1 DEF RequestRoot, SendToCreate
  <2>3. queued[r] = 0 /\ wpc[r] = "none"
    BY <1>1 DEF RequestRoot, OnceInv, Requested
  <2>4. Requested'
    BY <2>1, <2>2, <2>3, RequestOne
  <2>5. \A e \in Edges : e[2] \in Nodes /\ e[2] # r
    <3>1. \A p \in Nodes : <<p, r>> \notin Edges
      BY <1>1 DEF RequestRoot, Roots, Requires
    <3>2. \A e \in Edges : e[1] \in Nodes /\ e[2] \in Nodes /\ e = <<e[1], e[2]>>
      BY EdgesAssumption
    <3> QED
      BY <3>1, <3>2
  <2>6. CheckUnstarted'
    BY <2>1, <2>5 DEF TypeOK, NodesOK, OnceInv, CheckUnstarted
  <2> QED
    BY <2>1, <2>4, <2>6 DEF OnceInv, CheckMutex
<1>2. CASE AwaitCreated \/ Collect \/ Finalize \/ DeployStopped
  BY <1>2, OnceFrame
     DEF AwaitCreated, Collect, Finalize, DeployStopped, nodeVars, tickVars, workerVars
<1> QED
  BY <1>1, <1>2 DEF Deployer

LEMMA OnceStep ==
  ASSUME TypeOK, TypeOK', OnceInv, [Next]_vars
  PROVE  OnceInv'
<1>1. CASE UNCHANGED vars \/ Terminated \/ Stop
  BY <1>1, OnceFrame
     DEF Terminated, Stop, vars, nodeVars, tickVars, workerVars, deployVars
<1>2. ASSUME NEW r \in Nodes, Poller(r) \/ Progress(r)
      PROVE  OnceInv'
  BY <1>2, OnceFrame DEF Poller, Poll, PollerStop, Progress,
                         nodeVars, tickVars, workerVars, deployVars
<1>3. CASE Step
  BY <1>1, <1>2, <1>3, OnceTicker, OnceWorker, OnceDispatcher, OnceDeployer DEF Step
<1> QED
  BY <1>1, <1>3 DEF Next

(***************************************************************************)
(* The semaphore.                                                          *)
(***************************************************************************)
LEMMA LimitType == ConcurrencyLimit \in Nat
  BY NodesAssumption, ParameterAssumption, FS_CardinalityType DEF ConcurrencyLimit

LEMMA HoldersFinite ==
  IsFiniteSet(Holders) /\ IsFiniteSet(Holders')
  BY NodesAssumption, FS_Subset DEF Holders

LEMMA LimiterFrame ==
  ASSUME LimiterBalanced, Holders' = Holders, slots' = slots
  PROVE  LimiterBalanced'
  BY DEF LimiterBalanced, ConcurrencyLimit

LEMMA LimiterAcquire ==
  ASSUME TypeOK, LimiterBalanced, NEW r \in Nodes, Acquire(r)
  PROVE  LimiterBalanced'
<1>1. r \notin Holders
  BY DEF Acquire, Holders, Holding
<1>2. Holders' = Holders \cup {r}
  BY DEF Acquire, NextAttempt, Holders, Holding, TypeOK, WorkersOK
<1>3. Cardinality(Holders') = Cardinality(Holders) + 1
  BY <1>1, <1>2, HoldersFinite, FS_AddElement
<1>4. slots \in Nat
  BY DEF TypeOK, DeployOK
<1>5. slots' = slots + 1 /\ slots < ConcurrencyLimit
  BY DEF Acquire
<1> QED
  BY <1>3, <1>4, <1>5, LimitType DEF LimiterBalanced, ConcurrencyLimit

LEMMA LimiterRelease ==
  ASSUME TypeOK, LimiterBalanced, NEW r \in Nodes, wpc[r] \in Holding,
         NEW pc \in {"done", "stopped"}, wpc' = [wpc EXCEPT ![r] = pc], Release
  PROVE  LimiterBalanced'
<1>1. r \in Holders
  BY DEF Holders
<1>2. Holders' = Holders \ {r}
  BY DEF Holders, Holding, TypeOK, WorkersOK
<1>3. Cardinality(Holders') = Cardinality(Holders) - 1
  BY <1>1, <1>2, HoldersFinite, FS_RemoveElement
<1>4. slots \in Nat
  BY DEF TypeOK, DeployOK
<1>5. slots' = slots - 1
  BY DEF Release
<1> QED
  BY <1>3, <1>4, <1>5, LimitType DEF LimiterBalanced, ConcurrencyLimit

LEMMA LimiterWorker ==
  ASSUME TypeOK, LimiterBalanced, NEW r \in Nodes, Worker(r)
  PROVE  LimiterBalanced'
<1>1. CASE Acquire(r)
  BY <1>1, LimiterAcquire
<1>2. CASE WaitStop(r)
  BY <1>2, LimiterRelease DEF WaitStop, Holding
<1>3. CASE Finish(r)
  BY <1>3, LimiterRelease DEF Finish, Holding
<1>4. CASE ~(Acquire(r) \/ WaitStop(r) \/ Finish(r))
  <2>1. wpc[r] \in Holding /\ wpc'[r] \in Holding /\ slots' = slots
    <3> USE DEF workerVars, deployVars, Holding
    <3>0. wpc \in [Nodes -> WorkerStates]
      BY DEF TypeOK, WorkersOK
    <3>1. CASE ResetStatus(r) \/ Delete(r) \/ SkipIgnored(r) \/ Create(r)
      BY <3>0, <3>1 DEF ResetStatus, Delete, SkipIgnored, Create
    <3>2. CASE CreateFails(r) \/ CreateFatal(r)
      BY <3>0, <3>2 DEF CreateFails, CreateFatal, NextAttempt
    <3>3. CASE WaitResult(r) \/ WaitTimeout(r)
      BY <3>0, <3>3 DEF WaitResult, WaitTimeout, AttemptFailed
    <3>4. CASE FailurePolicy(r)
      BY <3>0, <3>4 DEF FailurePolicy
    <3>5. ASSUME NEW n \in Nodes, MarkIgnored(r, n)
          PROVE  wpc[r] \in Holding /\ wpc'[r] \in Holding /\ slots' = slots
      BY <3>0, <3>5 DEF MarkIgnored
    <3> QED
      BY <1>4, <3>1, <3>2, <3>3, <3>4, <3>5 DEF Worker
  <2>2. Holders' = Holders
    BY <2>1, WorkerEffect DEF Holders
  <2> QED
    BY <2>1, <2>2, LimiterFrame
<1> QED
  BY <1>1, <1>2, <1>3, <1>4

LEMMA LimiterStep ==
  ASSUME TypeOK, OnceInv, LimiterBalanced, [Next]_vars
  PROVE  LimiterBalanced'
<1>1. ASSUME UNCHANGED <<wpc, slots>>
      PROVE  LimiterBalanced'
  BY <1>1, LimiterFrame DEF Holders
<1>2. CASE UNCHANGED vars \/ Terminated \/ Stop \/ Deployer
  BY <1>1, <1>2 DEF Terminated, Stop, Deployer, RequestRoot, AwaitCreated, Collect,
                    Finalize, DeployStopped, vars, workerVars, deployVars
<1>3. ASSUME NEW r \in Nodes, Poller(r) \/ Progress(r)
      PROVE  LimiterBalanced'
  BY <1>1, <1>3 DEF Poller, Poll, PollerStop, Progress, workerVars, deployVars
<1>4. ASSUME NEW e \in Edges, Ticker(e)
      PROVE  LimiterBalanced'
  BY <1>1, <1>4 DEF Ticker, TickerWake, TickerStop, TickerLock, TickerRequest, CheckParent,
                    ReadIgnored, workerVars, deployVars
<1>5. CASE DispatcherExit
  BY <1>1, <1>5 DEF DispatcherExit, workerVars
<1>6. ASSUME NEW r \in Nodes, Dispatch(r)
      PROVE  LimiterBalanced'
  <2>1. queued \in [Nodes -> Nat] /\ wpc \in [Nodes -> WorkerStates]
    BY DEF TypeOK, DeployOK, WorkersOK
  <2>2. wpc[r] = "none"
    BY <1>6, <2>1 DEF Dispatch, OnceInv, Requested
  <2>3. Holders' = Holders /\ slots' = slots
    BY <1>6, <2>1, <2>2 DEF Dispatch, Holders, Holding
  <2> QED
    BY <2>3, LimiterFrame
<1>7. CASE Step
  BY <1>2, <1>3, <1>4, <1>5, <1>6, <1>7, LimiterWorker DEF Step, Dispatcher
<1> QED
  BY <1>2, <1>7 DEF Next

(***************************************************************************)
(* The inductive invariant: the three parts need each other.               *)
(***************************************************************************)
CoreInv == TypeOK /\ OnceInv /\ LimiterBalanced

LEMMA CoreInit == Init => CoreInv
<1> SUFFICES ASSUME Init PROVE CoreInv
  OBVIOUS
<1>1. TypeOK
  BY TypeInit
<1>2. OnceInv
  BY DEF Init, OnceInv, CheckMutex, CheckUnstarted, Requested
<1>3. Holders = {}
  BY DEF Init, Holders, Holding
<1>4. LimiterBalanced
  <2>1. slots = 0 /\ Cardinality(Holders) = 0
    BY <1>3, FS_EmptySet DEF Init
  <2> QED
    BY <2>1, LimitType DEF LimiterBalanced
<1> QED
  BY <1>1, <1>2, <1>4 DEF CoreInv

\* The inductive invariant of scheduler.go's RequestCreation and createResources:
\* types, the single request of each resource, and the semaphore's count.
THEOREM CoreInvariant == Spec => []CoreInv
<1>1. CoreInv /\ [Next]_vars => CoreInv'
  BY TypeStep, OnceStep, LimiterStep DEF CoreInv
<1> QED
  BY <1>1, CoreInit, PTL DEF Spec

\* Every variable of the deployment keeps its type, for every graph and metadata.
THEOREM TypeCorrect == Spec => []TypeOK
<1>1. CoreInv => TypeOK
  BY DEF CoreInv
<1> QED
  BY <1>1, CoreInvariant, PTL

\* However many tickers race for it in RequestCreation, a resource is requested
\* at most once.
THEOREM RequestedOnce == Spec => []OnceOnly
<1>1. CoreInv => OnceOnly
  <2> SUFFICES ASSUME CoreInv, NEW r \in Nodes
               PROVE  queued[r] + (IF wpc[r] = "none" THEN 0 ELSE 1) <= 1
    BY DEF OnceOnly
  <2>1. queued[r] = 0 \/ (queued[r] = 1 /\ wpc[r] = "none")
    BY DEF CoreInv, OnceInv, Requested
  <2> QED
    BY <2>1
<1> QED
  BY <1>1, CoreInvariant, PTL

\* The semaphore ccLimiter of createResources is neither leaked nor over-released
\* on any path out of a worker.
THEOREM ConcurrencyBounded == Spec => []LimiterBalanced
<1>1. CoreInv => LimiterBalanced
  BY DEF CoreInv
<1> QED
  BY <1>1, CoreInvariant, PTL

(***************************************************************************)
(* Deploy counts every resource exactly once: the finalizer runs after the *)
(* last worker, and no goroutine that outlives Deploy uses its channels    *)
(* unless the deployment was stopped.                                      *)
(***************************************************************************)

Done == {r \in Nodes : wpc[r] = "done"}

\* Until a stop, the messages in `created` and those collected account for the
\* workers that are done; Deploy finishes with one message per resource.
Counted == mpc # "stopped" => created + collected = Cardinality(Done)

Complete == mpc = "finished" => collected = Cardinality(Nodes)

Unstopped == ~MayStop => ~stop /\ mpc # "stopped"

CountInv == Counted /\ Complete /\ Unstopped

LEMMA DoneFinite ==
  /\ IsFiniteSet(Done) /\ IsFiniteSet(Done')
  /\ Cardinality(Done) \in Nat /\ Cardinality(Done) <= Cardinality(Nodes)
  /\ Cardinality(Nodes) \in Nat
<1>1. Done \subseteq Nodes /\ Done' \subseteq Nodes
  BY DEF Done
<1>2. IsFiniteSet(Done) /\ IsFiniteSet(Done') /\ Cardinality(Done) <= Cardinality(Nodes)
  BY <1>1, NodesAssumption, FS_Subset
<1> QED
  BY <1>2, NodesAssumption, FS_CardinalityType

\* Once Deploy has finished, all workers are done.
LEMMA FinishedAllDone ==
  ASSUME TypeOK, CountInv, mpc = "finished"
  PROVE  Done = Nodes
<1>1. created \in Nat /\ collected \in Nat
  BY DEF TypeOK, DeployOK
<1>2. created + collected = Cardinality(Done) /\ collected = Cardinality(Nodes)
  BY DEF CountInv, Counted, Complete
<1>3. Cardinality(Done) = Cardinality(Nodes)
  BY <1>1, <1>2, DoneFinite
<1>4. Done \subseteq Nodes
  BY DEF Done
<1> QED
  BY <1>3, <1>4, NodesAssumption, FS_Subset

LEMMA CountFrame ==
  ASSUME CountInv, Done' = Done, UNCHANGED <<created, collected, mpc, stop>>
  PROVE  CountInv'
  BY DEF CountInv, Counted, Complete, Unstopped

LEMMA CountFinish ==
  ASSUME TypeOK, CountInv, NEW r \in Nodes, Finish(r)
  PROVE  CountInv'
<1>0. wpc[r] = "finish" /\ UNCHANGED <<mpc, collected, stop>>
  BY DEF Finish
<1>1. r \notin Done /\ Done' = Done \cup {r}
  BY DEF Finish, Done, TypeOK, WorkersOK
<1>2. mpc # "finished"
  BY <1>1, FinishedAllDone
<1>3. Cardinality(Done') = Cardinality(Done) + 1
  BY <1>1, DoneFinite, FS_AddElement
<1>4. created \in Nat /\ collected \in Nat
  BY DEF TypeOK, DeployOK
<1>5. mpc # "stopped" => created' = created + 1
  BY <1>2 DEF Finish, Closed
<1>6. Counted'
  BY <1>0, <1>3, <1>4, <1>5, DoneFinite DEF CountInv, Counted
<1> QED
  BY <1>0, <1>6 DEF CountInv, Complete, Unstopped

LEMMA CountWorker ==
  ASSUME TypeOK, CountInv, NEW r \in Nodes, Worker(r)
  PROVE  CountInv'
<1>1. CASE Finish(r)
  BY <1>1, CountFinish
<1>2. CASE ~Finish(r)
  <2> USE DEF workerVars, deployVars
  <2>0. wpc \in [Nodes -> WorkerStates]
    BY DEF TypeOK, WorkersOK
  <2>1. /\ wpc[r] # "done" /\ wpc'[r] # "done"
        /\ UNCHANGED <<created, collected, mpc, stop>>
    <3>1. CASE Acquire(r) \/ CreateFails(r)
      BY <2>0, <3>1 DEF Acquire, CreateFails, NextAttempt
    <3>2. CASE ResetStatus(r) \/ Delete(r) \/ SkipIgnored(r) \/ Create(r) \/ CreateFatal(r)
      BY <2>0, <3>2 DEF ResetStatus, Delete, SkipIgnored, Create, CreateFatal
    <3>3. CASE WaitResult(r) \/ WaitTimeout(r) \/ WaitStop(r)
      BY <2>0, <3>3 DEF WaitResult, WaitTimeout, WaitStop, AttemptFailed
    <3>4. CASE FailurePolicy(r)
      BY <2>0, <3>4 DEF FailurePolicy
    <3>5. CASE \E n \in Nodes : MarkIgnored(r, n)
      BY <2>0, <3>5 DEF MarkIgnored
    <3> QED
      BY <1>2, <3>1, <3>2, <3>3, <3>4, <3>5 DEF Worker
  <2>2. Done' = Done
    BY <2>1, WorkerEffect DEF Done
  <2> QED
    BY <2>1, <2>2, CountFrame
<1> QED
  BY <1>1, <1>2

LEMMA CountDeployer ==
  ASSUME TypeOK, CountInv, Deployer
  PROVE  CountInv'
<1>0. Done' = Done
  BY DEF Deployer, RequestRoot, AwaitCreated, Collect, Finalize, DeployStopped,
         workerVars, Done
<1>1. CASE \E r \in Nodes : RequestRoot(r)
  BY <1>0, <1>1, CountFrame DEF RequestRoot
<1>2. CASE AwaitCreated
  BY <1>0, <1>2 DEF AwaitCreated, CountInv, Counted, Complete, Unstopped
<1>3. CASE Collect
  <2>1. created \in Nat /\ collected \in Nat
    BY DEF TypeOK, DeployOK
  <2>2. created' + collected' = created + collected
    BY <1>3, <2>1 DEF Collect
  <2> QED
    BY <1>0, <1>3, <2>2 DEF Collect, CountInv, Counted, Complete, Unstopped
<1>4. CASE Finalize
  BY <1>0, <1>4 DEF Finalize, AllCollected, CountInv, Counted, Complete, Unstopped
<1>5. CASE DeployStopped
  BY <1>0, <1>5 DEF DeployStopped, CountInv, Counted, Complete, Unstopped
<1> QED
  BY <1>1, <1>2, <1>3, <1>4, <1>5 DEF Deployer

LEMMA CountStep ==
  ASSUME CoreInv, CountInv, [Next]_vars
  PROVE  CountInv'
<1>0. TypeOK
  BY DEF CoreInv
<1>1. CASE UNCHANGED vars \/ Terminated
  BY <1>1, CountFrame DEF Terminated, vars, workerVars, deployVars, Done
<1>2. CASE Stop
  BY <1>2 DEF Stop, workerVars, Done, CountInv, Counted, Complete, Unstopped
<1>3. ASSUME NEW r \in Nodes, Poller(r) \/ Progress(r)
      PROVE  CountInv'
  BY <1>3, CountFrame DEF Poller, Poll, PollerStop, Progress, workerVars, deployVars, Done
<1>4. ASSUME NEW e \in Edges, Ticker(e)
      PROVE  CountInv'
  BY <1>4, CountFrame DEF Ticker, TickerWake, TickerStop, TickerLock, TickerRequest,
                          CheckParent, ReadIgnored, workerVars, deployVars, Done
<1>5. CASE DispatcherExit
  BY <1>5, CountFrame DEF DispatcherExit, workerVars, Done
<1>6. ASSUME NEW r \in Nodes, Dispatch(r)
      PROVE  CountInv'
  <2>1. queued \in [Nodes -> Nat] /\ wpc \in [Nodes -> WorkerStates]
    BY <1>0 DEF TypeOK, DeployOK, WorkersOK
  <2>2. wpc[r] = "none"
    BY <1>6, <2>1 DEF Dispatch, CoreInv, OnceInv, Requested
  <2>3. Done' = Done
    BY <1>6, <2>1, <2>2 DEF Dispatch, Done
  <2> QED
    BY <1>6, <2>3, CountFrame DEF Dispatch
<1>7. CASE Step
  BY <1>0, <1>2, <1>3, <1>4, <1>5, <1>6, <1>7, CountWorker, CountDeployer
     DEF Step, Dispatcher
<1> QED
  BY <1>1, <1>7 DEF Next

LEMMA CountInit == Init => CountInv
<1> SUFFICES ASSUME Init PROVE CountInv
  OBVIOUS
<1>1. Cardinality(Done) = 0
  BY FS_EmptySet DEF Init, Done
<1> QED
  <2>1. created = 0 /\ collected = 0
    BY DEF Init
  <2>2. Counted
    BY <1>1, <2>1 DEF Counted
  <2> QED
    BY <2>2 DEF Init, CountInv, Complete, Unstopped

\* Deploy's count of `created` messages accounts for every worker that is done,
\* until the deployment is stopped.
THEOREM CountInvariant == Spec => []CountInv
<1>1. CoreInv /\ CountInv /\ [Next]_vars => CountInv'
  BY CountStep
<1> QED
  BY <1>1, CountInit, CoreInvariant, PTL DEF Spec

\* The finalizer, which acknowledges or deletes replicas, runs after the last
\* worker, and no creation is requested after it.
THEOREM FinalizerAfterAll == Spec => []FinalizerLast
<1>1. CoreInv /\ CountInv => FinalizerLast
  <2> SUFFICES ASSUME CoreInv, CountInv, mpc = "finished", NEW r \in Nodes
               PROVE  wpc[r] = "done" /\ queued[r] = 0
    BY DEF FinalizerLast
  <2>1. wpc[r] = "done"
    BY FinishedAllDone DEF CoreInv, Done
  <2> QED
    BY <2>1 DEF CoreInv, OnceInv, Requested
<1> QED
  BY <1>1, CountInvariant, CoreInvariant, PTL

\* A send on a closed channel takes a stop: without one, the goroutines that
\* outlive Deploy (tickers, pollers) never send on its channels.
LEMMA NoSendStep ==
  ASSUME ~MayStop, CoreInv, CountInv, NoSendOnClosed, [Next]_vars
  PROVE  NoSendOnClosed'
<1>1. Closed => Done = Nodes
  BY FinishedAllDone DEF CoreInv, CountInv, Unstopped, Closed
<1>2. Closed => \A r \in Nodes : wpc[r] = "done" /\ started[r]
  BY <1>1 DEF Done, CoreInv, OnceInv, Requested
<1>3. ASSUME NEW r \in Nodes, Worker(r)
      PROVE  NoSendOnClosed'
  <2>1. CASE Finish(r)
    BY <1>2, <2>1 DEF Finish, NoSendOnClosed
  <2>2. CASE ~Finish(r)
    BY <1>3, <2>2 DEF Worker, Acquire, ResetStatus, Delete, SkipIgnored, Create, CreateFails,
                      CreateFatal, WaitResult, WaitTimeout, WaitStop, FailurePolicy,
                      MarkIgnored, deployVars, NoSendOnClosed
  <2> QED
    BY <2>1, <2>2
<1>4. ASSUME NEW e \in Edges, Ticker(e)
      PROVE  NoSendOnClosed'
  <2>0. e[2] \in Nodes
    BY EdgesAssumption
  <2>1. CASE TickerRequest(e)
    <3>1. ~Closed
      BY <1>2, <2>0, <2>1 DEF TickerRequest, CoreInv, OnceInv, CheckUnstarted
    <3> QED
      BY <2>1, <3>1 DEF TickerRequest, SendToCreate, NoSendOnClosed
  <2>2. CASE ~TickerRequest(e)
    BY <1>4, <2>2 DEF Ticker, TickerWake, TickerStop, TickerLock, CheckParent, ReadIgnored,
                      deployVars, NoSendOnClosed
  <2> QED
    BY <2>1, <2>2
<1>5. CASE Deployer
  BY <1>5 DEF Deployer, RequestRoot, SendToCreate, Closed, AwaitCreated, Collect, Finalize,
              DeployStopped, NoSendOnClosed
<1>6. CASE UNCHANGED vars \/ Terminated \/ Stop \/ Dispatcher
  BY <1>6 DEF Terminated, Stop, Dispatcher, DispatcherExit, Dispatch, vars, deployVars,
              NoSendOnClosed
<1>7. ASSUME NEW r \in Nodes, Poller(r) \/ Progress(r)
      PROVE  NoSendOnClosed'
  BY <1>7 DEF Poller, Poll, PollerStop, Progress, deployVars, NoSendOnClosed
<1>8. CASE Step
  BY <1>3, <1>4, <1>5, <1>6, <1>7, <1>8 DEF Step
<1> QED
  BY <1>6, <1>8 DEF Next

\* A deployment that is not stopped never sends on a channel Deploy has closed
\* (scheduler.go: toCreate in RequestCreation, created in createResources).
THEOREM NoPanicWithoutStop ==
  ASSUME ~MayStop
  PROVE  Spec => []NoSendOnClosed
<1>1. Init => NoSendOnClosed
  BY DEF Init, NoSendOnClosed
<1>2. CoreInv /\ CountInv /\ NoSendOnClosed /\ [Next]_vars => NoSendOnClosed'
  BY NoSendStep
<1> QED
  BY <1>1, <1>2, CountInvariant, CoreInvariant, PTL DEF Spec

(***************************************************************************)
(* External resources                                                      *)
(***************************************************************************)

\* A worker gets to Delete only if its resource may be deleted.
DeleteInv == \A r \in Nodes : wpc[r] = "delete" => MayDelete(r)

LEMMA DeleteStep ==
  ASSUME TypeOK, DeleteInv, [Next]_vars
  PROVE  DeleteInv'
<1> USE DEF workerVars, MayDelete
<1>0. wpc \in [Nodes -> WorkerStates]
  BY DEF TypeOK, WorkersOK
<1>1. ASSUME wpc' = wpc PROVE DeleteInv'
  BY <1>1 DEF DeleteInv
<1>2. ASSUME NEW r \in Nodes, Worker(r) PROVE DeleteInv'
  <2>1. CASE ResetStatus(r)
    BY <1>0, <2>1 DEF ResetStatus, DeleteInv
  <2>2. CASE \E n \in Nodes : MarkIgnored(r, n)
    BY <1>0, <2>2 DEF MarkIgnored, DeleteInv
  <2>3. CASE Acquire(r) \/ Delete(r) \/ SkipIgnored(r) \/ Create(r) \/ CreateFails(r) \/ CreateFatal(r)
    BY <1>0, <2>3 DEF Acquire, Delete, SkipIgnored, Create, CreateFails, CreateFatal, NextAttempt,
                      DeleteInv
  <2>4. CASE WaitResult(r) \/ WaitTimeout(r) \/ WaitStop(r) \/ FailurePolicy(r) \/ Finish(r)
    BY <1>0, <2>4 DEF WaitResult, WaitTimeout, WaitStop, AttemptFailed, FailurePolicy, Finish,
                      DeleteInv
  <2> QED
    BY <1>2, <2>1, <2>2, <2>3, <2>4 DEF Worker
<1>3. ASSUME NEW r \in Nodes, Poller(r) \/ Progress(r) PROVE DeleteInv'
  BY <1>1, <1>3 DEF Poller, Poll, PollerStop, Progress
<1>4. ASSUME NEW e \in Edges, Ticker(e) PROVE DeleteInv'
  BY <1>1, <1>4 DEF Ticker, TickerWake, TickerStop, TickerLock, TickerRequest, CheckParent,
                    ReadIgnored
<1>5. CASE UNCHANGED vars \/ Terminated \/ Stop \/ Deployer \/ DispatcherExit
  BY <1>1, <1>5 DEF Terminated, Stop, Deployer, RequestRoot, AwaitCreated, Collect, Finalize,
                    DeployStopped, DispatcherExit, vars
<1>6. ASSUME NEW r \in Nodes, Dispatch(r) PROVE DeleteInv'
  BY <1>0, <1>6 DEF Dispatch, DeleteInv
<1> QED
  BY <1>2, <1>3, <1>4, <1>5, <1>6 DEF Next, Step, Dispatcher

\* A resource without a definition is neither created nor deleted, whatever
\* fails or times out, unless the options allow its deletion (createResources
\* and the Create of the existing kinds).
THEOREM ExternalStaysUntouched == Spec => ExternalUntouched
<1> DEFINE Kept == \A r \in Existing : ~AllowDeleteExternalResources =>
                     (obj[r] = Absent <=> obj'[r] = Absent)
<1>1. TypeOK /\ DeleteInv /\ [Next]_vars => [Kept]_vars
  <2> SUFFICES ASSUME TypeOK, DeleteInv, Next, NEW r \in Existing, ~AllowDeleteExternalResources
               PROVE  obj[r] = Absent <=> obj'[r] = Absent
    OBVIOUS
  <2>0. r \in Nodes /\ obj \in [Nodes -> Absent .. Full] /\ Full \in Nat
    BY SubsetAssumption, ParameterAssumption DEF TypeOK, ClusterOK
  <2> DEFINE Goal == obj[r] = Absent <=> obj'[r] = Absent
  <2>1. ASSUME UNCHANGED obj PROVE Goal
    BY <2>1
  <2>2. ASSUME NEW n \in Nodes, Progress(n) PROVE Goal
    BY <2>0, <2>2 DEF Progress, Absent
  <2>3. ASSUME NEW n \in Nodes, Delete(n) PROVE Goal
    <3>1. n # r
      BY <2>3 DEF Delete, DeleteInv, MayDelete
    <3> QED
      BY <2>0, <2>3, <3>1 DEF Delete
  <2>4. ASSUME NEW n \in Nodes, Create(n) PROVE Goal
    <3>1. obj'[r] = IF n = r /\ CreateMakes(n) THEN 0 ELSE obj[r]
      BY <2>0, <2>4 DEF Create
    <3>2. n = r => ~CreateMakes(n)
      BY DEF CreateMakes
    <3> QED
      BY <3>1, <3>2
  <2> HIDE DEF Goal
  <2> USE DEF clusterVars
  <2>5. ASSUME NEW n \in Nodes, Worker(n) PROVE Goal
    BY <2>1, <2>3, <2>4, <2>5
       DEF Worker, Acquire, ResetStatus, SkipIgnored, CreateFails, CreateFatal, WaitResult,
           WaitTimeout, WaitStop, FailurePolicy, MarkIgnored, Finish
  <2>6. ASSUME NEW e \in Edges, Ticker(e) PROVE Goal
    BY <2>1, <2>6 DEF Ticker, TickerWake, TickerStop, TickerLock, TickerRequest, CheckParent,
                      ReadIgnored
  <2>7. ASSUME NEW n \in Nodes, Poller(n) PROVE Goal
    BY <2>1, <2>7 DEF Poller, Poll, PollerStop
  <2>8. ASSUME Terminated \/ Stop \/ Deployer \/ Dispatcher PROVE Goal
    BY <2>1, <2>8 DEF Terminated, Stop, Deployer, RequestRoot, AwaitCreated, Collect, Finalize,
                      DeployStopped, Dispatcher, DispatcherExit, Dispatch, vars
  <2>9. Goal
    BY <2>2, <2>5, <2>6, <2>7, <2>8 DEF Next, Step
  <2> QED
    BY <2>9 DEF Goal
<1>2. Init => DeleteInv
  BY DEF Init, DeleteInv
<1>3. TypeOK /\ DeleteInv /\ [Next]_vars => DeleteInv'
  BY DeleteStep
<1> QED
  BY <1>1, <1>2, <1>3, TypeCorrect, PTL DEF Spec, ExternalUntouched
=============================================================================
