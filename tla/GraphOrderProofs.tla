-------------------------- MODULE GraphOrderProofs --------------------------
(***************************************************************************)
(* The order of a deployment: what a parent has been through when its      *)
(* dependent is requested, how far ignoreAll gets, what a reported success *)
(* is worth, and that all in all the deployment implements DeployOrder.    *)
(***************************************************************************)
EXTENDS GraphDeployProofs, GraphRefinement

(***************************************************************************)
(* ignoreAll reaches every dependent.                                      *)
(***************************************************************************)
IgnoreInv ==
  /\ IgnoreAllClosed
  /\ \A r \in Nodes : frontier[r] # {} => wpc[r] = "ignoreall"

LEMMA IgnoreFrame ==
  ASSUME TypeOK, IgnoreInv, UNCHANGED <<ignored, frontier>>,
         \A r \in Nodes : wpc[r] = "ignoreall" => wpc'[r] = "ignoreall"
  PROVE  IgnoreInv'
  BY DEF IgnoreInv, IgnoreAllClosed

LEMMA IgnoreWorker ==
  ASSUME TypeOK, IgnoreInv, NEW r \in Nodes, Worker(r)
  PROVE  IgnoreInv'
<1> USE DEF nodeVars, workerVars
<1>0. wpc \in [Nodes -> WorkerStates] /\ frontier \in [Nodes -> SUBSET Nodes]
  BY DEF TypeOK, WorkersOK
<1>1. CASE FailurePolicy(r)
  <2>1. frontier[r] = {}
    BY <1>1 DEF FailurePolicy, IgnoreInv
  <2>2. \A n \in Nodes \ {r} : frontier'[n] = frontier[n] /\ wpc'[n] = wpc[n]
    BY <1>0, <1>1 DEF FailurePolicy
  <2>3. \A n \in Nodes : /\ ignored[n] => ignored'[n]
                         /\ Policy[n] # "ignore" => ignored'[n] = ignored[n]
    BY <1>1 DEF FailurePolicy, TypeOK, NodesOK
  <2>4. \A n \in Nodes : frontier[n] \subseteq frontier'[n]
    BY <2>1, <2>2
  <2>5. IgnoreAllClosed'
    BY <2>3, <2>4, EdgesAssumption DEF IgnoreInv, IgnoreAllClosed
  <2>6. frontier'[r] # {} => wpc'[r] = "ignoreall"
    BY <1>0, <1>1 DEF FailurePolicy
  <2> QED
    BY <2>2, <2>5, <2>6 DEF IgnoreInv
<1>2. ASSUME NEW n \in Nodes, MarkIgnored(r, n)
      PROVE  IgnoreInv'
  <2>1. /\ ignored' = [ignored EXCEPT ![n] = TRUE]
        /\ frontier'[r] = (frontier[r] \ {n}) \cup RequiredBy(n)
        /\ \A m \in Nodes \ {r} : frontier'[m] = frontier[m] /\ wpc'[m] = wpc[m]
    BY <1>0, <1>2 DEF MarkIgnored
  <2>2. ASSUME NEW e \in Edges, ignored'[e[1]], Policy[e[1]] # "ignore"
        PROVE  ignored'[e[2]] \/ \E m \in Nodes : e[2] \in frontier'[m]
    <3>0. e[1] \in Nodes /\ e[2] \in Nodes /\ e = <<e[1], e[2]>>
      BY EdgesAssumption
    <3>1. CASE e[1] = n
      <4>1. e[2] \in RequiredBy(n)
        BY <3>0, <3>1 DEF RequiredBy
      <4> QED
        BY <2>1, <4>1
    <3>2. CASE e[1] # n
      <4>1. ignored[e[1]]
        BY <2>1, <2>2, <3>0, <3>2 DEF TypeOK, NodesOK
      <4>2. ignored[e[2]] \/ \E m \in Nodes : e[2] \in frontier[m]
        BY <2>2, <4>1 DEF IgnoreInv, IgnoreAllClosed
      <4>3. CASE e[2] = n
        BY <2>1, <4>3 DEF TypeOK, NodesOK
      <4>4. CASE e[2] # n
        BY <2>1, <3>0, <4>2, <4>4 DEF TypeOK, NodesOK
      <4> QED
        BY <4>3, <4>4
    <3> QED
      BY <3>1, <3>2
  <2>3. frontier'[r] # {} => wpc'[r] = "ignoreall"
    BY <1>0, <1>2 DEF MarkIgnored
  <2> QED
    BY <2>1, <2>2, <2>3 DEF IgnoreInv, IgnoreAllClosed
<1>3. CASE ~(FailurePolicy(r) \/ \E n \in Nodes : MarkIgnored(r, n))
  <2>1. UNCHANGED <<ignored, frontier>> /\ wpc[r] # "ignoreall"
    BY <1>3 DEF Worker, Acquire, ResetStatus, Delete, SkipIgnored, Create, CreateFails,
                CreateFatal, WaitResult, WaitTimeout, WaitStop, Finish
  <2> QED
    BY <2>1, WorkerEffect, IgnoreFrame
<1> QED
  BY <1>1, <1>2, <1>3

LEMMA IgnoreStep ==
  ASSUME CoreInv, IgnoreInv, [Next]_vars
  PROVE  IgnoreInv'
<1>0. TypeOK
  BY DEF CoreInv
<1> USE DEF nodeVars, workerVars
<1>1. CASE UNCHANGED vars \/ Terminated \/ Stop \/ Deployer \/ DispatcherExit
  BY <1>0, <1>1, IgnoreFrame
     DEF Terminated, Stop, Deployer, RequestRoot, AwaitCreated, Collect, Finalize,
         DeployStopped, DispatcherExit, vars
<1>2. ASSUME NEW r \in Nodes, Poller(r) \/ Progress(r)
      PROVE  IgnoreInv'
  BY <1>0, <1>2, IgnoreFrame DEF Poller, Poll, PollerStop, Progress
<1>3. ASSUME NEW e \in Edges, Ticker(e)
      PROVE  IgnoreInv'
  BY <1>0, <1>3, IgnoreFrame DEF Ticker, TickerWake, TickerStop, TickerLock, TickerRequest,
                                 CheckParent, ReadIgnored
<1>4. ASSUME NEW r \in Nodes, Dispatch(r)
      PROVE  IgnoreInv'
  <2>1. queued \in [Nodes -> Nat] /\ wpc \in [Nodes -> WorkerStates]
    BY <1>0 DEF TypeOK, DeployOK, WorkersOK
  <2>2. wpc[r] = "none"
    BY <1>4, <2>1 DEF Dispatch, CoreInv, OnceInv, Requested
  <2> QED
    BY <1>0, <1>4, <2>1, <2>2, IgnoreFrame DEF Dispatch
<1>5. CASE Step
  BY <1>0, <1>1, <1>2, <1>3, <1>4, <1>5, IgnoreWorker DEF Step, Dispatcher
<1> QED
  BY <1>1, <1>5 DEF Next

\* A marked resource whose dependents are not marked yet has an ignoreAll call
\* in progress that will mark them.
THEOREM IgnoreAllReachesAll == Spec => []IgnoreAllClosed
<1>1. Init => IgnoreInv
  BY EdgesAssumption DEF Init, IgnoreInv, IgnoreAllClosed
<1>2. CoreInv /\ IgnoreInv /\ [Next]_vars => IgnoreInv'
  BY IgnoreStep
<1>3. IgnoreInv => IgnoreAllClosed
  BY DEF IgnoreInv
<1> QED
  BY <1>1, <1>2, <1>3, CoreInvariant, PTL DEF Spec

(***************************************************************************)
(* Dependencies are met.  The cache of Status answers every dependent with *)
(* what the least demanding one was told, so what is guaranteed for any    *)
(* metadata is the lowest level any dependent asks for: Low[r] is a lower  *)
(* bound of what the dependents of r need.                                 *)
(***************************************************************************)
LowerBound(Low) ==
  /\ Low \in [Nodes -> 0 .. Full]
  /\ \A e \in Edges : Low[e[1]] <= Need[e]

\* The parent has been ready enough, or its failure is ignored.
Met(Low, p) == reached[p] >= Low[p] \/ ignored[p]

ReachInv(Low) ==
  \A r \in Nodes : obj[r] <= reached[r] /\ (status[r] => reached[r] >= Low[r])

TodoInv == \A r \in Nodes : todo[r] \subseteq Requires(r)

\* IsBlocked has let pass only parents that meet the dependency.
CheckedInv(Low) ==
  \A e \in Edges : tick[e] = "check" =>
    \A p \in Requires(e[2]) \ todo[e[2]] : <<p, e[2]>> \in OnErrorEdges \/ Met(Low, p)

StartedInv(Low) ==
  \A e \in Edges \ OnErrorEdges : started[e[2]] => Met(Low, e[1])

OrderInv(Low) == ReachInv(Low) /\ TodoInv /\ CheckedInv(Low) /\ StartedInv(Low)

\* Levels only grow, and only in the cluster's steps and Create.
LEMMA ReachedGrows ==
  ASSUME NEW Low, LowerBound(Low), TypeOK, TypeOK', ReachInv(Low), [Next]_vars
  PROVE  \A r \in Nodes : /\ reached'[r] >= reached[r]
                          /\ obj'[r] <= reached'[r]
                          /\ ignored[r] => ignored'[r]
<1>0. /\ obj \in [Nodes -> -1 .. Full] /\ reached \in [Nodes -> -1 .. Full]
      /\ Full \in Nat
  BY ParameterAssumption DEF TypeOK, ClusterOK, Absent
<1>1. \A r \in Nodes : obj[r] <= reached[r]
  BY DEF ReachInv
<1> DEFINE Goal == \A r \in Nodes : reached'[r] >= reached[r] /\ obj'[r] <= reached'[r]
<1>2. ASSUME UNCHANGED <<obj, reached>> PROVE Goal
  BY <1>0, <1>1, <1>2
<1>3. ASSUME NEW n \in Nodes, Progress(n) PROVE Goal
  BY <1>0, <1>1, <1>3 DEF Progress
<1>4. ASSUME NEW n \in Nodes, Delete(n) PROVE Goal
  BY <1>0, <1>1, <1>4 DEF Delete, Absent
<1>5. ASSUME NEW n \in Nodes, Create(n) PROVE Goal
  <2>1. /\ obj' = obj \/ obj' = [obj EXCEPT ![n] = 0]
        /\ reached' = [reached EXCEPT ![n] = IF @ = -1 THEN 0 ELSE @]
    BY <1>0, <1>5 DEF Create, Absent
  <2> SUFFICES ASSUME NEW r \in Nodes
               PROVE  reached'[r] >= reached[r] /\ obj'[r] <= reached'[r]
    OBVIOUS
  <2>2. CASE r = n
    BY <1>0, <1>1, <2>1, <2>2
  <2>3. CASE r # n
    BY <1>0, <1>1, <2>1, <2>3
  <2> QED
    BY <2>2, <2>3
<1>6. Goal
  <2> HIDE DEF Goal
  <2> USE DEF clusterVars
  <2>1. ASSUME NEW r \in Nodes, Worker(r) PROVE Goal
    BY <1>2, <1>4, <1>5, <2>1
       DEF Worker, Acquire, ResetStatus, SkipIgnored, CreateFails, CreateFatal, WaitResult,
           WaitTimeout, WaitStop, FailurePolicy, MarkIgnored, Finish
  <2>2. ASSUME NEW e \in Edges, Ticker(e) PROVE Goal
    BY <1>2, <2>2 DEF Ticker, TickerWake, TickerStop, TickerLock, TickerRequest, CheckParent,
                      ReadIgnored
  <2>3. ASSUME NEW r \in Nodes, Poller(r) PROVE Goal
    BY <1>2, <2>3 DEF Poller, Poll, PollerStop
  <2>4. CASE UNCHANGED vars \/ Terminated \/ Stop \/ Deployer \/ Dispatcher
    BY <1>2, <2>4 DEF Terminated, Stop, Deployer, RequestRoot, AwaitCreated, Collect, Finalize,
                      DeployStopped, Dispatcher, DispatcherExit, Dispatch, vars
  <2> QED
    BY <1>3, <2>1, <2>2, <2>3, <2>4 DEF Next, Step
<1>7. \A r \in Nodes : ignored[r] => ignored'[r]
  <2> USE DEF nodeVars
  <2>1. ASSUME NEW r \in Nodes, Worker(r)
        PROVE  \A n \in Nodes : ignored[n] => ignored'[n]
    <3>1. CASE FailurePolicy(r)
      BY <3>1 DEF FailurePolicy, TypeOK, NodesOK
    <3>2. CASE \E n \in Nodes : MarkIgnored(r, n)
      BY <3>2 DEF MarkIgnored, TypeOK, NodesOK
    <3>3. CASE ~(FailurePolicy(r) \/ \E n \in Nodes : MarkIgnored(r, n))
      BY <2>1, <3>3
         DEF Worker, Acquire, ResetStatus, Delete, SkipIgnored, Create, CreateFails,
             CreateFatal, WaitResult, WaitTimeout, WaitStop, Finish
    <3> QED
      BY <3>1, <3>2, <3>3
  <2>2. ASSUME NEW e \in Edges, Ticker(e) PROVE ignored' = ignored
    BY <2>2 DEF Ticker, TickerWake, TickerStop, TickerLock, TickerRequest, CheckParent,
                ReadIgnored
  <2>3. ASSUME NEW r \in Nodes, Poller(r) \/ Progress(r) PROVE ignored' = ignored
    BY <2>3 DEF Poller, Poll, PollerStop, Progress
  <2>4. CASE UNCHANGED vars \/ Terminated \/ Stop \/ Deployer \/ Dispatcher
    BY <2>4 DEF Terminated, Stop, Deployer, RequestRoot, AwaitCreated, Collect, Finalize,
                DeployStopped, Dispatcher, DispatcherExit, Dispatch, vars
  <2> QED
    BY <2>1, <2>2, <2>3, <2>4 DEF Next, Step
<1> QED
  BY <1>6, <1>7

\* What a caller is told: "ready" without an error means ready enough.
LEMMA AnswerMet ==
  ASSUME NEW Low, LowerBound(Low), TypeOK, ReachInv(Low),
         NEW r \in Nodes, NEW need \in Low[r] .. Full,
         NEW ready \in BOOLEAN, NEW err \in BOOLEAN, NEW cost \in 0 .. 1,
         Answer(r, need, ready, err, cost), ready, ~err
  PROVE  reached[r] >= Low[r]
<1>1. obj[r] \in Int /\ reached[r] \in Int /\ Low[r] \in Int
  BY ParameterAssumption DEF TypeOK, ClusterOK, LowerBound, Absent
<1>2. status[r] \/ obj[r] >= need
  BY DEF Answer
<1>3. obj[r] <= reached[r] /\ (status[r] => reached[r] >= Low[r])
  BY DEF ReachInv
<1> QED
  BY <1>1, <1>2, <1>3

\* Status caches "ready" only for a resource that has been ready enough.
LEMMA StatusCached ==
  ASSUME NEW Low, LowerBound(Low), TypeOK, ReachInv(Low),
         NEW r \in Nodes, NEW need \in Low[r] .. Full,
         NEW ready \in BOOLEAN, NEW err \in BOOLEAN, NEW cost \in 0 .. 1,
         Answer(r, need, ready, err, cost), Status(r, ready, err, cost)
  PROVE  \A n \in Nodes : status'[n] => reached[n] >= Low[n]
<1> SUFFICES ASSUME NEW n \in Nodes, status'[n]
             PROVE  reached[n] >= Low[n]
  OBVIOUS
<1>1. status[n] \/ (n = r /\ ready /\ ~err)
  BY DEF Status, TypeOK, NodesOK
<1>2. CASE status[n]
  BY <1>2 DEF ReachInv
<1>3. CASE n = r /\ ready /\ ~err
  BY <1>3, AnswerMet
<1> QED
  BY <1>1, <1>2, <1>3

LEMMA NeedAboveLow ==
  ASSUME NEW Low, LowerBound(Low), NEW e \in Edges
  PROVE  /\ Need[e] \in Low[e[1]] .. Full
         /\ \A r \in Nodes : Full \in Low[r] .. Full /\ Low[r] \in 0 .. Full
<1>1. e[1] \in Nodes
  BY EdgesAssumption
<1>2. Need[e] \in 0 .. Full /\ Full \in Nat
  BY ParameterAssumption
<1>3. Low[e[1]] <= Need[e] /\ \A r \in Nodes : Low[r] \in 0 .. Full
  BY DEF LowerBound
<1> QED
  BY <1>1, <1>2, <1>3

LEMMA TodoStep ==
  ASSUME TypeOK, TodoInv, [Next]_vars
  PROVE  TodoInv'
<1> USE DEF tickVars
<1>1. ASSUME todo' = todo PROVE TodoInv'
  BY <1>1 DEF TodoInv, Requires
<1>2. ASSUME NEW e \in Edges, Ticker(e) PROVE TodoInv'
  <2>0. e[2] \in Nodes
    BY EdgesAssumption
  <2>1. \/ todo' = todo
        \/ todo' = [todo EXCEPT ![e[2]] = Requires(e[2])]
        \/ todo' = [todo EXCEPT ![e[2]] = {}]
        \/ \E p \in Nodes : todo' = [todo EXCEPT ![e[2]] = @ \ {p}]
    BY <1>2 DEF Ticker, TickerWake, TickerStop, TickerLock, TickerRequest, CheckParent,
                ReadIgnored, Passed, Blocked
  <2> QED
    BY <2>0, <2>1 DEF TodoInv, Requires, TypeOK, TickersOK
<1>3. ASSUME NEW r \in Nodes, Worker(r) \/ Poller(r) \/ Progress(r) PROVE todo' = todo
  BY <1>3 DEF Worker, Acquire, ResetStatus, Delete, SkipIgnored, Create, CreateFails,
              CreateFatal, WaitResult, WaitTimeout, WaitStop, FailurePolicy, MarkIgnored,
              Finish, Poller, Poll, PollerStop, Progress
<1>4. CASE UNCHANGED vars \/ Terminated \/ Stop \/ Deployer \/ Dispatcher
  BY <1>1, <1>4 DEF Terminated, Stop, Deployer, RequestRoot, AwaitCreated, Collect, Finalize,
                    DeployStopped, Dispatcher, DispatcherExit, Dispatch, vars
<1> QED
  BY <1>1, <1>2, <1>3, <1>4 DEF Next, Step

LEMMA ReachStep ==
  ASSUME NEW Low, LowerBound(Low), TypeOK, TypeOK', TodoInv, ReachInv(Low), [Next]_vars
  PROVE  ReachInv(Low)'
<1>1. \A r \in Nodes : reached'[r] >= reached[r] /\ obj'[r] <= reached'[r]
  BY ReachedGrows
<1> DEFINE Goal == \A r \in Nodes : status'[r] => reached[r] >= Low[r]
<1>2. ASSUME status' = status PROVE Goal
  BY <1>2 DEF ReachInv
<1>3. ASSUME NEW e \in Edges, NEW p \in Nodes, CheckParent(e, p) PROVE Goal
  <2>0. e[2] \in Nodes
    BY EdgesAssumption
  <2>1. PICK ready \in BOOLEAN, err \in BOOLEAN, cost \in 0 .. 1 :
          /\ Answer(p, Need[<<p, e[2]>>], ready, err, cost)
          /\ Status(p, ready, err, cost)
    BY <1>3 DEF CheckParent
  <2>2. <<p, e[2]>> \in Edges
    BY <1>3, <2>0 DEF CheckParent, TodoInv, Requires
  <2>3. Need[<<p, e[2]>>] \in Low[p] .. Full
    BY <2>2, NeedAboveLow
  <2> QED
    BY <2>1, <2>3, StatusCached
<1>4. ASSUME NEW r \in Nodes, NEW k \in pollers[r], Poll(r, k) PROVE Goal
  <2>1. PICK ready \in BOOLEAN, err \in BOOLEAN, cost \in 0 .. 1 :
          Answer(r, Full, ready, err, cost) /\ Status(r, ready, err, cost)
    BY <1>4 DEF Poll
  <2>2. Full \in Low[r] .. Full
    BY ParameterAssumption DEF LowerBound
  <2> QED
    BY <2>1, <2>2, StatusCached
<1>5. ASSUME NEW r \in Nodes, ResetStatus(r) PROVE Goal
  BY <1>5 DEF ResetStatus, ReachInv, TypeOK, NodesOK
<1>6. Goal
  <2> HIDE DEF Goal
  <2> USE DEF nodeVars
  <2>1. ASSUME NEW r \in Nodes, Worker(r) PROVE Goal
    BY <1>2, <1>5, <2>1
       DEF Worker, Acquire, Delete, SkipIgnored, Create, CreateFails, CreateFatal, WaitResult,
           WaitTimeout, WaitStop, FailurePolicy, MarkIgnored, Finish
  <2>2. ASSUME NEW e \in Edges, Ticker(e) PROVE Goal
    BY <1>2, <1>3, <2>2 DEF Ticker, TickerWake, TickerStop, TickerLock, TickerRequest,
                            ReadIgnored
  <2>3. ASSUME NEW r \in Nodes, Poller(r) \/ Progress(r) PROVE Goal
    BY <1>2, <1>4, <2>3 DEF Poller, PollerStop, Progress
  <2>4. CASE UNCHANGED vars \/ Terminated \/ Stop \/ Deployer \/ Dispatcher
    BY <1>2, <2>4 DEF Terminated, Stop, Deployer, RequestRoot, AwaitCreated, Collect, Finalize,
                      DeployStopped, Dispatcher, DispatcherExit, Dispatch, vars
  <2> QED
    BY <2>1, <2>2, <2>3, <2>4 DEF Next, Step
<1>7. \A r \in Nodes : reached[r] \in Int /\ reached'[r] \in Int /\ Low[r] \in Int
  BY ParameterAssumption DEF TypeOK, ClusterOK, LowerBound, Absent
<1>8. \A r \in Nodes : status'[r] => reached'[r] >= Low[r]
  BY <1>1, <1>6, <1>7
<1> QED
  BY <1>1, <1>8 DEF ReachInv

\* What is met stays met.
LEMMA MetStable ==
  ASSUME NEW Low, LowerBound(Low), TypeOK, TypeOK', ReachInv(Low), [Next]_vars,
         NEW p \in Nodes, Met(Low, p)
  PROVE  Met(Low, p)'
<1>1. reached'[p] >= reached[p] /\ (ignored[p] => ignored'[p])
  BY ReachedGrows
<1>2. reached[p] \in Int /\ reached'[p] \in Int /\ Low[p] \in Int
  BY ParameterAssumption DEF TypeOK, ClusterOK, LowerBound, Absent
<1> QED
  BY <1>1, <1>2 DEF Met

\* A step of the ticker of e leaves the other edges' checks as they are.
LEMMA CheckedTicker ==
  ASSUME NEW Low, LowerBound(Low), CoreInv, TypeOK', OrderInv(Low), [Next]_vars,
         NEW e \in Edges, Ticker(e)
  PROVE  CheckedInv(Low)'
<1>0. /\ TypeOK /\ CheckMutex /\ ReachInv(Low) /\ TodoInv /\ CheckedInv(Low)
      /\ e[1] \in Nodes /\ e[2] \in Nodes
  BY EdgesAssumption DEF CoreInv, OnceInv, OrderInv
<1>1. \A p \in Nodes : Met(Low, p) => Met(Low, p)'
  BY <1>0, MetStable
<1> DEFINE c == e[2]
           Ok(p) == <<p, c>> \in OnErrorEdges \/ Met(Low, p)'
<1>2. \A f \in Edges : f # e /\ tick[f] = "check" => f[2] # c \/ tick[e] # "check"
  BY <1>0 DEF CheckMutex
<1>3. ASSUME tick' = tick \/ (tick'[e] # "check" /\ \A f \in Edges : f # e => tick'[f] = tick[f]),
             \A r \in Nodes : todo[r] \subseteq todo'[r]
      PROVE  CheckedInv(Low)'
  <2> SUFFICES ASSUME NEW f \in Edges, tick'[f] = "check",
                      NEW p \in Requires(f[2]) \ todo'[f[2]], <<p, f[2]>> \notin OnErrorEdges
               PROVE  Met(Low, p)'
    BY DEF CheckedInv, Requires
  <2>1. tick[f] = "check" /\ f[2] \in Nodes /\ p \in Nodes
    BY <1>3, EdgesAssumption DEF Requires
  <2>2. p \in Requires(f[2]) \ todo[f[2]]
    BY <1>3, <2>1
  <2> QED
    BY <1>0, <1>1, <2>1, <2>2 DEF CheckedInv
<1>4. CASE TickerWake(e) \/ TickerStop(e) \/ TickerRequest(e)
  BY <1>0, <1>3, <1>4 DEF TickerWake, TickerStop, TickerRequest, TypeOK, TickersOK
<1>5. CASE TickerLock(e)
  <2>1. CASE tick' = [tick EXCEPT ![e] = "sleep"] /\ UNCHANGED todo
    BY <1>0, <1>3, <2>1 DEF TypeOK, TickersOK
  <2>2. CASE /\ tick' = [tick EXCEPT ![e] = "check"]
             /\ todo' = [todo EXCEPT ![c] = Requires(c)]
    <3> SUFFICES ASSUME NEW f \in Edges, tick'[f] = "check",
                        NEW p \in Requires(f[2]) \ todo'[f[2]], <<p, f[2]>> \notin OnErrorEdges
                 PROVE  Met(Low, p)'
      BY DEF CheckedInv, Requires
    <3>1. f[2] \in Nodes /\ p \in Nodes
      BY EdgesAssumption DEF Requires
    <3>2. f[2] # c
      BY <1>0, <2>2 DEF TypeOK, TickersOK
    <3>3. tick[f] = "check" /\ todo'[f[2]] = todo[f[2]]
      BY <1>0, <2>2, <3>1, <3>2 DEF TypeOK, TickersOK
    <3> QED
      BY <1>0, <1>1, <3>1, <3>3 DEF CheckedInv
  <2> QED
    BY <1>5, <2>1, <2>2 DEF TickerLock
<1>6. ASSUME Blocked(e), tick[e] = "check" PROVE CheckedInv(Low)'
  <2> SUFFICES ASSUME NEW f \in Edges, tick'[f] = "check",
                      NEW p \in Requires(f[2]) \ todo'[f[2]], <<p, f[2]>> \notin OnErrorEdges
               PROVE  Met(Low, p)'
    BY DEF CheckedInv, Requires
  <2>1. f[2] \in Nodes /\ p \in Nodes
    BY EdgesAssumption DEF Requires
  <2>2. f # e /\ tick[f] = "check"
    BY <1>0, <1>6 DEF Blocked, TypeOK, TickersOK
  <2>3. todo'[f[2]] = todo[f[2]]
    BY <1>0, <1>2, <1>6, <2>1, <2>2 DEF Blocked, TypeOK, TickersOK
  <2> QED
    BY <1>0, <1>1, <2>1, <2>2, <2>3 DEF CheckedInv
<1>7. ASSUME NEW q \in Nodes, Passed(e, q), tick[e] = "check",
             <<q, c>> \in OnErrorEdges \/ Met(Low, q)
      PROVE  CheckedInv(Low)'
  <2> SUFFICES ASSUME NEW f \in Edges, tick'[f] = "check",
                      NEW p \in Requires(f[2]) \ todo'[f[2]], <<p, f[2]>> \notin OnErrorEdges
               PROVE  Met(Low, p)'
    BY DEF CheckedInv, Requires
  <2>1. f[2] \in Nodes /\ p \in Nodes /\ tick[f] = "check"
    BY <1>7, EdgesAssumption DEF Requires, Passed
  <2>2. p \notin todo[f[2]] \/ (f[2] = c /\ p = q)
    BY <1>0, <1>7, <2>1 DEF Passed, TypeOK, TickersOK
  <2>3. CASE p \notin todo[f[2]]
    BY <1>0, <1>1, <2>1, <2>3 DEF CheckedInv
  <2>4. CASE f[2] = c /\ p = q
    BY <1>1, <1>7, <2>4
  <2> QED
    BY <2>2, <2>3, <2>4
<1>8. ASSUME NEW p \in Nodes, CheckParent(e, p) PROVE CheckedInv(Low)'
  <2>1. PICK ready \in BOOLEAN, err \in BOOLEAN, cost \in 0 .. 1 :
          /\ Answer(p, Need[<<p, c>>], ready, err, cost)
          /\ \/ err /\ <<p, c>> \notin OnErrorEdges /\ UNCHANGED <<tick, todo>>
             \/ /\ ~err \/ <<p, c>> \in OnErrorEdges
                /\ IF Blocks(ready, err, <<p, c>> \in OnErrorEdges)
                   THEN Blocked(e) ELSE Passed(e, p)
    BY <1>8 DEF CheckParent
  <2>2. tick[e] = "check" /\ <<p, c>> \in Edges
    BY <1>0, <1>8 DEF CheckParent, TodoInv, Requires
  <2>3. CASE UNCHANGED <<tick, todo>>
    BY <1>3, <2>3
  <2>4. CASE Blocked(e)
    BY <1>6, <2>2, <2>4
  <2>5. ASSUME Passed(e, p), ~Blocks(ready, err, <<p, c>> \in OnErrorEdges),
               ~err \/ <<p, c>> \in OnErrorEdges
        PROVE  CheckedInv(Low)'
    <3>1. CASE <<p, c>> \in OnErrorEdges
      BY <1>7, <2>2, <2>5, <3>1
    <3>2. CASE <<p, c>> \notin OnErrorEdges
      <4>1. ready /\ ~err
        BY <2>5, <3>2 DEF Blocks
      <4>2. Need[<<p, c>>] \in Low[p] .. Full
        BY <2>2, NeedAboveLow
      <4>3. Met(Low, p)
        BY <1>0, <2>1, <4>1, <4>2, AnswerMet DEF Met
      <4> QED
        BY <1>7, <2>2, <2>5, <4>3
    <3> QED
      BY <3>1, <3>2
  <2> QED
    BY <2>1, <2>3, <2>4, <2>5
<1>9. ASSUME NEW p \in Nodes, ReadIgnored(e, p) PROVE CheckedInv(Low)'
  <2>1. tick[e] = "check" /\ IF ignored[p] THEN Passed(e, p) ELSE Blocked(e)
    BY <1>9 DEF ReadIgnored, Excused
  <2>2. CASE ignored[p] /\ Passed(e, p)
    BY <1>7, <2>1, <2>2 DEF Met
  <2> QED
    BY <1>6, <2>1, <2>2
<1> QED
  BY <1>4, <1>5, <1>8, <1>9 DEF Ticker

LEMMA CheckedStep ==
  ASSUME NEW Low, LowerBound(Low), CoreInv, TypeOK', OrderInv(Low), [Next]_vars
  PROVE  CheckedInv(Low)'
<1>0. TypeOK /\ ReachInv(Low) /\ CheckedInv(Low)
  BY DEF CoreInv, OrderInv
<1>1. \A p \in Nodes : Met(Low, p) => Met(Low, p)'
  BY <1>0, MetStable
<1>2. ASSUME todo' = todo, \A e \in Edges : tick'[e] = "check" => tick[e] = "check"
      PROVE  CheckedInv(Low)'
  <2> SUFFICES ASSUME NEW f \in Edges, tick'[f] = "check",
                      NEW p \in Requires(f[2]) \ todo'[f[2]], <<p, f[2]>> \notin OnErrorEdges
               PROVE  Met(Low, p)'
    BY DEF CheckedInv, Requires
  <2>1. p \in Nodes
    BY DEF Requires
  <2> QED
    BY <1>0, <1>1, <1>2, <2>1 DEF CheckedInv
<1>3. ASSUME NEW r \in Nodes, Worker(r) \/ Poller(r) \/ Progress(r) PROVE CheckedInv(Low)'
  <2>1. CASE ResetStatus(r)
    BY <1>0, <1>2, <2>1 DEF ResetStatus, TypeOK, TickersOK
  <2>2. CASE ~ResetStatus(r)
    <3>1. tick' = tick /\ todo' = todo
      BY <1>3, <2>2 DEF Worker, Acquire, Delete, SkipIgnored, Create, CreateFails, CreateFatal,
              WaitResult, WaitTimeout, WaitStop, FailurePolicy, MarkIgnored, Finish, Poller,
              Poll, PollerStop, Progress, tickVars
    <3> QED
      BY <1>2, <3>1
  <2> QED
    BY <2>1, <2>2
<1>4. CASE UNCHANGED vars \/ Terminated \/ Stop \/ Deployer \/ Dispatcher
  <2>1. tick' = tick /\ todo' = todo
    BY <1>4 DEF Terminated, Stop, Deployer, RequestRoot, AwaitCreated, Collect, Finalize,
                DeployStopped, Dispatcher, DispatcherExit, Dispatch, vars, tickVars
  <2> QED
    BY <1>2, <2>1
<1> QED
  BY <1>3, <1>4, CheckedTicker DEF Next, Step

LEMMA StartedStep ==
  ASSUME NEW Low, LowerBound(Low), CoreInv, TypeOK', OrderInv(Low), [Next]_vars
  PROVE  StartedInv(Low)'
<1>0. TypeOK /\ ReachInv(Low) /\ CheckedInv(Low) /\ StartedInv(Low) /\ TodoInv
  BY DEF CoreInv, OrderInv
<1>1. \A p \in Nodes : Met(Low, p) => Met(Low, p)'
  BY <1>0, MetStable
<1>2. ASSUME \A f \in Edges \ OnErrorEdges :
               started'[f[2]] => started[f[2]] \/ Met(Low, f[1])
      PROVE  StartedInv(Low)'
  <2> SUFFICES ASSUME NEW f \in Edges \ OnErrorEdges, started'[f[2]]
               PROVE  Met(Low, f[1])'
    BY DEF StartedInv
  <2>1. f[1] \in Nodes
    BY EdgesAssumption
  <2>2. Met(Low, f[1])
    BY <1>0, <1>2 DEF StartedInv
  <2> QED
    BY <1>1, <2>1, <2>2
<1>3. ASSUME NEW e \in Edges, TickerRequest(e) PROVE StartedInv(Low)'
  <2> SUFFICES ASSUME NEW f \in Edges \ OnErrorEdges, started'[f[2]], ~started[f[2]]
               PROVE  Met(Low, f[1])
    BY <1>2
  <2>1. f[1] \in Nodes /\ f[2] \in Nodes /\ e[2] \in Nodes /\ f = <<f[1], f[2]>>
    BY EdgesAssumption
  <2>2. f[2] = e[2] /\ todo[e[2]] = {} /\ tick[e] = "check"
    BY <1>0, <1>3, <2>1 DEF TickerRequest, TypeOK, NodesOK
  <2>3. f[1] \in Requires(e[2]) \ todo[e[2]] /\ <<f[1], e[2]>> \notin OnErrorEdges
    BY <2>1, <2>2 DEF Requires
  <2> QED
    BY <1>0, <2>2, <2>3 DEF CheckedInv
<1>4. ASSUME NEW r \in Nodes, RequestRoot(r) PROVE StartedInv(Low)'
  <2> SUFFICES ASSUME NEW f \in Edges \ OnErrorEdges, started'[f[2]], ~started[f[2]]
               PROVE  FALSE
    BY <1>2
  <2>1. f[1] \in Nodes /\ f[2] \in Nodes /\ f = <<f[1], f[2]>>
    BY EdgesAssumption
  <2>2. f[2] = r
    BY <1>0, <1>4, <2>1 DEF RequestRoot, TypeOK, NodesOK
  <2> QED
    BY <1>4, <2>1, <2>2 DEF RequestRoot, Roots, Requires
<1>5. ASSUME started' = started PROVE StartedInv(Low)'
  BY <1>2, <1>5
<1>6. ASSUME NEW e \in Edges, Ticker(e) PROVE StartedInv(Low)'
  BY <1>3, <1>5, <1>6 DEF Ticker, TickerWake, TickerStop, TickerLock, CheckParent, ReadIgnored,
                          nodeVars
<1>7. ASSUME NEW r \in Nodes, Worker(r) \/ Poller(r) \/ Progress(r) PROVE started' = started
  BY <1>7 DEF Worker, Acquire, ResetStatus, Delete, SkipIgnored, Create, CreateFails,
              CreateFatal, WaitResult, WaitTimeout, WaitStop, FailurePolicy, MarkIgnored,
              Finish, Poller, Poll, PollerStop, Progress, nodeVars
<1>8. CASE UNCHANGED vars \/ Terminated \/ Stop \/ Deployer \/ Dispatcher
  BY <1>4, <1>5, <1>8 DEF Terminated, Stop, Deployer, AwaitCreated, Collect, Finalize,
                DeployStopped, Dispatcher, DispatcherExit, Dispatch, vars, nodeVars
<1> QED
  BY <1>5, <1>6, <1>7, <1>8 DEF Next, Step

LEMMA OrderInit ==
  ASSUME NEW Low, LowerBound(Low), Init
  PROVE  OrderInv(Low)
<1>1. Full \in Nat
  BY ParameterAssumption
<1>2. \A r \in Nodes : obj[r] <= reached[r] /\ ~status[r]
  <2>1. obj = [r \in Nodes |-> IF r \in Preexisting THEN Full ELSE Absent] /\ reached = obj
    BY DEF Init
  <2>2. status = [r \in Nodes |-> FALSE]
    BY DEF Init
  <2>3. \A r \in Nodes : obj[r] \in Int
    BY <1>1, <2>1 DEF Absent
  <2>4. \A r \in Nodes : obj[r] <= reached[r]
    BY <2>1, <2>3
  <2> QED
    BY <2>2, <2>4
<1>3. ReachInv(Low)
  BY <1>2 DEF ReachInv
<1>4. TodoInv
  BY DEF Init, TodoInv, Requires
<1>5. CheckedInv(Low)
  BY DEF Init, CheckedInv
<1>6. StartedInv(Low)
  BY EdgesAssumption DEF Init, StartedInv
<1> QED
  BY <1>3, <1>4, <1>5, <1>6 DEF OrderInv

LEMMA OrderStep ==
  ASSUME NEW Low, LowerBound(Low), TypeOK', CoreInv, OrderInv(Low), [Next]_vars
  PROVE  OrderInv(Low)'
<1>0. TypeOK
  BY DEF CoreInv
<1>1. TodoInv'
  BY <1>0, TodoStep DEF OrderInv
<1>2. ReachInv(Low)'
  BY <1>0, ReachStep DEF OrderInv
<1>3. CheckedInv(Low)'
  BY CheckedStep
<1>4. StartedInv(Low)'
  BY StartedStep
<1> QED
  BY <1>1, <1>2, <1>3, <1>4 DEF OrderInv

\* For every assignment of levels that no dependency asks less of, a resource is
\* requested (RequestCreation after IsBlocked) only after each parent it depends
\* on normally has had its level or has been ignored. With the lowest level any
\* dependent asks, this is the guarantee the shared readiness cache leaves.
THEOREM OrderInvariant ==
  ASSUME NEW CONSTANT Low, LowerBound(Low)
  PROVE  Spec => []OrderInv(Low)
<1>1. Init => OrderInv(Low)
  BY OrderInit
<1>2. TypeOK' /\ CoreInv /\ OrderInv(Low) /\ [Next]_vars => OrderInv(Low)'
  BY OrderStep
<1> QED
  BY <1>1, <1>2, CoreInvariant, TypeCorrect, PTL DEF Spec

\* When every dependency asks for full readiness (no success_factor below 100),
\* creation order follows the dependencies: DependenciesMet holds of Spec.
THEOREM DependenciesRespected ==
  ASSUME \A e \in Edges : Need[e] = Full
  PROVE  Spec => []DependenciesMet
<1> DEFINE Low == [r \in Nodes |-> Full]
<1>1. LowerBound(Low)
  BY EdgesAssumption, ParameterAssumption DEF LowerBound
<1>2. OrderInv(Low) => DependenciesMet
  <2> SUFFICES ASSUME StartedInv(Low), NEW e \in Edges \ OnErrorEdges, started[e[2]]
               PROVE  reached[e[1]] >= Need[e] \/ ignored[e[1]]
    BY DEF OrderInv, DependenciesMet
  <2>1. e[1] \in Nodes /\ Need[e] = Full
    BY EdgesAssumption
  <2>2. Low[e[1]] = Need[e]
    BY <2>1
  <2>3. Met(Low, e[1])
    BY DEF StartedInv
  <2> HIDE DEF Low
  <2> QED
    BY <2>2, <2>3 DEF Met
<1>3. Init => OrderInv(Low)
  BY <1>1, OrderInit
<1>4. TypeOK' /\ CoreInv /\ OrderInv(Low) /\ [Next]_vars => OrderInv(Low)'
  BY <1>1, OrderStep
<1> QED
  BY <1>2, <1>3, <1>4, CoreInvariant, TypeCorrect, PTL DEF Spec

(***************************************************************************)
(* Success                                                                 *)
(***************************************************************************)

\* The default metadata of resources and dependencies: a single attempt, and
\* parents that are ready to the full.
DefaultMetadata == /\ \A r \in Nodes : Attempts[r] <= 1
                   /\ \A e \in Edges : Need[e] = Full

\* "ready" is only said, and remembered, of an object that is ready to the full
\* and stays so; a worker that ends without success has given up.
ReadyInv ==
  /\ \A r \in Nodes : status[r] \/ result[r] = "ok" => obj[r] = Full
  /\ \A r \in Nodes : wpc[r] \in {"reset", "delete", "skip", "create", "wait"} => attempt[r] = 1
  /\ \A r \in Nodes : wpc[r] # "delete"
  /\ \A r \in Nodes : wpc[r] \in {"policy", "ignoreall"} => r \in gaveUp
  /\ \A r \in Nodes :
       wpc[r] \in {"finish", "done"} /\ Attempts[r] > 0 /\ r \notin gaveUp /\ ~ignored[r] =>
         obj[r] = Full

\* An object that is fully ready stays so, and what is ignored stays ignored.
LEMMA FullStays ==
  ASSUME DefaultMetadata, TypeOK, ReadyInv, Step
  PROVE  /\ \A r \in Nodes : obj[r] = Full => obj'[r] = Full
         /\ \A r \in Nodes : ignored[r] => ignored'[r]
<1>0. /\ obj \in [Nodes -> Absent .. Full] /\ Full \in Nat /\ Absent # Full
      /\ ignored \in [Nodes -> BOOLEAN]
  BY ParameterAssumption DEF TypeOK, ClusterOK, NodesOK, Absent
<1> DEFINE Goal == /\ \A r \in Nodes : obj[r] = Full => obj'[r] = Full
                   /\ \A r \in Nodes : ignored[r] => ignored'[r]
<1>1. ASSUME UNCHANGED <<obj, ignored>> PROVE Goal
  BY <1>1
<1>2. ASSUME NEW n \in Nodes, Progress(n) PROVE Goal
  <2>1. obj'[n] # Full => obj[n] # Full
    BY <1>0, <1>2 DEF Progress
  <2> QED
    BY <1>0, <1>2, <2>1 DEF Progress, nodeVars
<1>3. ASSUME NEW n \in Nodes, Delete(n) PROVE Goal
  BY <1>3 DEF Delete, ReadyInv
<1>4. ASSUME NEW n \in Nodes, Create(n) PROVE Goal
  <2>1. ASSUME NEW r \in Nodes, obj[r] = Full PROVE obj'[r] = Full
    <3>1. obj'[r] = IF n = r /\ CreateMakes(n) THEN 0 ELSE obj[r]
      BY <1>0, <1>4 DEF Create
    <3>2. n = r => ~CreateMakes(n)
      BY <1>0, <2>1 DEF CreateMakes
    <3> QED
      BY <2>1, <3>1, <3>2
  <2> QED
    BY <1>4, <2>1 DEF Create, nodeVars
<1>5. ASSUME NEW n \in Nodes, FailurePolicy(n) \/ \E m \in Nodes : MarkIgnored(n, m) PROVE Goal
  <2>1. ignored' \in [Nodes -> BOOLEAN] /\ UNCHANGED obj
    BY <1>0, <1>5 DEF FailurePolicy, MarkIgnored, clusterVars
  <2>2. \A r \in Nodes : ignored[r] => ignored'[r]
    BY <1>0, <1>5 DEF FailurePolicy, MarkIgnored
  <2> QED
    BY <2>1, <2>2
<1> HIDE DEF Goal
<1> USE DEF clusterVars, nodeVars
<1>6. ASSUME NEW n \in Nodes, Worker(n) PROVE Goal
  BY <1>1, <1>3, <1>4, <1>5, <1>6
     DEF Worker, Acquire, ResetStatus, SkipIgnored, CreateFails, CreateFatal, WaitResult,
         WaitTimeout, WaitStop, Finish
<1>7. ASSUME NEW e \in Edges, Ticker(e) PROVE Goal
  BY <1>1, <1>7 DEF Ticker, TickerWake, TickerStop, TickerLock, TickerRequest, CheckParent,
                    ReadIgnored
<1>8. ASSUME NEW n \in Nodes, Poller(n) PROVE Goal
  BY <1>1, <1>8 DEF Poller, Poll, PollerStop
<1>9. ASSUME Stop \/ Deployer \/ Dispatcher PROVE Goal
  BY <1>1, <1>9 DEF Stop, Deployer, RequestRoot, AwaitCreated, Collect, Finalize,
                    DeployStopped, Dispatcher, DispatcherExit, Dispatch
<1>10. Goal
  BY <1>2, <1>6, <1>7, <1>8, <1>9 DEF Step
<1> QED
  BY <1>10 DEF Goal

\* An answer "ready" to a caller that asks for everything.
LEMMA ReadyIsFull ==
  ASSUME TypeOK, ReadyInv, NEW r \in Nodes, NEW ready \in BOOLEAN, NEW err \in BOOLEAN,
         NEW cost \in 0 .. 1, Answer(r, Full, ready, err, cost), ready
  PROVE  obj[r] = Full
<1>1. obj[r] \in -1 .. Full /\ Full \in Nat
  BY ParameterAssumption DEF TypeOK, ClusterOK, Absent
<1>2. status[r] \/ obj[r] >= Full
  BY DEF Answer
<1>3. status[r] => obj[r] = Full
  BY DEF ReadyInv
<1> QED
  BY <1>1, <1>2, <1>3

\* The parts of ReadyInv, one resource at a time.
ReadySaid(r)  == status[r] \/ result[r] = "ok" => obj[r] = Full
FirstTry(r)   == /\ wpc[r] \in {"reset", "delete", "skip", "create", "wait"} => attempt[r] = 1
                 /\ wpc[r] # "delete"
Conceded(r)   == wpc[r] \in {"policy", "ignoreall"} => r \in gaveUp
Succeeded(r)  == wpc[r] \in {"finish", "done"} /\ Attempts[r] > 0 /\ r \notin gaveUp /\ ~ignored[r] =>
                   obj[r] = Full
Settled(r)    == FirstTry(r) /\ Conceded(r) /\ Succeeded(r)

\* Steps that leave the workers alone leave their part of ReadyInv alone.
LEMMA SettledElsewhere ==
  ASSUME DefaultMetadata, TypeOK, ReadyInv, Step, UNCHANGED <<attempt, gaveUp>>, NEW r \in Nodes,
         wpc'[r] = wpc[r] \/ wpc'[r] \in {"acquire", "none", "stopped"}
  PROVE  Settled(r)'
<1>1. obj[r] = Full => obj'[r] = Full
  BY FullStays
<1>2. ignored[r] => ignored'[r]
  BY FullStays
<1>3. Settled(r)
  BY DEF ReadyInv, Settled, FirstTry, Conceded, Succeeded
<1> QED
  BY <1>1, <1>2, <1>3 DEF Settled, FirstTry, Conceded, Succeeded

\* What remembers "ready" is only written by an answer "ready".
LEMMA SaidElsewhere ==
  ASSUME DefaultMetadata, TypeOK, ReadyInv, Step, NEW r \in Nodes,
         status'[r] => status[r] \/ obj[r] = Full,
         result'[r] = "ok" => result[r] = "ok" \/ obj[r] = Full
  PROVE  ReadySaid(r)'
<1>1. obj[r] = Full => obj'[r] = Full
  BY FullStays
<1> QED
  BY <1>1 DEF ReadyInv, ReadySaid

LEMMA ReadySaidKept ==
  ASSUME DefaultMetadata, TypeOK, TodoInv, ReadyInv, Step, NEW r \in Nodes
  PROVE  ReadySaid(r)'
<1> DEFINE Goal == ReadySaid(r)'
<1>0. status \in [Nodes -> BOOLEAN] /\ result \in [Nodes -> {"", "ok", "err"}]
  BY DEF TypeOK, NodesOK, WorkersOK
<1>1. ASSUME UNCHANGED <<status, result>> PROVE Goal
  BY <1>1, SaidElsewhere
<1>2. ASSUME NEW n \in Nodes, ResetStatus(n) PROVE Goal
  BY <1>0, <1>2, SaidElsewhere DEF ResetStatus
<1>3. ASSUME NEW n \in Nodes, Create(n) PROVE Goal
  BY <1>0, <1>3, SaidElsewhere DEF Create, nodeVars
<1>4. ASSUME NEW n \in Nodes, NEW k \in pollers[n], Poll(n, k) PROVE Goal
  <2>1. PICK ready \in BOOLEAN, err \in BOOLEAN, cost \in 0 .. 1 :
          /\ Answer(n, Full, ready, err, cost)
          /\ status' = [status EXCEPT ![n] = @ \/ (ready /\ ~err)]
          /\ result' = [result EXCEPT ![n] =
               IF k = attempt[n] /\ (err \/ ready) THEN IF err THEN "err" ELSE "ok" ELSE @]
    BY <1>4 DEF Poll, Status
  <2>2. ready => obj[n] = Full
    BY <2>1, ReadyIsFull
  <2>3. status'[r] => status[r] \/ obj[r] = Full
    BY <1>0, <2>1, <2>2
  <2>4. result'[r] = "ok" => result[r] = "ok" \/ obj[r] = Full
    BY <1>0, <2>1, <2>2
  <2> QED
    BY <2>3, <2>4, SaidElsewhere
<1>5. ASSUME NEW e \in Edges, NEW p \in Nodes, CheckParent(e, p) PROVE Goal
  <2>1. PICK ready \in BOOLEAN, err \in BOOLEAN, cost \in 0 .. 1 :
          /\ Answer(p, Need[<<p, e[2]>>], ready, err, cost)
          /\ status' = [status EXCEPT ![p] = @ \/ (ready /\ ~err)]
    BY <1>5 DEF CheckParent, Status
  <2>2. <<p, e[2]>> \in Edges
    BY <1>5, EdgesAssumption DEF CheckParent, TodoInv, Requires
  <2>3. ready => obj[p] = Full
    BY <2>1, <2>2, ReadyIsFull DEF DefaultMetadata
  <2>4. UNCHANGED result
    BY <1>5 DEF CheckParent, workerVars
  <2>5. status'[r] => status[r] \/ obj[r] = Full
    BY <1>0, <2>1, <2>3
  <2> QED
    BY <2>4, <2>5, SaidElsewhere
<1> HIDE DEF Goal
<1> USE DEF nodeVars, workerVars, deployVars
<1>6. ASSUME NEW n \in Nodes, Worker(n) PROVE Goal
  BY <1>1, <1>2, <1>3, <1>6
     DEF Worker, Acquire, Delete, SkipIgnored, CreateFails, CreateFatal, WaitResult,
         WaitTimeout, WaitStop, FailurePolicy, MarkIgnored, Finish
<1>7. ASSUME NEW e \in Edges, Ticker(e) PROVE Goal
  BY <1>1, <1>5, <1>7 DEF Ticker, TickerWake, TickerStop, TickerLock, TickerRequest, ReadIgnored
<1>8. ASSUME NEW n \in Nodes, Poller(n) PROVE Goal
  BY <1>1, <1>4, <1>8 DEF Poller, PollerStop
<1>9. ASSUME Stop \/ Deployer \/ Dispatcher \/ \E n \in Nodes : Progress(n) PROVE Goal
  BY <1>1, <1>9 DEF Stop, Deployer, RequestRoot, AwaitCreated, Collect, Finalize,
                    DeployStopped, Dispatcher, DispatcherExit, Dispatch, Progress
<1>10. Goal
  BY <1>6, <1>7, <1>8, <1>9 DEF Step
<1> QED
  BY <1>10 DEF Goal

LEMMA SettledWorker ==
  ASSUME DefaultMetadata, TypeOK, ReadyInv, Step, NEW n \in Nodes, Worker(n), NEW r \in Nodes
  PROVE  Settled(r)'
<1>0. /\ wpc \in [Nodes -> WorkerStates] /\ attempt \in [Nodes -> Nat] /\ Attempts \in [Nodes -> Nat]
      /\ ignored \in [Nodes -> BOOLEAN] /\ Attempts[n] <= 1
  BY ParameterAssumption DEF TypeOK, WorkersOK, NodesOK, DefaultMetadata
<1>1. /\ obj[r] = Full => obj'[r] = Full
      /\ ignored[r] => ignored'[r]
  BY FullStays
<1>2. Settled(r) /\ Settled(n)
  BY DEF ReadyInv, Settled, FirstTry, Conceded, Succeeded
<1> USE DEF Settled, FirstTry, Conceded, Succeeded
<1>3. CASE r # n
  <2>1. /\ wpc'[r] = wpc[r] /\ attempt'[r] = attempt[r]
        /\ r \in gaveUp => r \in gaveUp'
    BY <1>0, <1>3 DEF Worker, Acquire, ResetStatus, Delete, SkipIgnored, Create, CreateFails,
         CreateFatal, WaitResult, WaitTimeout, WaitStop, FailurePolicy, MarkIgnored, Finish,
         AttemptFailed, workerVars
  <2> QED
    BY <1>1, <1>2, <2>1
<1>4. CASE r = n
  <2> USE <1>4
  <2>1. CASE Acquire(n)
    <3>1. wpc'[n] = NextAttempt(n, 1) /\ attempt'[n] = 1
      BY <1>0, <2>1 DEF Acquire
    <3>2. wpc'[n] = "reset" \/ (wpc'[n] = "finish" /\ Attempts[n] = 0)
      BY <1>0, <3>1 DEF NextAttempt
    <3> QED
      BY <3>1, <3>2
  <2>2. CASE ResetStatus(n) \/ Delete(n)
    <3>1. wpc'[n] = "skip" /\ attempt'[n] = 1
      BY <1>0, <1>2, <2>2 DEF ResetStatus, Delete
    <3> QED
      BY <3>1
  <2>3. CASE SkipIgnored(n)
    <3>1. attempt'[n] = 1 /\ (wpc'[n] = "create" \/ (wpc'[n] = "finish" /\ ignored'[n]))
      BY <1>0, <1>2, <2>3 DEF SkipIgnored, nodeVars
    <3> QED
      BY <3>1
  <2>4. CASE Create(n)
    <3>1. wpc'[n] = "wait" /\ attempt'[n] = 1
      BY <1>0, <1>2, <2>4 DEF Create
    <3> QED
      BY <3>1
  <2>5. CASE CreateFails(n)
    <3>1. wpc'[n] = NextAttempt(n, 2) /\ n \in gaveUp'
      BY <1>0, <1>2, <2>5 DEF CreateFails
    <3>2. wpc'[n] = "finish"
      BY <1>0, <3>1 DEF NextAttempt
    <3> QED
      BY <3>1, <3>2
  <2>6. CASE CreateFatal(n)
    BY <1>1, <1>2, <2>6 DEF CreateFatal, workerVars
  <2>7. CASE WaitResult(n) /\ result[n] = "ok"
    <3>1. wpc'[n] = "finish" /\ obj[n] = Full
      BY <1>0, <2>7 DEF WaitResult, ReadyInv
    <3> QED
      BY <1>1, <3>1
  <2>8. CASE (WaitResult(n) /\ result[n] # "ok") \/ WaitTimeout(n)
    <3>1. AttemptFailed(n) /\ attempt[n] = 1
      BY <1>2, <2>8 DEF WaitResult, WaitTimeout
    <3>2. wpc'[n] = "policy" /\ n \in gaveUp'
      BY <1>0, <3>1 DEF AttemptFailed
    <3> QED
      BY <3>2
  <2>9. CASE WaitStop(n)
    <3>1. wpc'[n] = "stopped"
      BY <1>0, <2>9 DEF WaitStop
    <3> QED
      BY <3>1
  <2>10. CASE FailurePolicy(n) \/ \E m \in Nodes : MarkIgnored(n, m)
    <3>1. wpc'[n] \in {"ignoreall", "finish"} /\ n \in gaveUp'
      BY <1>0, <1>2, <2>10 DEF FailurePolicy, MarkIgnored
    <3> QED
      BY <3>1
  <2>11. CASE Finish(n)
    <3>1. wpc[n] = "finish" /\ wpc'[n] = "done" /\ gaveUp' = gaveUp
      BY <1>0, <2>11 DEF Finish
    <3> QED
      BY <1>1, <1>2, <3>1
  <2> QED
    BY <2>1, <2>2, <2>3, <2>4, <2>5, <2>6, <2>7, <2>8, <2>9, <2>10, <2>11 DEF Worker
<1> QED
  BY <1>3, <1>4

LEMMA ReadyStep ==
  ASSUME DefaultMetadata, TypeOK, TodoInv, ReadyInv, [Next]_vars
  PROVE  ReadyInv'
<1> USE DEF workerVars
<1>1. CASE UNCHANGED vars
  BY <1>1 DEF vars, ReadyInv, clusterVars, nodeVars
<1>2. ASSUME Step PROVE ReadyInv'
  <2>1. ASSUME NEW r \in Nodes PROVE Settled(r)'
    <3>1. CASE \E n \in Nodes : Worker(n)
      BY <1>2, <3>1, SettledWorker
    <3>2. CASE \E n \in Nodes : Poller(n) \/ Progress(n)
      <4>1. UNCHANGED <<wpc, attempt, gaveUp>>
        BY <3>2 DEF Poller, Poll, PollerStop, Progress
      <4> QED
        BY <1>2, <4>1, SettledElsewhere
    <3>3. CASE \E e \in Edges : Ticker(e)
      <4>1. UNCHANGED <<wpc, attempt, gaveUp>>
        BY <3>3 DEF Ticker, TickerWake, TickerStop, TickerLock, TickerRequest, CheckParent,
                    ReadIgnored
      <4> QED
        BY <1>2, <4>1, SettledElsewhere
    <3>4. CASE Stop \/ Deployer \/ DispatcherExit
      <4>1. UNCHANGED <<wpc, attempt, gaveUp>>
        BY <3>4 DEF Stop, Deployer, RequestRoot, AwaitCreated, Collect, Finalize, DeployStopped,
                    DispatcherExit
      <4> QED
        BY <1>2, <4>1, SettledElsewhere
    <3>5. CASE \E n \in Nodes : Dispatch(n)
      <4>1. UNCHANGED <<attempt, gaveUp>> /\ (wpc'[r] = wpc[r] \/ wpc'[r] = "acquire")
        BY <3>5 DEF Dispatch, TypeOK, WorkersOK
      <4> QED
        BY <1>2, <4>1, SettledElsewhere
    <3> QED
      BY <1>2, <3>1, <3>2, <3>3, <3>4, <3>5 DEF Step, Dispatcher
  <2>2. ASSUME NEW r \in Nodes PROVE ReadySaid(r)'
    BY <1>2, ReadySaidKept
  <2> QED
    BY <2>1, <2>2 DEF ReadyInv, Settled, FirstTry, Conceded, Succeeded, ReadySaid
<1> QED
  BY <1>1, <1>2 DEF Next, Terminated

\* With the default metadata, a worker that reports a resource as finished
\* without having given up or being told to ignore it leaves a fully ready object
\* behind, and so it stays: SuccessMeansReady holds of Spec (createResources,
\* Wait, isResourceFinished and the cached Status). With retries it does not: the
\* poller of an earlier attempt may cache the status of the object the next
\* attempt then deletes.
THEOREM SuccessIsReady ==
  ASSUME DefaultMetadata
  PROVE  Spec => []SuccessMeansReady
<1>1. Init => ReadyInv /\ TodoInv
  <2> SUFFICES ASSUME Init PROVE ReadyInv /\ TodoInv
    OBVIOUS
  <2>1. \A r \in Nodes : ~status[r] /\ result[r] = "" /\ wpc[r] = "none"
    BY DEF Init
  <2>2. ReadyInv
    BY <2>1 DEF ReadyInv
  <2> QED
    BY <2>2 DEF Init, TodoInv, Requires
<1>2. TypeOK /\ TodoInv /\ ReadyInv /\ [Next]_vars => ReadyInv' /\ TodoInv'
  BY ReadyStep, TodoStep
<1>3. ReadyInv => SuccessMeansReady
  BY DEF ReadyInv, SuccessMeansReady
<1> QED
  BY <1>1, <1>2, <1>3, TypeCorrect, PTL DEF Spec

(***************************************************************************)
(* GraphDeploy implements DeployOrder, for every graph, level of readiness *)
(* and bound: every step of Spec maps to a step of DeployOrder or leaves   *)
(* what it sees alone.                                                     *)
(***************************************************************************)

LEMMA AskLow == LowerBound(Ask)
  BY AskAssumption DEF LowerBound

\* The initial states map to initial states.
LEMMA OrderInitMaps ==
  ASSUME TypeOK, Init
  PROVE  Order!Init
<1>1. \A r \in Nodes : ~started[r] /\ ~ignored[r] /\ wpc[r] = "none"
  BY DEF Init
<1>2. \A r \in Nodes : Stage[r] = "waiting"
  BY <1>1 DEF Stage
<1>3. Stage \in [Nodes -> {"waiting", "requested", "completed"}]
  BY DEF Stage
<1>4. Outcome = "running"
  BY DEF Init, Outcome
<1>5. reached \in [Nodes -> Int] /\ ignored \in [Nodes -> BOOLEAN]
  BY ParameterAssumption DEF TypeOK, ClusterOK, NodesOK, Absent
<1> QED
  BY <1>1, <1>2, <1>3, <1>4, <1>5 DEF Order!Init, Order!TypeOK

\* Steps that change neither Started nor the end of a worker leave Stage alone.
LEMMA StageFrame ==
  ASSUME started' = started, \A r \in Nodes : wpc'[r] = "done" <=> wpc[r] = "done"
  PROVE  Stage' = Stage
  BY DEF Stage

LEMMA StageSet ==
  ASSUME NEW r \in Nodes, NEW s,
         \A n \in Nodes \ {r} : started'[n] = started[n] /\ (wpc'[n] = "done" <=> wpc[n] = "done"),
         s = (IF wpc'[r] = "done" THEN "completed"
              ELSE IF started'[r] THEN "requested" ELSE "waiting")
  PROVE  Stage' = [Stage EXCEPT ![r] = s]
  BY DEF Stage

\* RequestCreation, by a ticker or for a root, is a step Request.
LEMMA RequestMaps ==
  ASSUME TypeOK, NEW r \in Nodes, ~started[r], wpc[r] # "done",
         started' = [started EXCEPT ![r] = TRUE],
         StartedInv(Ask)', UNCHANGED <<reached, ignored, wpc, mpc>>
  PROVE  Order!Request(r)
<1>1. Stage[r] = "waiting"
  BY DEF Stage
<1>2. Stage' = [Stage EXCEPT ![r] = "requested"]
  BY StageSet DEF TypeOK, NodesOK
<1>3. ASSUME NEW p \in Nodes, <<p, r>> \in Edges \ OnErrorEdges
      PROVE  reached[p] >= Ask[p] \/ ignored[p]
  <2>1. started'[r]
    BY DEF TypeOK, NodesOK
  <2>2. Met(Ask, p)'
    BY <1>3, <2>1 DEF StartedInv
  <2> QED
    BY <2>2 DEF Met
<1>4. Outcome' = Outcome
  BY DEF Outcome
<1> QED
  BY <1>1, <1>2, <1>3, <1>4 DEF Order!Request, Order!Allowed

\* A worker's steps: the last one is Complete, marking a resource is Excuse,
\* creating it is Advance, the rest is invisible.
LEMMA WorkerMaps ==
  ASSUME CoreInv, TypeOK', NEW r \in Nodes, Worker(r), [Next]_vars, ReachInv(Ask)
  PROVE  Order!Next \/ UNCHANGED Order!vars
<1>0. TypeOK /\ Requested
  BY DEF CoreInv, OnceInv
<1>t. /\ wpc \in [Nodes -> WorkerStates] /\ wpc' \in [Nodes -> WorkerStates]
      /\ ignored \in [Nodes -> BOOLEAN]
  BY <1>0 DEF TypeOK, WorkersOK, NodesOK
<1> USE DEF nodeVars, workerVars, clusterVars, deployVars
<1>1. CASE Finish(r)
  <2>1. started' = started /\ wpc' = [wpc EXCEPT ![r] = "done"] /\ wpc[r] = "finish"
        /\ UNCHANGED <<reached, ignored, mpc>>
    BY <1>1 DEF Finish
  <2>2. started[r]
    BY <1>0, <2>1 DEF Requested
  <2>3. Stage[r] = "requested"
    BY <2>1, <2>2 DEF Stage
  <2>4. Stage' = [Stage EXCEPT ![r] = "completed"]
    BY <1>t, <2>1, StageSet
  <2>5. Order!Complete(r)
    BY <2>1, <2>3, <2>4 DEF Order!Complete, Outcome
  <2> QED
    BY <2>5 DEF Order!Next
<1>2. ASSUME ~Finish(r)
      PROVE  /\ Stage' = Stage /\ Outcome' = Outcome
  <2>1. started' = started /\ mpc' = mpc
    BY <1>2 DEF Worker, Acquire, ResetStatus, Delete, SkipIgnored, Create, CreateFails,
              CreateFatal, WaitResult, WaitTimeout, WaitStop, FailurePolicy, MarkIgnored
  <2>2. /\ wpc[r] # "done" /\ wpc'[r] # "done"
        /\ \A n \in Nodes \ {r} : wpc'[n] = wpc[n]
    BY <1>2, <1>t DEF Worker, Acquire, ResetStatus, Delete, SkipIgnored, Create, CreateFails,
              CreateFatal, WaitResult, WaitTimeout, WaitStop, AttemptFailed, NextAttempt,
              FailurePolicy, MarkIgnored
  <2>3. Stage' = Stage
    BY <2>1, <2>2, StageFrame
  <2> QED
    BY <2>1, <2>3 DEF Outcome
<1>3. ASSUME NEW n \in Nodes, MarkIgnored(r, n) PROVE Order!Excuse(n)
  <2>1. ~Finish(r)
    BY <1>3 DEF MarkIgnored, Finish
  <2> QED
    BY <1>2, <1>3, <2>1 DEF MarkIgnored, Order!Excuse
<1>4. CASE FailurePolicy(r)
  <2>1. ~Finish(r) /\ reached' = reached
    BY <1>4 DEF FailurePolicy, Finish
  <2>2. ignored' = [ignored EXCEPT ![r] = TRUE] \/ ignored' = ignored
    <3>1. ignored' = [ignored EXCEPT ![r] = ignored[r] \/ Policy[r] = "ignore"]
      BY <1>4 DEF FailurePolicy
    <3>2. CASE Policy[r] = "ignore"
      BY <3>1, <3>2
    <3>3. CASE Policy[r] # "ignore"
      BY <1>t, <3>1, <3>3
    <3> QED
      BY <3>2, <3>3
  <2> QED
    BY <1>2, <2>1, <2>2 DEF Order!Excuse, Order!Next, Order!vars
<1>5. CASE Create(r)
  <2>1. ~Finish(r) /\ ignored' = ignored
    BY <1>5 DEF Create, Finish
  <2>2. \A n \in Nodes : reached'[n] >= reached[n]
    BY <1>0, AskLow, ReachedGrows
  <2>3. reached' \in [Nodes -> Int]
    BY ParameterAssumption DEF TypeOK, ClusterOK, Absent
  <2>4. Order!Advance
    BY <1>2, <2>1, <2>2, <2>3 DEF Order!Advance
  <2> QED
    BY <2>4 DEF Order!Next
<1>6. CASE ~(Finish(r) \/ FailurePolicy(r) \/ Create(r) \/ \E n \in Nodes : MarkIgnored(r, n))
  <2>1. UNCHANGED <<ignored, reached>>
    BY <1>6 DEF Worker, Acquire, ResetStatus, Delete, SkipIgnored, CreateFails,
              CreateFatal, WaitResult, WaitTimeout, WaitStop
  <2> QED
    BY <1>2, <1>6, <2>1 DEF Order!vars
<1> QED
  BY <1>1, <1>3, <1>4, <1>5, <1>6 DEF Order!Next

LEMMA TickerMaps ==
  ASSUME CoreInv, NEW e \in Edges, Ticker(e), StartedInv(Ask)'
  PROVE  Order!Next \/ UNCHANGED Order!vars
<1>0. TypeOK /\ CheckUnstarted /\ Requested /\ e[2] \in Nodes
  BY EdgesAssumption DEF CoreInv, OnceInv
<1>1. CASE TickerRequest(e)
  <2>1. ~started[e[2]]
    BY <1>0, <1>1 DEF TickerRequest, CheckUnstarted
  <2>2. wpc[e[2]] # "done"
    BY <1>0, <2>1 DEF Requested
  <2>3. Order!Request(e[2])
    BY <1>0, <1>1, <2>1, <2>2, RequestMaps DEF TickerRequest, clusterVars, workerVars
  <2> QED
    BY <1>0, <2>3 DEF Order!Next
<1>2. CASE ~TickerRequest(e)
  <2>1. UNCHANGED <<started, wpc, reached, ignored, mpc>>
    BY <1>2 DEF Ticker, TickerWake, TickerStop, TickerLock, CheckParent, ReadIgnored,
                clusterVars, nodeVars, workerVars, deployVars
  <2> QED
    BY <2>1, StageFrame DEF Order!vars, Outcome
<1> QED
  BY <1>1, <1>2

\* Deploy: requesting a root is Request, its return is Finish or Abandon.
LEMMA DeployerMaps ==
  ASSUME CoreInv, Deployer, StartedInv(Ask)', FinalizerLast'
  PROVE  Order!Next \/ UNCHANGED Order!vars
<1>0. TypeOK /\ Requested
  BY DEF CoreInv, OnceInv
<1> USE DEF clusterVars, nodeVars, workerVars
<1>1. ASSUME NEW r \in Nodes, RequestRoot(r) PROVE Order!Request(r)
  <2>1. ~started[r] /\ wpc[r] # "done"
    BY <1>0, <1>1 DEF RequestRoot, Requested
  <2> QED
    BY <1>0, <1>1, <2>1, RequestMaps DEF RequestRoot
<1>2. ASSUME UNCHANGED <<started, wpc>> PROVE Stage' = Stage
  BY <1>2, StageFrame
<1>3. CASE AwaitCreated \/ Collect
  BY <1>2, <1>3 DEF AwaitCreated, Collect, Outcome, Order!vars
<1>4. CASE Finalize
  <2>1. \A r \in Nodes : wpc[r] = "done"
    BY <1>4 DEF Finalize, FinalizerLast
  <2>2. Order!Finish
    BY <1>2, <1>4, <2>1 DEF Finalize, Order!Finish, Outcome, Stage
  <2> QED
    BY <2>2 DEF Order!Next
<1>5. CASE DeployStopped
  BY <1>2, <1>5 DEF DeployStopped, Order!Abandon, Order!Next, Outcome
<1> QED
  BY <1>1, <1>3, <1>4, <1>5 DEF Deployer, Order!Next

LEMMA StepMaps ==
  ASSUME CoreInv, TypeOK', OrderInv(Ask), OrderInv(Ask)', FinalizerLast', [Next]_vars
  PROVE  Order!Next \/ UNCHANGED Order!vars
<1>0. TypeOK /\ StartedInv(Ask)' /\ ReachInv(Ask)
  BY DEF CoreInv, OrderInv
<1>1. ASSUME NEW r \in Nodes, Worker(r) PROVE Order!Next \/ UNCHANGED Order!vars
  BY <1>0, <1>1, WorkerMaps
<1>2. ASSUME NEW e \in Edges, Ticker(e) PROVE Order!Next \/ UNCHANGED Order!vars
  BY <1>0, <1>2, TickerMaps
<1>3. ASSUME NEW r \in Nodes, Poller(r) PROVE UNCHANGED Order!vars
  <2>1. UNCHANGED <<started, wpc, reached, ignored, mpc>>
    BY <1>3 DEF Poller, Poll, PollerStop, clusterVars, nodeVars, deployVars
  <2> QED
    BY <2>1, StageFrame DEF Order!vars, Outcome
<1>4. ASSUME NEW r \in Nodes, Progress(r) PROVE Order!Advance
  <2>1. UNCHANGED <<started, wpc, ignored, mpc>>
    BY <1>4 DEF Progress, nodeVars, workerVars, deployVars
  <2>2. \A n \in Nodes : reached'[n] >= reached[n]
    BY <1>0, AskLow, ReachedGrows
  <2>3. reached' \in [Nodes -> Int]
    BY ParameterAssumption DEF TypeOK, ClusterOK, Absent
  <2> QED
    BY <2>1, <2>2, <2>3, StageFrame DEF Order!Advance, Outcome
<1>5. CASE UNCHANGED vars \/ Terminated \/ Stop
  <2>1. UNCHANGED <<started, wpc, reached, ignored, mpc>>
    BY <1>5 DEF Terminated, Stop, vars, clusterVars, nodeVars, workerVars, deployVars
  <2> QED
    BY <2>1, StageFrame DEF Order!vars, Outcome
<1>6. CASE Dispatcher
  <2>1. UNCHANGED <<started, reached, ignored, mpc>>
    BY <1>6 DEF Dispatcher, Dispatch, DispatcherExit, clusterVars, nodeVars
  <2>2. \A n \in Nodes : wpc'[n] = "done" <=> wpc[n] = "done"
    <3>1. CASE DispatcherExit
      BY <3>1 DEF DispatcherExit, workerVars
    <3>2. ASSUME NEW r \in Nodes, Dispatch(r)
          PROVE  \A n \in Nodes : wpc'[n] = "done" <=> wpc[n] = "done"
      <4>1. queued[r] > 0 /\ (wpc' = wpc \/ wpc' = [wpc EXCEPT ![r] = "acquire"])
        BY <3>2 DEF Dispatch
      <4>2. wpc[r] = "none"
        BY <4>1 DEF CoreInv, OnceInv, Requested
      <4> QED
        BY <1>0, <4>1, <4>2 DEF TypeOK, WorkersOK
    <3> QED
      BY <1>6, <3>1, <3>2 DEF Dispatcher
  <2> QED
    BY <2>1, <2>2, StageFrame DEF Order!vars, Outcome
<1>7. CASE Deployer
  BY <1>0, <1>7, DeployerMaps
<1> QED
  BY <1>1, <1>2, <1>3, <1>4, <1>5, <1>6, <1>7 DEF Next, Step, Order!Next

\* The deployment of a graph (Deploy and everything it starts, scheduler.go)
\* implements DeployOrder: whatever tickers, workers, retries and stops do, each
\* resource is requested once, after its parents, then completed, and the
\* finalizer comes after all of them.
THEOREM ImplementsOrder == Spec => DeploysInOrder
<1>1. Init => Order!Init
  BY TypeInit, OrderInitMaps
<1>2. CoreInv /\ TypeOK' /\ OrderInv(Ask) /\ OrderInv(Ask)' /\ FinalizerLast' /\ [Next]_vars
        => [Order!Next]_(Order!vars)
  BY StepMaps
<1>3. Init => OrderInv(Ask)
  BY AskLow, OrderInit
<1>4. TypeOK' /\ CoreInv /\ OrderInv(Ask) /\ [Next]_vars => OrderInv(Ask)'
  BY AskLow, OrderStep
<1> QED
  BY <1>1, <1>2, <1>3, <1>4, CoreInvariant, TypeCorrect, FinalizerAfterAll, PTL
     DEF Spec, DeploysInOrder, Order!Spec
=============================================================================
