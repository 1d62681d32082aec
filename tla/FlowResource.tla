---------------------------- MODULE FlowResource ----------------------------
(***************************************************************************)
(* A flow inside a graph: pkg/resources/flow.go, between the outer graph   *)
(* that has the flow as one of its nodes and the inner graph of the flow's *)
(* own resources.                                                          *)
(*                                                                         *)
(*   - the worker of the flow's node (createResources) calls Create, waits,*)
(*     and on a retry calls Delete first;                                  *)
(*   - Create builds the inner graph once and starts Deploy on it in a     *)
(*     goroutine that nobody waits for and nothing stops; every attempt    *)
(*     starts another one on the same graph;                               *)
(*   - a dependent of the flow polls its status from the moment the first  *)
(*     attempt begins;                                                     *)
(*   - the process may die and the outer deployment start again, with the  *)
(*     replica records and the resources that are in the cluster.          *)
(***************************************************************************)
EXTENDS Integers, FiniteSets, FiniteSetsExt

CONSTANTS
  MaxReplicas,  \* bound on the replicas ever created in the context of this node
  Resources,    \* the resources of one replica of the flow
  MaxAttempts,  \* bound on the flow's "retry" metadata
  MaxFaults,    \* bound on failed API calls
  MaxRestarts   \* bound on crashes of the process

ASSUME BoundsAssumption == MaxReplicas \in Nat \ {0} /\ MaxAttempts \in Nat \ {0}

Ids == 1 .. MaxReplicas
Nodes == Ids \X Resources
Attempts == 1 .. MaxAttempts

VARIABLES
  \* options of the outer deployment and metadata of the node
  fixed,      \* FixedNumberOfReplicas
  retry,      \* the node's "retry"
  \* the cluster
  records,    \* replicas that have a record in this context
  acked,      \* those of them that are marked as deployed
  object,     \* object[n]: "absent", "created" or "ready"
  born,       \* replicas ever created
  \* the flow and its scheduled resource in the outer graph
  graph,      \* currentGraph, by its replicas; {} is nil
  building,   \* the graph Create is about to store
  wpc,        \* where the worker of the flow's node is
  attempt,    \* attemptNo
  cached,     \* the outer node's status = "ready" is cached
  dependent,  \* the dependent: "idle", "waiting" or "started"
  \* the inner graph
  npc,        \* npc[n]: where the worker of inner node n is
  owner,      \* owner[n]: the Deploy that requested n; 0 is none
  readyNodes, \* inner nodes whose "ready" is cached
  deploy,     \* deploy[a]: the Deploy started by attempt a
  \* bounds and history
  faults, restarts,
  shown,      \* nodes whose object has been ready
  retracted,  \* the flow's Delete has run
  early       \* the dependent was let through while there was no graph

clusterVars == <<records, acked, object, born>>
outerVars == <<graph, building, wpc, attempt, cached, dependent>>
innerVars == <<npc, owner, readyNodes, deploy>>
history == <<fixed, retry, faults, restarts, shown, retracted, early>>
vars == <<clusterVars, outerVars, innerVars, history>>

Init ==
  /\ fixed \in BOOLEAN /\ retry \in Attempts
  /\ records = {} /\ acked = {} /\ born = {}
  /\ object = [n \in Nodes |-> "absent"]
  /\ graph = {} /\ building = {}
  /\ wpc = "reset" /\ attempt = 1 /\ cached = FALSE /\ dependent = "idle"
  /\ npc = [n \in Nodes |-> "none"] /\ owner = [n \in Nodes |-> 0]
  /\ readyNodes = {} /\ deploy = [a \in Attempts |-> "none"]
  /\ faults = 0 /\ restarts = 0 /\ shown = {} /\ retracted = FALSE
  /\ early = FALSE

NodesOf(g) == g \X Resources

\* An API call fails.
Fails == faults < MaxFaults /\ faults' = faults + 1

(***************************************************************************)
(* Status                                                                  *)
(***************************************************************************)

\* Before Create, Status looks at a graph of the existing replicas built for
\* the purpose; after it, at currentGraph, whose nodes cache "ready".
Viewed == NodesOf(IF graph = {} THEN records ELSE graph)

\* GetNodeReport: a node is ready if its Status says so.
Answer ==
  [n \in Nodes |-> IF (graph # {} /\ n \in readyNodes) \/ object[n] = "ready"
                   THEN "ready" ELSE "not ready"]

\* Mutation: one ready node is enough.
FinishedEarly(nodes, answer) ==
  IF nodes = {} THEN "empty"
  ELSE IF \E n \in nodes : answer[n] = "ready" THEN "finished" ELSE "prepared"

\* GetStatus: no nodes, all ready, none ready, or some of each
GetStatus(nodes, answer) ==
  LET readyExist == \E n \in nodes : answer[n] = "ready"
      nonReadyExist == \E n \in nodes : answer[n] # "ready"
  IN CASE readyExist /\ nonReadyExist -> "running"
       [] readyExist /\ ~nonReadyExist -> "finished"
       [] ~readyExist /\ nonReadyExist -> "prepared"
       [] OTHER -> "empty"

\* A graph without nodes passes for a finished one.
Status ==
  IF GetStatus(Viewed, Answer) \in {"empty", "finished"} THEN "ready" ELSE "not ready"

\* Asking the nodes of currentGraph caches what they answer.
CacheAnswers ==
  readyNodes' = IF graph = {} THEN readyNodes
                ELSE readyNodes \cup {n \in Viewed : Answer[n] = "ready"}

(***************************************************************************)
(* The worker of the flow's node                                           *)
(***************************************************************************)
AttemptFailed ==
  IF attempt < retry
  THEN attempt' = attempt + 1 /\ wpc' = "reset"
  ELSE wpc' = "failed" /\ UNCHANGED attempt

\* ResetStatus, and on the first attempt the tickers of the dependents
Reset ==
  /\ wpc = "reset"
  /\ cached' = FALSE
  /\ dependent' = IF attempt = 1 THEN "waiting" ELSE dependent
  /\ wpc' = IF attempt > 1 THEN "delete" ELSE "create"
  /\ UNCHANGED <<clusterVars, graph, building, attempt, innerVars, history>>

\* Mutation: the outer deployment's options are always taken over as relative.
AlwaysRelative == FALSE

\* FixedNumberOfReplicas of the inner graph that Create builds
FixedNumberOfReplicas == fixed

\* Mutation: a replica that was never acknowledged is not used again.
NewReplicaOnly == {Cardinality(born) + 1}

\* The replica that is added: one left by an interrupted deployment, or a new
\* one
AddedReplica ==
  IF records # acked THEN {Min(records \ acked)} ELSE {Cardinality(born) + 1}

\* buildDependencyGraph(1) and allocateReplicas. Leftovers lose their records.
Build ==
  /\ wpc = "create"
  /\ graph = {}
  /\ LET enough == FixedNumberOfReplicas /\ acked # {}
         added == IF enough THEN {} ELSE AddedReplica
     IN /\ added \subseteq Ids
        /\ records' = acked \cup added
        /\ born' = born \cup added
        /\ building' = IF enough THEN {Min(acked)} ELSE added
  /\ wpc' = "assign"
  /\ UNCHANGED <<acked, object, graph, attempt, cached, dependent, innerVars, history>>

BuildFails ==
  /\ wpc = "create"
  /\ graph = {}
  /\ Fails
  /\ AttemptFailed
  /\ UNCHANGED <<clusterVars, graph, building, cached, dependent, innerVars,
                 fixed, retry, restarts, shown, retracted, early>>

\* The graph of an earlier attempt is used again, as it is.
Reuse ==
  /\ wpc = "create"
  /\ graph # {}
  /\ building' = graph
  /\ wpc' = "assign"
  /\ UNCHANGED <<clusterVars, graph, attempt, cached, dependent, innerVars, history>>

\* currentGraph is set, and Deploy started in a goroutine of its own.
Assign ==
  /\ wpc = "assign"
  /\ graph' = building
  /\ deploy' = [deploy EXCEPT ![attempt] = "running"]
  /\ wpc' = "wait"
  /\ UNCHANGED <<clusterVars, building, attempt, cached, dependent, npc, owner, readyNodes, history>>

\* Mutation: the worker waits for Deploy to return.
DeployReturned == deploy[attempt] = "ended"

\* Nothing keeps the worker from going on.
WaitOver == TRUE

\* Wait: the flow is ready.
WaitReady ==
  /\ wpc = "wait"
  /\ WaitOver
  /\ cached \/ Status = "ready"
  /\ IF cached THEN UNCHANGED readyNodes ELSE CacheAnswers
  /\ cached' = TRUE
  /\ wpc' = "done"
  /\ UNCHANGED <<clusterVars, graph, building, attempt, dependent, npc, owner, deploy, history>>

\* ... or its timeout comes first.
WaitTimeout ==
  /\ wpc = "wait"
  /\ WaitOver
  /\ AttemptFailed
  /\ UNCHANGED <<clusterVars, graph, building, cached, dependent, innerVars, history>>

\* Delete: buildDependencyGraph(-1) deletes the records of replicas that were
\* never acknowledged, and takes the last one that was for destruction.
Delete ==
  /\ wpc = "delete"
  /\ retracted' = TRUE
  /\ records' = acked
  /\ wpc' = IF acked = {} THEN "create" ELSE "destroy"
  /\ UNCHANGED <<acked, object, born, graph, building, attempt, cached, dependent, innerVars,
                 fixed, retry, faults, restarts, shown, early>>

\* The graph cannot be built; the error is only logged.
DeleteFails ==
  /\ wpc = "delete"
  /\ Fails
  /\ wpc' = "create"
  /\ UNCHANGED <<clusterVars, graph, building, attempt, cached, dependent, innerVars,
                 fixed, retry, restarts, shown, retracted, early>>

\* Deploy, in the worker itself: the destruction path, and then its finalizer
\* with the resources of the last replica and its record.
Destroy ==
  /\ wpc = "destroy"
  /\ LET last == Max(acked)
     IN /\ object' = [n \in Nodes |-> IF n[1] = last THEN "absent" ELSE object[n]]
        /\ records' = records \ {last}
        /\ acked' = acked \ {last}
  /\ wpc' = "create"
  /\ UNCHANGED <<born, graph, building, attempt, cached, dependent, innerVars, history>>

\* A deletion fails, of resources or of the record: the record stays.
DestroyFails ==
  /\ wpc = "destroy"
  /\ Fails
  /\ \E gone \in SUBSET Resources :
       object' = [n \in Nodes |-> IF n \in {Max(acked)} \X gone THEN "absent" ELSE object[n]]
  /\ wpc' = "create"
  /\ UNCHANGED <<records, acked, born, graph, building, attempt, cached, dependent, innerVars,
                 fixed, retry, restarts, shown, retracted, early>>

\* A resource of the destruction path fails, and what depends on it waits for
\* it: Deploy, which nothing stops, does not return.
DestroyHangs ==
  /\ wpc = "destroy"
  /\ Fails
  /\ wpc' = "hung"
  /\ UNCHANGED <<clusterVars, graph, building, attempt, cached, dependent, innerVars,
                 fixed, retry, restarts, shown, retracted, early>>

Worker ==
  Reset \/ Build \/ BuildFails \/ Reuse \/ Assign \/ WaitReady \/ WaitTimeout
    \/ Delete \/ DeleteFails
    \/ Destroy \/ DestroyFails \/ DestroyHangs

\* The ticker of the dependent finds the flow ready, and the answer is cached.
\* While there is no graph, because it is being built or could not be, Status
\* asks about the replicas that exist, if any.
DependentStarts ==
  /\ dependent = "waiting"
  /\ cached \/ Status = "ready"
  /\ IF cached THEN UNCHANGED readyNodes ELSE CacheAnswers
  /\ cached' = TRUE
  /\ dependent' = "started"
  /\ early' = (early \/ graph = {})
  /\ UNCHANGED <<clusterVars, graph, building, wpc, attempt, npc, owner, deploy,
                 fixed, retry, faults, restarts, shown, retracted>>

(***************************************************************************)
(* Deploy of the inner graph (module GraphDeploy), one per attempt         *)
(***************************************************************************)

\* RequestCreation: a node that was requested once is not requested again.
Request(a, n) ==
  /\ deploy[a] = "running"
  /\ n \in NodesOf(graph)
  /\ npc[n] = "none"
  /\ npc' = [npc EXCEPT ![n] = "create"]
  /\ owner' = [owner EXCEPT ![n] = a]
  /\ UNCHANGED <<clusterVars, outerVars, readyNodes, deploy, history>>

CreateObject(n) ==
  /\ npc[n] = "create"
  /\ object' = [object EXCEPT ![n] = IF @ = "absent" THEN "created" ELSE @]
  /\ npc' = [npc EXCEPT ![n] = "wait"]
  /\ UNCHANGED <<records, acked, born, outerVars, owner, readyNodes, deploy, history>>

NodeFails(n) ==
  /\ npc[n] \in {"create", "wait"}
  /\ Fails
  /\ npc' = [npc EXCEPT ![n] = "done"]
  /\ UNCHANGED <<clusterVars, outerVars, owner, readyNodes, deploy,
                 fixed, retry, restarts, shown, retracted, early>>

NodeReady(n) ==
  /\ npc[n] = "wait"
  /\ n \in readyNodes \/ object[n] = "ready"
  /\ readyNodes' = readyNodes \cup {n}
  /\ npc' = [npc EXCEPT ![n] = "done"]
  /\ UNCHANGED <<clusterVars, outerVars, owner, deploy, history>>

\* All nodes have been reported to this Deploy: the replicas that still have a
\* record are acknowledged. A Deploy that shares the nodes with another one
\* never gets here.
Finalize(a) ==
  /\ deploy[a] = "running"
  /\ \A n \in NodesOf(graph) : npc[n] = "done" /\ owner[n] = a
  /\ acked' = acked \cup (graph \cap records)
  /\ deploy' = [deploy EXCEPT ![a] = "ended"]
  /\ UNCHANGED <<records, object, born, outerVars, npc, owner, readyNodes, history>>

InnerNode(n) == CreateObject(n) \/ NodeReady(n) \/ \E a \in Attempts : Request(a, n)

\* An object becomes ready (external).
ObjectReady(n) ==
  /\ object[n] = "created"
  /\ object' = [object EXCEPT ![n] = "ready"]
  /\ shown' = shown \cup {n}
  /\ UNCHANGED <<records, acked, born, outerVars, innerVars,
                 fixed, retry, faults, restarts, retracted, early>>

\* The process dies before the outer deployment is acknowledged, and the same
\* deployment is started again.
Restart ==
  /\ restarts < MaxRestarts
  /\ restarts' = restarts + 1
  /\ graph' = {} /\ building' = {}
  /\ wpc' = "reset" /\ attempt' = 1 /\ cached' = FALSE /\ dependent' = "idle"
  /\ npc' = [n \in Nodes |-> "none"] /\ owner' = [n \in Nodes |-> 0]
  /\ readyNodes' = {} /\ deploy' = [a \in Attempts |-> "none"]
  /\ early' = FALSE
  /\ UNCHANGED <<clusterVars, fixed, retry, faults, shown, retracted>>

Next ==
  \/ Worker \/ DependentStarts \/ Restart
  \/ \E n \in Nodes : InnerNode(n) \/ NodeFails(n) \/ ObjectReady(n)
  \/ \E a \in Attempts : Finalize(a)

\* Goroutines run, API calls return and timers fire.
Fairness ==
  /\ WF_vars(Worker)
  /\ \A n \in Nodes : WF_vars(InnerNode(n))
  /\ \A a \in Attempts : WF_vars(Finalize(a))

Spec == Init /\ [][Next]_vars /\ Fairness

(***************************************************************************)
(* Properties                                                              *)
(***************************************************************************)

\* docs/flows.md: "the Flow resource can always adjust replica count to 1". It
\* does while the outer deployment asks for an absolute number of replicas:
\* whatever dies, fails or is retried, the context never has two replicas.
OneReplica == fixed => Cardinality(records) <= 1

\* The dependent of a flow that was not let through while the flow had no graph
\* (see DependentNeverEarly) starts only after every resource of the flow has
\* been ready, across attempts that share the inner graph and its cached answers.
DependentAfterFlow ==
  dependent = "started" => early \/ (graph # {} /\ NodesOf(graph) \subseteq shown)

\* README.md:17: "The state is used by AppController to ensure that dependencies
\* for other objects are met". Those of a flow are not: until Create has stored
\* the graph, and for good if it cannot be built, Status finds a flow without
\* replicas ready, since its graph is empty.
DependentNeverEarly ==
  dependent = "started" => graph # {} /\ NodesOf(graph) \subseteq shown

\* Until a retry deletes the flow, every resource belongs to a replica that has
\* a record, through which it can be found and deleted.
NoOrphans ==
  ~retracted => \A n \in Nodes : object[n] # "absent" => n[1] \in records

\* The worker of the flow's node comes to an end, or is held by the Deploy that
\* Delete runs itself; the one that Create starts holds it never, even if it
\* does not return.
FlowEnds == <>[](wpc \in {"done", "failed", "hung"})

\* flow.go: "all subsequent calls [of Create] will do nothing but check the
\* state of the resources from this replica (and recreate them, if they were
\* deleted manually between the calls)": a flow that was created successfully
\* has its resources, also when no early look of the dependent is cached.
CreatedFlowIsThere ==
  wpc = "done" /\ ~early => \A n \in NodesOf(graph) : object[n] # "absent"
=============================================================================
