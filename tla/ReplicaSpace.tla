----------------------------- MODULE ReplicaSpace -----------------------------
(***************************************************************************)
(* The replicas of a flow: allocation, acknowledgement and deletion, in    *)
(* pkg/scheduler/dependency_graph.go.                                      *)
(*                                                                         *)
(* A replica is a record kept in the cluster. BuildDependencyGraph lists   *)
(* the records of the replica space, works out how many replicas there     *)
(* should be, creates the missing records and removes leftovers of earlier *)
(* runs. The graph is deployed (see GraphDeploy), and its finalizer marks  *)
(* the new replicas as deployed, or deletes the resources and then the     *)
(* records of the replicas that have to go. Deployments follow one another *)
(* (see TaskController); each can be interrupted between any two API       *)
(* calls, by a stop or by a crash of the process, and API calls can fail.  *)
(*                                                                         *)
(* Each replica has one resource of its own, identified with the replica,  *)
(* and one resource, Shared, is common to all replicas. A flow may have    *)
(* Shared on its destruction path, too.                                    *)
(***************************************************************************)
EXTENDS Integers, FiniteSets

CONSTANTS
  Ids,            \* the UIDs replicas can get: numbers, never used twice
  Requests,       \* [count, fixed, min, max]: what deployments ask for
  MaxTime,        \* bound on the clock, in seconds
  MaxDeployments, \* bound on the number of deployments
  MaxFaults,      \* bound on failed API calls
  MaxStops        \* bound on interruptions

Shared == 0

ASSUME ParameterAssumption ==
  /\ Ids \subseteq Nat \ {Shared} /\ IsFiniteSet(Ids)
  /\ Requests \subseteq [count : Int, fixed : BOOLEAN, min : Nat, max : Nat]
  /\ \A r \in Requests : r.fixed => r.count >= 0  \* a negative one only asks for a status
  /\ MaxTime \in Nat /\ MaxDeployments \in Nat /\ MaxFaults \in Nat /\ MaxStops \in Nat

VARIABLES
  \* the cluster
  replicas,   \* the replicas that have a record
  born,       \* born[i]: CreationTimestamp of replica i; -1 if it was never created
  deployed,   \* replicas whose record says Deployed
  resources,  \* resources that exist: replicas (for their own resource) and Shared
  clock,
  \* the deployment in progress
  pc,
  request,
  seen,       \* existingReplicas: the records listed at the start
  counted,    \* those of them that are deployed
  adjusted,   \* replicaList
  unused,     \* unusedReplicas
  young,      \* replicas created in a second that is not past the existing ones
  construct,  \* replicas to be constructed
  destruct,   \* replicas to be destructed
  graph,      \* the resources of the graph that is deployed
  pending,    \* what the phase has left to do
  failed,     \* replicas with a resource that could not be deleted
  \* bounds and history
  started, faults, stops,
  condemned,  \* history: replicas whose destruction has begun
  dropped     \* history: resources a worker gave up, or deleted with the
              \* destruction graph they belong to, and not created since

clusterVars == <<replicas, born, deployed, resources, clock>>
buildVars   == <<request, seen, counted, adjusted, unused, young>>
graphVars   == <<construct, destruct, graph, pending, failed>>
boundVars   == <<started, faults, stops, condemned, dropped>>
vars == <<clusterVars, pc, buildVars, graphVars, boundVars>>

NoRequest == [count |-> 0, fixed |-> TRUE, min |-> 0, max |-> 0]

\* Every variable has its type; records refer to created replicas.
TypeOK ==
  /\ born \in [Ids -> -1 .. MaxTime + 1] /\ clock \in 0 .. MaxTime + 1
  /\ replicas \subseteq {i \in Ids : born[i] # -1} /\ deployed \subseteq replicas
  /\ resources \subseteq Ids \cup {Shared}
  /\ pc \in {"idle", "allocate", "young", "cleanup", "deploy", "acknowledge", "destroy",
             "forget", "success"}
  /\ request \in Requests \cup {NoRequest}
  /\ \A S \in {seen, counted, adjusted, unused, young, construct, destruct, failed, condemned} :
       S \subseteq Ids
  /\ graph \cup pending \cup dropped \subseteq Ids \cup {Shared}
  /\ started \in 0 .. MaxDeployments /\ faults \in 0 .. MaxFaults /\ stops \in 0 .. MaxStops

Init ==
  /\ replicas = {} /\ born = [i \in Ids |-> -1] /\ deployed = {} /\ resources = {}
  /\ clock = 0
  /\ pc = "idle" /\ request = NoRequest
  /\ seen = {} /\ counted = {} /\ adjusted = {} /\ unused = {} /\ young = {}
  /\ construct = {} /\ destruct = {} /\ graph = {} /\ pending = {} /\ failed = {}
  /\ started = 0 /\ faults = 0 /\ stops = 0 /\ condemned = {} /\ dropped = {}

(***************************************************************************)
(* The environment (external): time, failing API calls, interruptions      *)
(***************************************************************************)

Tick ==
  /\ clock < MaxTime
  /\ clock' = clock + 1
  /\ UNCHANGED <<replicas, born, deployed, resources, pc, buildVars, graphVars, boundVars>>

\* An API call fails.
Fails == faults < MaxFaults /\ faults' = faults + 1

\* The deployment is aborted, or the process dies.
Interrupt ==
  /\ pc \notin {"idle", "success"}
  /\ stops < MaxStops
  /\ stops' = stops + 1
  /\ pc' = "idle"
  /\ UNCHANGED <<clusterVars, buildVars, graphVars, started, faults, condemned,
                 dropped>>

(***************************************************************************)
(* allocateReplicas and createReplicas                                     *)
(***************************************************************************)

\* sortableReplicaList.Less
Less(i, j) == born[i] < born[j] \/ (born[i] = born[j] /\ i < j)

\* The replicas of S at positions from .. to - 1 of the sorted list
Slice(S, from, to) == {i \in S : Cardinality({j \in S : Less(j, i)}) \in from .. to - 1}

Oldest(S) == CHOOSE i \in S : \A j \in S \ {i} : Less(i, j)

InitialCount == Cardinality(counted)

\* targetCount: absolute, or relative to the deployed replicas, within limits
TargetCount ==
  LET wanted == IF request.fixed THEN request.count ELSE request.count + InitialCount
      atLeast == IF wanted < request.min THEN request.min ELSE wanted
  IN IF atLeast > request.max /\ request.max > request.min /\ request.max > 0
     THEN request.max ELSE atLeast

\* A deployment starts: the records are listed.
Begin(r) ==
  /\ pc \in {"idle", "success"}
  /\ started < MaxDeployments
  /\ started' = started + 1
  /\ request' = r
  /\ seen' = replicas
  /\ counted' = replicas \cap deployed
  /\ adjusted' = replicas \cap deployed /\ unused' = replicas \ deployed
  /\ construct' = {} /\ destruct' = {} /\ graph' = {} /\ pending' = {} /\ failed' = {}
  /\ young' = {}
  /\ pc' = "allocate"
  /\ UNCHANGED <<clusterVars, faults, stops, condemned, dropped>>

Wanting == pc = "allocate" /\ Cardinality(adjusted) < TargetCount

\* A replica of an earlier run that was never acknowledged is used first.
ReuseReplica ==
  /\ Wanting
  /\ unused # {}
  /\ adjusted' = adjusted \cup {Oldest(unused)}
  /\ unused' = unused \ {Oldest(unused)}
  /\ UNCHANGED <<clusterVars, pc, request, seen, counted, young, graphVars, boundVars>>

\* A new record is created; it has to be younger than the listed ones.
CreateReplica(i) ==
  /\ Wanting
  /\ unused = {}
  /\ born[i] = -1
  /\ born' = [born EXCEPT ![i] = clock]
  /\ replicas' = replicas \cup {i}
  /\ IF \A j \in seen : born[j] < clock
     THEN adjusted' = adjusted \cup {i} /\ UNCHANGED <<young, pc>>
     ELSE young' = {i} /\ pc' = "young" /\ UNCHANGED adjusted
  /\ UNCHANGED <<deployed, resources, clock, request, seen, counted, unused, graphVars, boundVars>>

\* The creation fails: the deployment is given up.
CreateReplicaFails ==
  /\ Wanting
  /\ unused = {}
  /\ Fails
  /\ pc' = "idle"
  /\ UNCHANGED <<clusterVars, buildVars, graphVars, started, stops, condemned, dropped>>

\* Mutation: the `continue` is missing.
WithYoung(S) == S \cup young

\* the list after a young record has been discarded
WithoutYoung(S) == S

\* A record as old as a listed one: sleep for a second, delete it, try again.
DiscardYoung ==
  /\ pc = "young"
  /\ clock' = IF clock > MaxTime THEN clock ELSE clock + 1
  /\ \/ replicas' = replicas \ young /\ UNCHANGED faults
     \/ Fails /\ UNCHANGED replicas
  /\ adjusted' = WithoutYoung(adjusted)
  /\ young' = {}
  /\ pc' = "allocate"
  /\ UNCHANGED <<born, deployed, resources, request, seen, counted, unused, graphVars, started,
                 stops, condemned, dropped>>

\* There are enough replicas: the leftovers are next.
Allocated ==
  /\ pc = "allocate"
  /\ Cardinality(adjusted) >= TargetCount
  /\ pc' = "cleanup"
  /\ UNCHANGED <<clusterVars, buildVars, graphVars, boundVars>>

Leftovers == unused

\* The record of a leftover is deleted; an error is not looked at.
DeleteUnused(i) ==
  /\ pc = "cleanup"
  /\ i \in Leftovers
  /\ unused' = unused \ {i}
  /\ \/ replicas' = replicas \ {i} /\ UNCHANGED faults
     \/ Fails /\ UNCHANGED replicas
  /\ UNCHANGED <<born, deployed, resources, clock, pc, request, seen, counted, adjusted, young,
                 graphVars, started, stops, condemned, dropped>>

\* Mutation: off by one
NewButFirst(target) == Slice(adjusted, InitialCount + 1, target)

\* adjustedReplicas[initialCount:targetCount]
NewReplicas(target) == Slice(adjusted, InitialCount, target)

\* The resources of the graph: those of the replicas to be constructed, or what
\* the destruction path of the flow consists of
GraphsOf(new, old) ==
  IF old # {} THEN SUBSET {Shared}
  ELSE {IF new = {} THEN {} ELSE new \cup {Shared}}

\* The adjusted list is split, and the graph is built of the chosen replicas.
Build ==
  LET target == TargetCount
  IN /\ pc = "cleanup"
     /\ Leftovers = {}
     /\ IF target < InitialCount
        THEN construct' = {} /\ destruct' = Slice(adjusted, target, InitialCount)
        ELSE /\ construct' = IF ~request.fixed /\ target > InitialCount
                             THEN NewReplicas(target)
                             ELSE Slice(adjusted, 0, target)
             /\ destruct' = {}
     /\ graph' \in GraphsOf(construct', destruct')
     /\ pending' = graph'
     /\ pc' = "deploy"
     /\ UNCHANGED <<clusterVars, buildVars, failed, boundVars>>

(***************************************************************************)
(* The deployment of the graph, and its finalizer                          *)
(***************************************************************************)

\* The worker of a resource reports it as finished, whether it was created or
\* its attempts were used up, which may have left it deleted.
DeployResource(r) ==
  /\ pc = "deploy"
  /\ r \in pending
  /\ pending' = pending \ {r}
  /\ \/ /\ resources' = resources \cup {r} /\ dropped' = dropped \ {r}
        /\ UNCHANGED faults
     \/ /\ Fails
        /\ resources' \in {resources, resources \ {r}} /\ dropped' = dropped \cup {r}
  /\ UNCHANGED <<replicas, born, deployed, clock, pc, buildVars, construct, destruct, graph,
                 failed, started, stops, condemned>>

\* Mutation: resources in use elsewhere are not told apart.
EverythingUsed(r) == TRUE

\* getResourceDestructors: every replica that uses r is being destructed, in the
\* graph of all replicas, or in the destruction graph, which has no others
UsedHereOnly(r) ==
  IF r = Shared THEN replicas \subseteq destruct \/ Shared \in graph ELSE r \in destruct

\* The graph is deployed and the finalizer begins.
Finalize ==
  /\ pc = "deploy"
  /\ pending = {}
  /\ IF destruct # {}
     THEN /\ pending' = {r \in destruct \cup {Shared} : UsedHereOnly(r)}
          /\ condemned' = condemned \cup destruct
          /\ pc' = "destroy"
     ELSE /\ pending' = construct \ deployed
          /\ pc' = "acknowledge"
          /\ UNCHANGED condemned
  /\ UNCHANGED <<clusterVars, buildVars, construct, destruct, graph, failed, started, faults,
                 stops, dropped>>

\* makeAcknowledgeReplicaFunc: the record is updated; a failure is only logged.
Acknowledge(i) ==
  /\ pc = "acknowledge"
  /\ i \in pending
  /\ pending' = pending \ {i}
  /\ \/ deployed' = deployed \cup {i} /\ UNCHANGED <<faults, failed>>
     \/ Fails /\ failed' = failed \cup {i} /\ UNCHANGED deployed
  /\ UNCHANGED <<replicas, born, resources, clock, pc, buildVars, construct, destruct, graph,
                 started, stops, condemned, dropped>>

\* Mutation: a failed deletion is not reported to the replicas.
NotReported(r) == {}

\* the replicas a resource that could not be deleted is used in
ReportedTo(r) == IF r = Shared THEN destruct ELSE {r}

\* getDestructorFunc: a resource is deleted, or its replicas are noted.
DestroyResource(r) ==
  /\ pc = "destroy"
  /\ r \in pending
  /\ pending' = pending \ {r}
  /\ \/ /\ resources' = resources \ {r} /\ dropped' = dropped \cup ({r} \cap graph)
        /\ UNCHANGED <<faults, failed>>
     \/ /\ Fails
        /\ failed' = failed \cup ReportedTo(r) /\ UNCHANGED <<resources, dropped>>
  /\ UNCHANGED <<replicas, born, deployed, clock, pc, buildVars, construct, destruct, graph,
                 started, stops, condemned>>

\* All destructors have run: the records of the cleaned replicas are next.
Destroyed ==
  /\ pc = "destroy"
  /\ pending = {}
  /\ pending' = destruct \ failed
  /\ pc' = "forget"
  /\ UNCHANGED <<clusterVars, buildVars, construct, destruct, graph, failed, boundVars>>

\* The record of a destructed replica is deleted; a failure is only logged.
ForgetReplica(i) ==
  /\ pc = "forget"
  /\ i \in pending
  /\ pending' = pending \ {i}
  /\ \/ replicas' = replicas \ {i} /\ deployed' = deployed \ {i} /\ UNCHANGED <<faults, failed>>
     \/ Fails /\ failed' = failed \cup {i} /\ UNCHANGED <<replicas, deployed>>
  /\ UNCHANGED <<born, resources, clock, pc, buildVars, construct, destruct, graph, started,
                 stops, condemned, dropped>>

\* The finalizer is done; Deploy reports no error either way.
Done ==
  /\ pc \in {"acknowledge", "forget"}
  /\ pending = {}
  /\ pc' = IF failed = {} THEN "success" ELSE "idle"
  /\ UNCHANGED <<clusterVars, buildVars, graphVars, boundVars>>

Allocate == ReuseReplica \/ (\E i \in Ids : CreateReplica(i)) \/ CreateReplicaFails
            \/ DiscardYoung \/ Allocated \/ (\E i \in Ids : DeleteUnused(i)) \/ Build

Deploy == (\E r \in Ids \cup {Shared} : DeployResource(r)) \/ Finalize

Finalizer == \/ \E i \in Ids : Acknowledge(i) \/ ForgetReplica(i)
             \/ \E r \in Ids \cup {Shared} : DestroyResource(r)
             \/ Destroyed \/ Done

Next == Tick \/ Interrupt \/ (\E r \in Requests : Begin(r)) \/ Allocate \/ Deploy \/ Finalizer

Spec == Init /\ [][Next]_vars

(***************************************************************************)
(* Properties                                                              *)
(***************************************************************************)

\* A deployed replica keeps its resources, the shared one included, until its
\* own destruction begins, whatever is destructed around it; except for those
\* that a worker gave up, which does not keep a replica from being acknowledged,
\* or that are deleted because they are on the destruction path of another one.
DeployedIntact ==
  \A i \in deployed \ condemned : {i, Shared} \subseteq resources \cup dropped

\* docs/flows.md:224: "After deployment, delete all resources that belong
\* exclusively, to replicas being deleted [...] and resources from both
\* `construction` and `destruction` flow scopes". The resources of the
\* destruction graph are deleted also if they belong to other replicas.
SharedResourceKept ==
  \A i \in deployed \ condemned : {i, Shared} \subseteq resources

\* dependency_graph.go: replicas are deleted "for which 100% of resources were
\* deleted": the record of a deployed replica outlives its resource, and the
\* record of the last replica outlives the shared one.
RecordOutlivesResource ==
  [][\A i \in deployed \ replicas' :
       i \notin resources /\ (replicas' = {} => Shared \notin resources)]_vars

\* A deployment without failures, also one after interrupted runs, leaves as many
\* deployed replicas as it was asked for, unless it has met a replica that is
\* older than a deployed one and was never acknowledged.
CountReached ==
  pc = "success" /\ (\A i \in counted, j \in seen \ counted : Less(i, j)) =>
    Cardinality(deployed) = TargetCount
=============================================================================
