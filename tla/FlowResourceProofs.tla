-------------------------- MODULE FlowResourceProofs --------------------------
(***************************************************************************)
(* A flow inside a graph, for every set of resources, every retry count and*)
(* any number of replicas, failures and crashes: the number of its         *)
(* replicas, that nothing of it is orphaned, and that its dependents wait  *)
(* for all of it.                                                          *)
(***************************************************************************)
EXTENDS FlowResource, FiniteSetTheorems, TLAPS

(***************************************************************************)
(* The inductive invariant                                                 *)
(***************************************************************************)

ClusterOK ==
  /\ acked \subseteq records /\ records \subseteq Ids
  /\ object \in [Nodes -> {"absent", "created", "ready"}]

OuterOK ==
  /\ graph \subseteq Ids /\ building \subseteq Ids
  /\ wpc \in {"reset", "delete", "destroy", "create", "assign", "wait",
            "done", "failed", "hung"}
  /\ attempt \in Attempts /\ retry \in Attempts
  /\ cached \in BOOLEAN /\ dependent \in {"idle", "waiting", "started"}
  /\ fixed \in BOOLEAN /\ retracted \in BOOLEAN /\ early \in BOOLEAN

InnerOK ==
  /\ npc \in [Nodes -> {"none", "create", "wait", "done"}]
  /\ owner \in [Nodes -> Attempts \cup {0}]
  /\ deploy \in [Attempts -> {"none", "running", "ended"}]
  /\ readyNodes \subseteq Nodes /\ shown \subseteq Nodes

FlowTypeOK == ClusterOK /\ OuterOK /\ InnerOK

\* No two replicas
Single(S) == \A i, j \in S : i = j

\* There is at most one replica an interrupted deployment has left behind, and
\* under an absolute count no other one next to it.
RecordsInv == Single(records \ acked) /\ (fixed => Single(records))

\* The graph is set once in the life of a process, and then used again; what is
\* running belongs to it, and until the flow is retracted its replicas have
\* their records.
GraphInv ==
  /\ wpc = "assign" => building # {} /\ (graph # {} => building = graph)
  /\ wpc = "wait" => graph # {}
  /\ wpc = "destroy" => retracted
  /\ \A n \in Nodes : npc[n] # "none" => n[1] \in graph
  /\ ~retracted => graph \subseteq records /\ (wpc = "assign" => building \subseteq records)

\* What is cached as ready has been ready, for the flow and for its resources,
\* unless there was no graph to look at.
FlowShown == graph # {} /\ NodesOf(graph) \subseteq shown

ShownInv ==
  /\ readyNodes \subseteq shown
  /\ \A n \in Nodes : object[n] = "ready" => n \in shown
  /\ cached => early \/ FlowShown
  /\ dependent = "started" => early \/ FlowShown

FlowInv == FlowTypeOK /\ RecordsInv /\ GraphInv /\ NoOrphans

(***************************************************************************)
(* Facts about sets of replicas                                            *)
(***************************************************************************)

LEMMA SingleCardinality ==
  ASSUME NEW S, Single(S)
  PROVE  IsFiniteSet(S) /\ Cardinality(S) <= 1
<1>1. CASE S = {}
  BY <1>1, FS_EmptySet
<1>2. CASE S # {}
  <2>1. PICK x \in S : S = {x}
    BY <1>2 DEF Single
  <2>2. IsFiniteSet({x}) /\ Cardinality({x}) = 1
    BY FS_Singleton
  <2> QED
    BY <2>1, <2>2
<1> QED
  BY <1>1, <1>2

\* Of a single replica there is no choice.
LEMMA SingleMin ==
  ASSUME NEW S \in SUBSET Ids, Single(S), S # {}
  PROVE  S = {Min(S)}
<1>1. PICK x \in S : S = {x}
  BY DEF Single
<1>2. x \in Int
  BY <1>1, BoundsAssumption DEF Ids
<1>3. \A y \in S : x <= y
  BY <1>1, <1>2
<1>4. Min(S) \in S
  BY <1>1, <1>3 DEF Min
<1> QED
  BY <1>1, <1>4

(***************************************************************************)
(* Types                                                                   *)
(***************************************************************************)

LEMMA InitTypes == Init => FlowTypeOK
<1> SUFFICES ASSUME Init PROVE FlowTypeOK
  OBVIOUS
<1>1. ClusterOK
  BY DEF Init, ClusterOK
<1>2. OuterOK
  <2>1. attempt \in Attempts /\ retry \in Attempts
    BY BoundsAssumption DEF Init, Attempts
  <2>2. graph \subseteq Ids /\ building \subseteq Ids
    BY DEF Init
  <2> QED
    BY <2>1, <2>2 DEF Init, OuterOK
<1>3. InnerOK
  BY DEF Init, InnerOK
<1> QED
  BY <1>1, <1>2, <1>3 DEF FlowTypeOK

LEMMA AttemptFailedTypes ==
  ASSUME OuterOK, AttemptFailed
  PROVE  attempt' \in Attempts /\ wpc' \in {"reset", "failed"}
  BY BoundsAssumption DEF AttemptFailed, OuterOK, Attempts

LEMMA CacheTypes ==
  ASSUME FlowTypeOK, IF cached THEN UNCHANGED readyNodes ELSE CacheAnswers
  PROVE  readyNodes' \subseteq Nodes
  BY DEF FlowTypeOK, ClusterOK, OuterOK, InnerOK, CacheAnswers, Viewed, NodesOf, Nodes

LEMMA WorkerTypes ==
  ASSUME FlowTypeOK, RecordsInv, Worker
  PROVE  FlowTypeOK'
<1> USE DEF FlowTypeOK, ClusterOK, OuterOK, InnerOK, clusterVars, innerVars, history
<1>1. CASE Reset
  BY <1>1 DEF Reset
<1>2. CASE Build
  <2> DEFINE enough == FixedNumberOfReplicas /\ acked # {}
             added == IF enough THEN {} ELSE AddedReplica
  <2>1. added \subseteq Ids /\ records' = acked \cup added
    BY <1>2 DEF Build
  <2>2. ClusterOK'
    BY <1>2, <2>1 DEF Build
  <2>3. building' \subseteq Ids
    <3>1. CASE enough
      <4>1. building' = {Min(acked)}
        BY <1>2, <3>1 DEF Build
      <4>2. acked \in SUBSET Ids /\ Single(acked) /\ acked # {}
        BY <3>1 DEF RecordsInv, Single, FixedNumberOfReplicas
      <4>3. Min(acked) \in acked
        BY <4>2, SingleMin
      <4> QED
        BY <4>1, <4>2, <4>3
    <3>2. CASE ~enough
      BY <1>2, <2>1, <3>2 DEF Build
    <3> QED
      BY <3>1, <3>2
  <2>4. OuterOK' /\ InnerOK'
    BY <1>2, <2>3 DEF Build
  <2> QED
    BY <2>2, <2>4
<1>3. CASE BuildFails
  BY <1>3, AttemptFailedTypes DEF BuildFails
<1>4. CASE Reuse
  BY <1>4 DEF Reuse
<1>5. CASE Assign
  BY <1>5 DEF Assign
<1>6. CASE WaitReady
  BY <1>6, CacheTypes DEF WaitReady
<1>7. CASE WaitTimeout
  BY <1>7, AttemptFailedTypes DEF WaitTimeout
<1>8. CASE Delete
  BY <1>8 DEF Delete
<1>9. CASE DeleteFails
  BY <1>9 DEF DeleteFails
<1>10. CASE Destroy
  BY <1>10 DEF Destroy
<1>11. CASE DestroyFails
  BY <1>11 DEF DestroyFails
<1>12. CASE DestroyHangs
  BY <1>12 DEF DestroyHangs
<1> QED
  BY <1>1, <1>2, <1>3, <1>4, <1>5, <1>6, <1>7, <1>8, <1>9, <1>10, <1>11, <1>12 DEF Worker

LEMMA NextTypes ==
  ASSUME FlowTypeOK, RecordsInv, [Next]_vars
  PROVE  FlowTypeOK'
<1> USE DEF FlowTypeOK, ClusterOK, OuterOK, InnerOK, clusterVars, outerVars, innerVars, history
<1>1. CASE Worker
  BY <1>1, WorkerTypes
<1>2. CASE DependentStarts
  BY <1>2, CacheTypes DEF DependentStarts
<1>3. CASE Restart
  <2>1. attempt' \in Attempts
    BY <1>3, BoundsAssumption DEF Restart, Attempts
  <2>2. graph' \subseteq Ids /\ building' \subseteq Ids
    BY <1>3 DEF Restart
  <2>3. OuterOK'
    BY <1>3, <2>1, <2>2 DEF Restart
  <2>4. InnerOK'
    BY <1>3 DEF Restart
  <2> QED
    BY <1>3, <2>3, <2>4 DEF Restart
<1>4. ASSUME NEW n \in Nodes, InnerNode(n)
      PROVE  FlowTypeOK'
  <2>1. CASE CreateObject(n)
    BY <2>1 DEF CreateObject
  <2>2. CASE NodeReady(n)
    BY <2>2 DEF NodeReady
  <2>3. ASSUME NEW a \in Attempts, Request(a, n)
        PROVE  FlowTypeOK'
    BY <2>3 DEF Request
  <2> QED
    BY <1>4, <2>1, <2>2, <2>3 DEF InnerNode
<1>5. ASSUME NEW n \in Nodes, NodeFails(n)
      PROVE  FlowTypeOK'
  BY <1>5 DEF NodeFails
<1>6. ASSUME NEW n \in Nodes, ObjectReady(n)
      PROVE  FlowTypeOK'
  BY <1>6 DEF ObjectReady
<1>7. ASSUME NEW a \in Attempts, Finalize(a)
      PROVE  FlowTypeOK'
  BY <1>7 DEF Finalize
<1>8. CASE UNCHANGED vars
  BY <1>8 DEF vars
<1> QED
  BY <1>1, <1>2, <1>3, <1>4, <1>5, <1>6, <1>7, <1>8 DEF Next

(***************************************************************************)
(* Records                                                                 *)
(***************************************************************************)

\* Only three actions of the worker, and the inner finalizer, touch records.
LEMMA RecordsFrame ==
  ASSUME [Next]_vars
  PROVE  \/ Build \/ Delete \/ Destroy \/ \E a \in Attempts : Finalize(a)
         \/ UNCHANGED <<records, acked, fixed>>
<1> USE DEF clusterVars, history
<1>1. CASE Worker
  BY <1>1 DEF Worker, Reset, BuildFails, Reuse, Assign, WaitReady, WaitTimeout,
    DeleteFails, DestroyFails, DestroyHangs
<1>2. CASE DependentStarts \/ Restart
  BY <1>2 DEF DependentStarts, Restart
<1>3. ASSUME NEW n \in Nodes, InnerNode(n) \/ NodeFails(n) \/ ObjectReady(n)
      PROVE  UNCHANGED <<records, acked, fixed>>
  BY <1>3 DEF InnerNode, CreateObject, NodeReady, Request, NodeFails, ObjectReady
<1>4. CASE UNCHANGED vars
  BY <1>4 DEF vars
<1> QED
  BY <1>1, <1>2, <1>3, <1>4 DEF Next

\* What Build adds is one replica, and the one that was left behind if there is
\* one: no record that is not acknowledged is forgotten.
LEMMA BuildRecords ==
  ASSUME FlowTypeOK, RecordsInv, Build
  PROVE  /\ records' = acked \cup building' /\ building' # {}
         /\ Single(building') /\ records \subseteq records'
         /\ fixed /\ acked # {} => records' = records
<1> USE DEF FlowTypeOK, ClusterOK
<1>1. CASE FixedNumberOfReplicas /\ acked # {}
  <2>1. records' = acked /\ building' = {Min(acked)}
    BY <1>1 DEF Build
  <2>2. Single(records) /\ acked = records
    BY <1>1 DEF RecordsInv, Single, FixedNumberOfReplicas
  <2>3. acked = {Min(acked)}
    BY <1>1, <2>2, SingleMin
  <2> QED
    BY <2>1, <2>2, <2>3 DEF Single
<1>2. CASE ~(FixedNumberOfReplicas /\ acked # {})
  <2>1. records' = acked \cup AddedReplica /\ building' = AddedReplica
    BY <1>2 DEF Build
  <2>2. CASE records # acked
    <3>1. AddedReplica = {Min(records \ acked)}
      BY <2>2 DEF AddedReplica
    <3>2. records \ acked # {} /\ records \ acked \in SUBSET Ids /\ Single(records \ acked)
      BY <2>2 DEF RecordsInv
    <3>3. records \ acked = {Min(records \ acked)}
      BY <3>2, SingleMin
    <3> QED
      BY <1>2, <2>1, <3>1, <3>3 DEF Single, FixedNumberOfReplicas
  <2>3. CASE records = acked
    BY <1>2, <2>1, <2>3 DEF AddedReplica, Single, FixedNumberOfReplicas
  <2> QED
    BY <2>2, <2>3
<1> QED
  BY <1>1, <1>2

LEMMA InitRecords == Init => RecordsInv
  BY DEF Init, RecordsInv, Single

LEMMA NextRecords ==
  ASSUME FlowTypeOK, RecordsInv, [Next]_vars
  PROVE  RecordsInv'
<1> USE DEF FlowTypeOK, ClusterOK, RecordsInv
<1>1. CASE Build
  <2>1. UNCHANGED <<acked, fixed>>
    BY <1>1 DEF Build, history
  <2>2. Single(records \ acked)'
    BY <1>1, <2>1, BuildRecords DEF Single
  <2>3. ASSUME fixed
        PROVE  Single(records)'
    BY <1>1, <2>1, <2>3, BuildRecords DEF Single
  <2> QED
    BY <2>1, <2>2, <2>3
<1>2. CASE Delete
  BY <1>2 DEF Delete, Single
<1>3. CASE Destroy
  BY <1>3 DEF Destroy, Single, history
<1>4. ASSUME NEW a \in Attempts, Finalize(a)
      PROVE  RecordsInv'
  BY <1>4 DEF Finalize, Single, history
<1>5. CASE UNCHANGED <<records, acked, fixed>>
  BY <1>5 DEF Single
<1> QED
  BY <1>1, <1>2, <1>3, <1>4, <1>5, RecordsFrame

(***************************************************************************)
(* The graph, and what is running of it                                    *)
(***************************************************************************)

LEMMA InitGraph == Init => GraphInv
  BY DEF Init, GraphInv

LEMMA WorkerGraph ==
  ASSUME FlowTypeOK, RecordsInv, GraphInv, Worker
  PROVE  GraphInv'
<1> USE DEF GraphInv, clusterVars, innerVars, history
<1>1. CASE Reset
  BY <1>1 DEF Reset
<1>2. CASE Build
  <2>1. records \subseteq records' /\ building' # {} /\ building' \subseteq records'
    BY <1>2, BuildRecords
  <2> QED
    BY <1>2, <2>1 DEF Build
<1>3. CASE BuildFails
  BY <1>3 DEF BuildFails, AttemptFailed
<1>4. CASE Reuse
  BY <1>4 DEF Reuse
<1>5. CASE Assign
  BY <1>5 DEF Assign
<1>6. CASE WaitReady
  BY <1>6 DEF WaitReady
<1>7. CASE WaitTimeout
  BY <1>7 DEF WaitTimeout, AttemptFailed
<1>8. CASE Delete
  BY <1>8 DEF Delete
<1>9. CASE DeleteFails
  BY <1>9 DEF DeleteFails
<1>10. CASE Destroy
  BY <1>10 DEF Destroy
<1>11. CASE DestroyFails \/ DestroyHangs
  BY <1>11 DEF DestroyFails, DestroyHangs
<1> QED
  BY <1>1, <1>2, <1>3, <1>4, <1>5, <1>6, <1>7, <1>8, <1>9, <1>10, <1>11 DEF Worker

LEMMA NextGraph ==
  ASSUME FlowTypeOK, RecordsInv, GraphInv, [Next]_vars
  PROVE  GraphInv'
<1> USE DEF GraphInv, clusterVars, outerVars, innerVars, history
<1>1. CASE Worker
  BY <1>1, WorkerGraph
<1>2. CASE DependentStarts
  BY <1>2 DEF DependentStarts
<1>3. CASE Restart
  BY <1>3 DEF Restart
<1>4. ASSUME NEW n \in Nodes, InnerNode(n)
      PROVE  GraphInv'
  <2> USE DEF FlowTypeOK, InnerOK
  <2>1. CASE CreateObject(n)
    BY <2>1 DEF CreateObject
  <2>2. CASE NodeReady(n)
    BY <2>2 DEF NodeReady
  <2>3. ASSUME NEW a \in Attempts, Request(a, n)
        PROVE  GraphInv'
    <3>1. n[1] \in graph
      BY <2>3 DEF Request, NodesOf
    <3> QED
      BY <2>3, <3>1 DEF Request
  <2> QED
    BY <1>4, <2>1, <2>2, <2>3 DEF InnerNode
<1>5. ASSUME NEW n \in Nodes, NodeFails(n)
      PROVE  GraphInv'
  BY <1>5 DEF NodeFails, FlowTypeOK, InnerOK
<1>6. ASSUME NEW n \in Nodes, ObjectReady(n)
      PROVE  GraphInv'
  BY <1>6 DEF ObjectReady
<1>7. ASSUME NEW a \in Attempts, Finalize(a)
      PROVE  GraphInv'
  BY <1>7 DEF Finalize
<1>8. CASE UNCHANGED vars
  BY <1>8 DEF vars
<1> QED
  BY <1>1, <1>2, <1>3, <1>4, <1>5, <1>6, <1>7, <1>8 DEF Next

(***************************************************************************)
(* Orphans                                                                 *)
(***************************************************************************)

LEMMA InitOrphans == Init => NoOrphans
  BY DEF Init, NoOrphans

LEMMA NextOrphans ==
  ASSUME FlowInv, [Next]_vars
  PROVE  NoOrphans'
<1> SUFFICES ASSUME ~retracted', NEW n \in Nodes, object'[n] # "absent"
             PROVE  n[1] \in records'
  BY DEF NoOrphans
<1> USE DEF FlowInv, NoOrphans, GraphInv, clusterVars, outerVars, innerVars, history
<1>1. CASE Worker
  <2>1. CASE Build
    BY <1>1, <2>1, BuildRecords DEF Build
  <2>2. CASE Delete
    BY <2>2 DEF Delete
  <2>3. CASE Destroy \/ DestroyFails \/ DestroyHangs
    BY <2>3 DEF Destroy, DestroyFails, DestroyHangs
  <2>4. CASE Reset \/ BuildFails \/ Reuse \/ Assign \/ WaitReady \/ WaitTimeout \/ DeleteFails
    BY <2>4 DEF Reset, BuildFails, Reuse, Assign, WaitReady, WaitTimeout, DeleteFails
  <2> QED
    BY <1>1, <2>1, <2>2, <2>3, <2>4 DEF Worker
<1>2. CASE DependentStarts \/ Restart
  BY <1>2 DEF DependentStarts, Restart
<1>3. ASSUME NEW m \in Nodes, CreateObject(m)
      PROVE  n[1] \in records'
  <2>1. m[1] \in records
    BY <1>3 DEF CreateObject
  <2>2. UNCHANGED <<records, retracted>>
    BY <1>3 DEF CreateObject
  <2> QED
    BY <1>3, <2>1, <2>2 DEF CreateObject, FlowTypeOK, ClusterOK
<1>4. ASSUME NEW m \in Nodes, ObjectReady(m)
      PROVE  n[1] \in records'
  BY <1>4 DEF ObjectReady, FlowTypeOK, ClusterOK
<1>5. ASSUME NEW m \in Nodes, NodeReady(m) \/ NodeFails(m) \/ \E a \in Attempts : Request(a, m)
      PROVE  n[1] \in records'
  BY <1>5 DEF NodeReady, NodeFails, Request
<1>6. ASSUME NEW a \in Attempts, Finalize(a)
      PROVE  n[1] \in records'
  BY <1>6 DEF Finalize
<1>7. CASE UNCHANGED vars
  BY <1>7 DEF vars
<1> QED
  BY <1>1, <1>2, <1>3, <1>4, <1>5, <1>6, <1>7 DEF Next, InnerNode

(***************************************************************************)
(* What has been shown to be ready                                         *)
(***************************************************************************)

\* A status of "ready" is about every node of the graph.
LEMMA StatusShows ==
  ASSUME FlowTypeOK, ShownInv, graph # {}, Status = "ready"
  PROVE  FlowShown
<1>1. ASSUME NEW n \in NodesOf(graph)
      PROVE  n \in shown
  <2>1. n \in Viewed /\ n \in Nodes
    BY DEF Viewed, NodesOf, Nodes, FlowTypeOK, OuterOK
  <2>2. Answer[n] = "ready"
    <3>1. GetStatus(Viewed, Answer) \in {"empty", "finished"}
      BY DEF Status
    <3> QED
      BY <2>1, <3>1 DEF GetStatus
  <2>3. n \in readyNodes \/ object[n] = "ready"
    BY <2>1, <2>2 DEF Answer
  <2> QED
    BY <2>1, <2>3 DEF ShownInv
<1> QED
  BY <1>1 DEF FlowShown

LEMMA CacheShows ==
  ASSUME FlowTypeOK, ShownInv, CacheAnswers
  PROVE  readyNodes' \subseteq shown
<1>1. ASSUME graph # {}, NEW n \in Viewed, Answer[n] = "ready"
      PROVE  n \in shown
  <2>1. n \in Nodes
    BY DEF Viewed, NodesOf, Nodes, FlowTypeOK, OuterOK, ClusterOK
  <2> QED
    BY <1>1, <2>1 DEF Answer, ShownInv
<1> QED
  BY <1>1 DEF CacheAnswers, ShownInv

LEMMA InitShown == Init => ShownInv
  BY DEF Init, ShownInv

LEMMA WorkerShown ==
  ASSUME FlowTypeOK, GraphInv, ShownInv, Worker
  PROVE  ShownInv'
<1> USE DEF ShownInv, FlowShown, NodesOf, clusterVars, innerVars, history
<1>1. CASE Reset
  BY <1>1 DEF Reset
<1>2. CASE Build
  BY <1>2 DEF Build
<1>3. CASE BuildFails
  BY <1>3 DEF BuildFails
<1>4. CASE Reuse
  BY <1>4 DEF Reuse
<1>5. CASE Assign
  BY <1>5 DEF Assign, GraphInv
<1>6. CASE WaitReady
  <2>1. early \/ FlowShown
    BY <1>6, StatusShows DEF WaitReady, GraphInv
  <2>2. readyNodes' \subseteq shown
    BY <1>6, CacheShows DEF WaitReady
  <2> QED
    BY <1>6, <2>1, <2>2 DEF WaitReady
<1>7. CASE WaitTimeout
  BY <1>7 DEF WaitTimeout
<1>8. CASE Delete
  BY <1>8 DEF Delete
<1>9. CASE DeleteFails
  BY <1>9 DEF DeleteFails
<1>10. CASE Destroy
  BY <1>10 DEF Destroy
<1>11. CASE DestroyFails \/ DestroyHangs
  BY <1>11 DEF DestroyFails, DestroyHangs
<1> QED
  BY <1>1, <1>2, <1>3, <1>4, <1>5, <1>6, <1>7, <1>8, <1>9, <1>10, <1>11 DEF Worker

LEMMA NextShown ==
  ASSUME FlowTypeOK, GraphInv, ShownInv, [Next]_vars
  PROVE  ShownInv'
<1> USE DEF ShownInv, FlowShown, NodesOf, clusterVars, outerVars, innerVars, history
<1>1. CASE Worker
  BY <1>1, WorkerShown
<1>2. CASE DependentStarts
  <2>1. readyNodes' \subseteq shown
    BY <1>2, CacheShows DEF DependentStarts
  <2>2. CASE graph = {}
    BY <1>2, <2>1, <2>2 DEF DependentStarts
  <2>3. CASE graph # {}
    <3>1. early \/ FlowShown
      BY <1>2, <2>3, StatusShows DEF DependentStarts
    <3> QED
      BY <1>2, <2>1, <2>3, <3>1 DEF DependentStarts
  <2> QED
    BY <2>2, <2>3
<1>3. CASE Restart
  BY <1>3 DEF Restart
<1>4. ASSUME NEW n \in Nodes, CreateObject(n)
      PROVE  ShownInv'
  BY <1>4 DEF CreateObject, FlowTypeOK, ClusterOK
<1>5. ASSUME NEW n \in Nodes, NodeReady(n)
      PROVE  ShownInv'
  BY <1>5 DEF NodeReady
<1>6. ASSUME NEW n \in Nodes, ObjectReady(n)
      PROVE  ShownInv'
  BY <1>6 DEF ObjectReady, FlowTypeOK, ClusterOK
<1>7. ASSUME NEW n \in Nodes, NodeFails(n) \/ \E a \in Attempts : Request(a, n)
      PROVE  ShownInv'
  BY <1>7 DEF NodeFails, Request
<1>8. ASSUME NEW a \in Attempts, Finalize(a)
      PROVE  ShownInv'
  BY <1>8 DEF Finalize
<1>9. CASE UNCHANGED vars
  BY <1>9 DEF vars
<1> QED
  BY <1>1, <1>2, <1>3, <1>4, <1>5, <1>6, <1>7, <1>8, <1>9 DEF Next, InnerNode

(***************************************************************************)
(* Theorems                                                                *)
(***************************************************************************)

LEMMA FlowInvariant == Spec => []FlowInv
<1>1. Init => FlowInv
  BY InitTypes, InitRecords, InitGraph, InitOrphans DEF FlowInv
<1>2. FlowInv /\ [Next]_vars => FlowInv'
  BY NextTypes, NextRecords, NextGraph, NextOrphans DEF FlowInv
<1> QED
  BY <1>1, <1>2, PTL DEF Spec

\* In a deployment with an absolute count the context of a flow has at most one
\* replica, whatever crashes, fails or is retried (Create, Delete, and
\* allocateReplicas below them).
THEOREM OneReplicaAtMost == Spec => []OneReplica
<1>1. FlowInv => OneReplica
  BY SingleCardinality DEF FlowInv, RecordsInv, OneReplica
<1> QED
  BY <1>1, FlowInvariant, PTL

\* Until a retry deletes the flow, each of its resources belongs to a replica
\* that has a record: a crash between Create and the acknowledgement of the
\* replica, or a failed attempt, loses none.
THEOREM NothingOrphaned == Spec => []NoOrphans
<1>1. FlowInv => NoOrphans
  BY DEF FlowInv
<1> QED
  BY <1>1, FlowInvariant, PTL

\* A dependent of a flow that was not let through while Create had stored no
\* graph starts only after every resource of the flow has been ready.
THEOREM DependentWaitsForFlow == Spec => []DependentAfterFlow
<1>1. Init => ShownInv
  BY InitShown
<1>2. FlowInv /\ ShownInv /\ [Next]_vars => ShownInv'
  BY NextShown DEF FlowInv
<1>3. ShownInv => DependentAfterFlow
  BY DEF ShownInv, FlowShown, DependentAfterFlow
<1> QED
  BY <1>1, <1>2, <1>3, FlowInvariant, PTL DEF Spec
=============================================================================
