-------------------------- MODULE ReplicaSpaceProofs --------------------------
(***************************************************************************)
(* The replicas of a flow, for any number of replicas, requests,           *)
(* deployments, interruptions and failures.                                *)
(***************************************************************************)
EXTENDS ReplicaSpace, FiniteSetTheorems, TLAPS

(***************************************************************************)
(* The inductive invariant                                                 *)
(***************************************************************************)

\* Every deployed replica that was listed is older than the listed replicas that
\* were never acknowledged.
DeployedFirst == \A i \in counted, j \in seen \ counted : Less(i, j)

\* What was listed had been created.
SeenInv == counted \subseteq seen /\ \A i \in seen : born[i] # -1

\* While replicas are allocated, the list is made of the deployed replicas, and
\* of others only up to the number asked for: listed ones, or younger ones.
AllocateInv ==
  pc \in {"allocate", "young", "cleanup"} =>
    /\ deployed = counted /\ counted \subseteq adjusted
    /\ adjusted \cup unused \cup young \subseteq replicas /\ unused \subseteq seen
    /\ adjusted \cap unused = {} /\ young \cap (adjusted \cup unused) = {}
    /\ \A j \in adjusted \ counted : j \in seen \/ \A i \in seen : born[i] < born[j]
    /\ adjusted # counted => Cardinality(adjusted) <= TargetCount
    /\ pc = "cleanup" => Cardinality(adjusted) >= TargetCount

\* What is to be constructed and destructed makes the number asked for.
PlanInv ==
  pc \in {"deploy", "acknowledge", "destroy", "forget"} =>
    /\ construct = {} \/ destruct = {}
    /\ destruct # {} => /\ destruct \subseteq counted
                        /\ Cardinality(counted \ destruct) = TargetCount
    /\ destruct = {} /\ DeployedFirst => Cardinality(counted \cup construct) = TargetCount

\* The resources of a replica that is deployed are there, or were dropped.
ConstructInv ==
  /\ pc = "deploy" =>
       /\ deployed = counted /\ construct \subseteq replicas
       /\ pending \subseteq graph /\ graph \ pending \subseteq resources \cup dropped
       /\ construct # {} => graph = construct \cup {Shared}
       /\ destruct # {} => graph \subseteq {Shared}
  /\ pc = "acknowledge" =>
       /\ destruct = {}
       /\ pending \subseteq construct /\ construct \subseteq replicas
       /\ \A i \in construct : {i, Shared} \subseteq resources \cup dropped
       /\ counted \subseteq deployed /\ deployed \subseteq counted \cup construct
       /\ construct \subseteq deployed \cup pending \cup failed

\* A resource that is being destroyed belongs to condemned replicas only, or to
\* the destruction graph.
DestructInv ==
  /\ pc = "destroy" =>
       /\ destruct # {} /\ deployed = counted /\ destruct \subseteq condemned
       /\ pending \subseteq destruct \cup {Shared}
       /\ Shared \in pending => replicas \subseteq destruct \/ Shared \in graph
       /\ \A i \in destruct : i \in resources => i \in pending \cup failed
       /\ replicas \subseteq destruct /\ Shared \in resources =>
            Shared \in pending \/ destruct \subseteq failed
  /\ pc = "forget" =>
       /\ destruct # {} /\ pending \subseteq destruct /\ pending \cap resources = {}
       /\ deployed \subseteq counted /\ counted \ destruct \subseteq deployed
       /\ destruct \cap deployed \subseteq pending \cup failed
       /\ replicas \subseteq destruct /\ pending # {} => Shared \notin resources

ReplicaInv == SeenInv /\ AllocateInv /\ PlanInv /\ ConstructInv /\ DestructInv

(***************************************************************************)
(* The order of replicas, and positions in the sorted list                 *)
(***************************************************************************)

LEMMA FiniteIds ==
  ASSUME NEW S \in SUBSET Ids
  PROVE  IsFiniteSet(S) /\ Cardinality(S) \in Nat
<1>1. IsFiniteSet(S)
  BY ParameterAssumption, FS_Subset
<1> QED
  BY <1>1, FS_CardinalityType

LEMMA LessOrder ==
  ASSUME TypeOK, NEW i \in Ids, NEW j \in Ids, NEW k \in Ids
  PROVE  /\ ~Less(i, i)
         /\ Less(i, j) /\ Less(j, k) => Less(i, k)
         /\ i # j => Less(i, j) \/ Less(j, i)
<1>1. born[i] \in Int /\ born[j] \in Int /\ born[k] \in Int
  BY ParameterAssumption DEF TypeOK
<1>2. i \in Nat /\ j \in Nat /\ k \in Nat
  BY ParameterAssumption
<1> QED
  BY <1>1, <1>2 DEF Less

LEMMA Smallest ==
  ASSUME NEW S \in SUBSET Nat, S # {}
  PROVE  \E m \in S : \A n \in S : m <= n
<1> DEFINE Smaller == {ss \in Nat \X Nat : ss[1] < ss[2]}
<1>1. IsWellFoundedOn(Smaller, Nat)
  BY NatLessThanWellFounded DEF OpToRel
<1> HIDE DEF Smaller
<1>2. PICK m \in S : \A n \in S : <<n, m>> \notin Smaller
  BY <1>1, WFMin
<1>3. ASSUME NEW n \in S
      PROVE  m <= n
  <2>1. m \in Nat /\ n \in Nat
    OBVIOUS
  <2>2. ~(n < m)
    BY <1>2, <2>1 DEF Smaller
  <2> QED
    BY <2>1, <2>2
<1> QED
  BY <1>3

\* There is a first replica in the sorted list.
LEMMA OldestExists ==
  ASSUME TypeOK, NEW S \in SUBSET Ids, S # {}
  PROVE  Oldest(S) \in S
<1>1. \A i \in Ids : i \in Nat /\ born[i] \in Int /\ born[i] + 1 \in Nat
  BY ParameterAssumption DEF TypeOK
<1> DEFINE Times == {born[i] + 1 : i \in S}
<1>2. Times \in SUBSET Nat /\ Times # {}
  BY <1>1
<1> HIDE DEF Times
<1>3. PICK m \in Times : \A n \in Times : m <= n
  BY <1>2, Smallest
<1> DEFINE First == {i \in S : born[i] + 1 = m}
<1>4. First \in SUBSET Nat /\ First # {}
  BY <1>1, <1>3 DEF Times
<1> HIDE DEF First
<1>5. PICK i \in First : \A j \in First : i <= j
  BY <1>4, Smallest
<1>6. i \in S /\ born[i] + 1 = m
  BY <1>5 DEF First
<1>7. ASSUME NEW j \in S \ {i}
      PROVE  Less(i, j)
  <2>1. born[i] + 1 <= born[j] + 1
    BY <1>3, <1>6 DEF Times
  <2>2. born[i] = born[j] => i <= j
    BY <1>5, <1>6 DEF First
  <2> QED
    BY <1>1, <1>6, <2>1, <2>2 DEF Less
<1> QED
  BY <1>6, <1>7 DEF Oldest

LEMMA IntervalLength ==
  ASSUME NEW a \in Nat, NEW b \in Nat, a <= b
  PROVE  IsFiniteSet(a .. b - 1) /\ Cardinality(a .. b - 1) = b - a
<1> DEFINE c == b - 1
<1>1. a \in Int /\ c \in Int /\ (IF a > c THEN 0 ELSE c - a + 1) = b - a
  OBVIOUS
<1> HIDE DEF c
<1>2. IsFiniteSet(a .. c) /\ Cardinality(a .. c) = b - a
  BY <1>1, FS_Interval
<1> QED
  BY <1>2 DEF c

Rank(S, i) == Cardinality({j \in S : Less(j, i)})

LEMMA RankBounded ==
  ASSUME TypeOK, NEW S \in SUBSET Ids, NEW i \in S
  PROVE  Rank(S, i) \in 0 .. Cardinality(S) - 1
<1>1. IsFiniteSet(S) /\ Cardinality(S) \in Nat
  BY FiniteIds
<1>2. IsFiniteSet(S \ {i}) /\ Cardinality(S \ {i}) = Cardinality(S) - 1
  BY <1>1, FS_RemoveElement
<1> DEFINE Before == {j \in S : Less(j, i)}
<1>3. Before \in SUBSET (S \ {i})
  BY LessOrder
<1> HIDE DEF Before
<1>4. IsFiniteSet(Before) /\ Cardinality(Before) <= Cardinality(S \ {i})
  BY <1>2, <1>3, FS_Subset
<1>5. Cardinality(Before) \in Nat
  BY <1>4, FS_CardinalityType
<1> QED
  BY <1>1, <1>2, <1>4, <1>5 DEF Rank, Before

LEMMA RankMonotone ==
  ASSUME TypeOK, NEW S \in SUBSET Ids, NEW i \in S, NEW j \in S, Less(i, j)
  PROVE  Rank(S, i) < Rank(S, j)
<1> DEFINE Before == {k \in S : Less(k, i)}
           Later == {k \in S : Less(k, j)}
<1>1. Before \cup {i} \in SUBSET Later /\ i \notin Before
  BY LessOrder
<1>2. Before \in SUBSET Ids /\ Later \in SUBSET Ids
  OBVIOUS
<1> HIDE DEF Before, Later
<1>3. /\ IsFiniteSet(Before) /\ Cardinality(Before) \in Nat
      /\ IsFiniteSet(Later) /\ Cardinality(Later) \in Nat
  BY <1>2, FiniteIds
<1>4. Cardinality(Before \cup {i}) = Cardinality(Before) + 1
  BY <1>1, <1>3, FS_AddElement
<1>5. Cardinality(Before \cup {i}) <= Cardinality(Later)
  BY <1>1, <1>3, FS_Subset
<1> QED
  BY <1>3, <1>4, <1>5 DEF Rank, Before, Later

\* A slice of the sorted list has the length it is cut to.
LEMMA SliceLength ==
  ASSUME TypeOK, NEW S \in SUBSET Ids, NEW from \in Nat, NEW to \in Nat,
         from <= to, to <= Cardinality(S)
  PROVE  Slice(S, from, to) \subseteq S /\ Cardinality(Slice(S, from, to)) = to - from
<1> DEFINE n == Cardinality(S)
           f == [i \in S |-> Rank(S, i)]
           T == Slice(S, from, to)
           g == [i \in T |-> Rank(S, i)]
<1>1. IsFiniteSet(S) /\ n \in Nat
  BY FiniteIds
<1>2. T = {i \in S : Rank(S, i) \in from .. to - 1}
  BY DEF Slice, Rank
<1>3. \A i \in S : f[i] = Rank(S, i) /\ f[i] \in 0 .. n - 1
  BY RankBounded
<1>4. ASSUME NEW i \in S, NEW j \in S, Rank(S, i) = Rank(S, j)
      PROVE  i = j
  <2>1. Rank(S, i) \in Int
    BY RankBounded, <1>1
  <2>2. ~Less(i, j) /\ ~Less(j, i)
    BY <1>4, <2>1, RankMonotone
  <2> QED
    BY <2>2, LessOrder
<1>5. f \in Surjection(S, 0 .. n - 1)
  <2>1. f \in Injection(S, 0 .. n - 1)
    BY <1>3, <1>4 DEF Injection, IsInjective
  <2>2. IsFiniteSet(0 .. n - 1) /\ Cardinality(0 .. n - 1) = n
    <3>1. IsFiniteSet(0 .. n - 1) /\ Cardinality(0 .. n - 1) = n - 0
      BY <1>1, IntervalLength
    <3> QED
      BY <1>1, <3>1
  <2> HIDE DEF f
  <2> QED
    BY <2>1, <2>2, FS_Injection
<1>6. T \subseteq S /\ IsFiniteSet(T)
  BY <1>1, <1>2, FS_Subset
<1>7. g \in Bijection(T, from .. to - 1)
  <2>1. g \in [T -> from .. to - 1]
    BY <1>2
  <2>2. g \in Injection(T, from .. to - 1)
    BY <1>4, <1>6, <2>1 DEF Injection, IsInjective
  <2>3. ASSUME NEW r \in from .. to - 1
        PROVE  \E i \in T : g[i] = r
    <3>1. r \in 0 .. n - 1
      BY <1>1
    <3>2. PICK i \in S : f[i] = r
      BY <1>5, <3>1 DEF Surjection
    <3>3. i \in T
      BY <1>2, <1>3, <3>2
    <3> QED
      BY <3>2, <3>3
  <2> QED
    BY <2>1, <2>2, <2>3 DEF Bijection, Surjection
<1>8. Cardinality(from .. to - 1) = to - from
  BY IntervalLength
<1> HIDE DEF T, g
<1>9. Cardinality(from .. to - 1) = Cardinality(T)
  BY <1>6, <1>7, FS_Bijection DEF ExistsBijection
<1> QED
  BY <1>6, <1>8, <1>9 DEF T

\* The whole list, and the part of it after a first part S0.
LEMMA SliceParts ==
  ASSUME TypeOK, NEW S \in SUBSET Ids, NEW S0 \in SUBSET S
  PROVE  /\ Slice(S, 0, Cardinality(S)) = S
         /\ (\A i \in S0, j \in S \ S0 : Less(i, j)) =>
              S \ S0 \subseteq Slice(S, Cardinality(S0), Cardinality(S))
<1>1. Slice(S, 0, Cardinality(S)) = S
  BY RankBounded DEF Slice, Rank
<1>2. ASSUME \A i \in S0, j \in S \ S0 : Less(i, j), NEW j \in S \ S0
      PROVE  j \in Slice(S, Cardinality(S0), Cardinality(S))
  <2> DEFINE Before == {k \in S : Less(k, j)}
  <2>1. S0 \in SUBSET Before /\ Before \in SUBSET Ids
    BY <1>2
  <2> HIDE DEF Before
  <2>2. Cardinality(S0) <= Cardinality(Before)
    BY <2>1, FiniteIds, FS_Subset
  <2>3. Cardinality(S0) \in Nat /\ Cardinality(Before) \in Nat
    BY <2>1, FiniteIds
  <2>4. Cardinality(Before) \in 0 .. Cardinality(S) - 1
    BY RankBounded DEF Rank, Before
  <2>5. Cardinality(Before) \in Cardinality(S0) .. Cardinality(S) - 1
    BY <2>2, <2>3, <2>4
  <2> QED
    BY <2>5 DEF Slice, Before
<1> QED
  BY <1>1, <1>2

LEMMA TargetType ==
  ASSUME TypeOK
  PROVE  TargetCount \in Nat
<1>1. /\ request.count \in Int /\ request.min \in Nat /\ request.max \in Nat
      /\ request.fixed \in BOOLEAN /\ request.fixed => request.count >= 0
  BY ParameterAssumption DEF TypeOK, NoRequest
<1>2. InitialCount \in Nat
  BY FiniteIds DEF TypeOK, InitialCount
<1> QED
  BY <1>1, <1>2 DEF TargetCount

(***************************************************************************)
(* Types                                                                   *)
(***************************************************************************)

LEMMA FailsType ==
  ASSUME TypeOK, Fails \/ UNCHANGED faults
  PROVE  faults' \in 0 .. MaxFaults
  BY ParameterAssumption DEF TypeOK, Fails

LEMMA NextTypes ==
  ASSUME TypeOK, AllocateInv, ConstructInv, [Next]_vars
  PROVE  TypeOK'
<1> USE DEF clusterVars, buildVars, graphVars, boundVars
<1>1. CASE Tick
  BY <1>1, ParameterAssumption DEF TypeOK, Tick
<1>2. CASE Interrupt
  <2>1. stops' \in 0 .. MaxStops
    BY <1>2, ParameterAssumption DEF TypeOK, Interrupt
  <2> QED
    BY <1>2, <2>1 DEF TypeOK, Interrupt
<1>3. ASSUME NEW r \in Requests, Begin(r)
      PROVE  TypeOK'
  <2>1. started' \in 0 .. MaxDeployments
    BY <1>3, ParameterAssumption DEF TypeOK, Begin
  <2> QED
    BY <1>3, <2>1 DEF TypeOK, Begin
<1>4. CASE ReuseReplica
  <2>1. Oldest(unused) \in unused
    BY <1>4, OldestExists DEF TypeOK, ReuseReplica
  <2> QED
    BY <1>4, <2>1 DEF TypeOK, ReuseReplica
<1>5. ASSUME NEW i \in Ids, CreateReplica(i)
      PROVE  TypeOK'
  <2>1. clock \in -1 .. MaxTime + 1 /\ clock # -1
    BY ParameterAssumption DEF TypeOK
  <2>2. /\ born' \in [Ids -> -1 .. MaxTime + 1]
        /\ replicas' \subseteq {j \in Ids : born'[j] # -1} /\ deployed' \subseteq replicas'
    BY <1>5, <2>1 DEF TypeOK, CreateReplica
  <2>3. pc' \in {"allocate", "young"} /\ adjusted' \subseteq Ids /\ young' \subseteq Ids
    BY <1>5 DEF TypeOK, CreateReplica, Wanting
  <2> QED
    BY <1>5, <2>2, <2>3 DEF TypeOK, CreateReplica
<1>6. CASE CreateReplicaFails
  BY <1>6, FailsType DEF TypeOK, CreateReplicaFails
<1>7. CASE DiscardYoung
  <2>1. clock' \in 0 .. MaxTime + 1
    BY <1>7, ParameterAssumption DEF TypeOK, DiscardYoung
  <2>2. faults' \in 0 .. MaxFaults
    BY <1>7, FailsType DEF DiscardYoung
  <2>3. replicas' \subseteq replicas /\ deployed \subseteq replicas'
    BY <1>7 DEF DiscardYoung, AllocateInv, TypeOK
  <2> QED
    BY <1>7, <2>1, <2>2, <2>3 DEF TypeOK, DiscardYoung, WithoutYoung
<1>8. CASE Allocated
  BY <1>8 DEF TypeOK, Allocated
<1>9. ASSUME NEW i \in Ids, DeleteUnused(i)
      PROVE  TypeOK'
  <2>1. faults' \in 0 .. MaxFaults
    BY <1>9, FailsType DEF DeleteUnused
  <2>2. replicas' \subseteq replicas /\ deployed \subseteq replicas'
    BY <1>9 DEF DeleteUnused, Leftovers, AllocateInv, TypeOK
  <2> QED
    BY <1>9, <2>1, <2>2 DEF TypeOK, DeleteUnused
<1>10. CASE Build
  <2>1. construct' \subseteq Ids /\ destruct' \subseteq Ids
    BY <1>10 DEF TypeOK, Build, Slice, NewReplicas
  <2>2. graph' \subseteq Ids \cup {Shared} /\ pending' = graph'
    BY <1>10, <2>1 DEF Build, GraphsOf
  <2> QED
    BY <1>10, <2>1, <2>2 DEF TypeOK, Build
<1>11. ASSUME NEW r \in Ids \cup {Shared}, DeployResource(r)
       PROVE  TypeOK'
  <2>1. faults' \in 0 .. MaxFaults
    BY <1>11, FailsType DEF DeployResource
  <2>2. resources' \subseteq Ids \cup {Shared} /\ dropped' \subseteq Ids \cup {Shared}
    BY <1>11 DEF TypeOK, DeployResource
  <2> QED
    BY <1>11, <2>1, <2>2 DEF TypeOK, DeployResource
<1>12. CASE Finalize
  BY <1>12 DEF TypeOK, Finalize
<1>13. ASSUME NEW i \in Ids, Acknowledge(i)
       PROVE  TypeOK'
  <2>1. faults' \in 0 .. MaxFaults
    BY <1>13, FailsType DEF Acknowledge
  <2>2. i \in replicas
    BY <1>13 DEF Acknowledge, ConstructInv
  <2> QED
    BY <1>13, <2>1, <2>2 DEF TypeOK, Acknowledge
<1>14. ASSUME NEW r \in Ids \cup {Shared}, DestroyResource(r)
       PROVE  TypeOK'
  <2>1. faults' \in 0 .. MaxFaults
    BY <1>14, FailsType DEF DestroyResource
  <2>2. failed' \subseteq Ids /\ resources' \cup dropped' \subseteq Ids \cup {Shared}
    BY <1>14 DEF TypeOK, DestroyResource, ReportedTo
  <2> QED
    BY <1>14, <2>1, <2>2 DEF TypeOK, DestroyResource
<1>15. CASE Destroyed
  BY <1>15 DEF TypeOK, Destroyed
<1>16. ASSUME NEW i \in Ids, ForgetReplica(i)
       PROVE  TypeOK'
  <2>1. faults' \in 0 .. MaxFaults
    BY <1>16, FailsType DEF ForgetReplica
  <2>2. /\ replicas' \subseteq {j \in Ids : born[j] # -1} /\ deployed' \subseteq replicas'
        /\ failed' \subseteq Ids
    BY <1>16 DEF TypeOK, ForgetReplica
  <2> QED
    BY <1>16, <2>1, <2>2 DEF TypeOK, ForgetReplica
<1>17. CASE Done
  BY <1>17 DEF TypeOK, Done
<1>18. CASE UNCHANGED vars
  BY <1>18 DEF TypeOK, vars
<1> QED
  BY <1>1, <1>2, <1>3, <1>4, <1>5, <1>6, <1>7, <1>8, <1>9, <1>10, <1>11, <1>12, <1>13, <1>14,
     <1>15, <1>16, <1>17, <1>18 DEF Next, Allocate, Deploy, Finalizer

(***************************************************************************)
(* Steps                                                                   *)
(***************************************************************************)

Invariant == TypeOK /\ ReplicaInv

LEMMA PlanFrame ==
  ASSUME UNCHANGED <<request, counted, seen, born>>
  PROVE  TargetCount' = TargetCount /\ DeployedFirst' = DeployedFirst
  BY DEF TargetCount, InitialCount, DeployedFirst, Less

LEMMA AllocateSteps ==
  ASSUME Invariant,
         ReuseReplica \/ (\E i \in Ids : CreateReplica(i)) \/ DiscardYoung \/ Allocated
           \/ (\E i \in Ids : DeleteUnused(i))
  PROVE  ReplicaInv'
<1> USE DEF clusterVars, buildVars, graphVars, boundVars
<1>1. pc' \in {"allocate", "young", "cleanup"}
  BY DEF ReuseReplica, CreateReplica, Wanting, DiscardYoung, Allocated, DeleteUnused
<1>2. PlanInv' /\ ConstructInv' /\ DestructInv'
  BY <1>1 DEF PlanInv, ConstructInv, DestructInv
<1>3. pc \in {"allocate", "young", "cleanup"}
  BY DEF ReuseReplica, CreateReplica, Wanting, DiscardYoung, Allocated, DeleteUnused
<1>4. TargetCount' = TargetCount
  BY DEF ReuseReplica, CreateReplica, DiscardYoung, Allocated, DeleteUnused, TargetCount,
         InitialCount
<1>5. IsFiniteSet(adjusted) /\ Cardinality(adjusted) \in Nat /\ TargetCount \in Nat
  BY FiniteIds, TargetType DEF Invariant, TypeOK
<1>6. ASSUME NEW x, Wanting, x \notin adjusted
      PROVE  Cardinality(adjusted \cup {x}) <= TargetCount
  <2>1. Cardinality(adjusted \cup {x}) = Cardinality(adjusted) + 1
    BY <1>5, <1>6, FS_AddElement
  <2> QED
    BY <1>5, <1>6, <2>1 DEF Wanting
<1>7. CASE ReuseReplica
  <2>1. Oldest(unused) \in unused /\ Oldest(unused) \notin adjusted
    BY <1>3, <1>7, OldestExists DEF Invariant, TypeOK, ReplicaInv, AllocateInv, ReuseReplica
  <2>2. Cardinality(adjusted') <= TargetCount
    BY <1>6, <1>7, <2>1 DEF ReuseReplica
  <2>3. AllocateInv'
    BY <1>3, <1>4, <1>7, <2>1, <2>2 DEF Invariant, ReplicaInv, AllocateInv, ReuseReplica, Wanting
  <2>4. SeenInv'
    BY <1>7 DEF Invariant, ReplicaInv, SeenInv, ReuseReplica
  <2> QED
    BY <1>2, <2>3, <2>4 DEF ReplicaInv
<1>8. ASSUME NEW i \in Ids, CreateReplica(i)
      PROVE  ReplicaInv'
  <2>1. /\ i \notin replicas /\ i \notin seen
        /\ \A j \in Ids \ {i} : born'[j] = born[j]
        /\ born'[i] = clock /\ clock # -1
    BY <1>8, ParameterAssumption DEF Invariant, TypeOK, ReplicaInv, SeenInv, CreateReplica
  <2>2. SeenInv'
    BY <1>8, <2>1 DEF Invariant, TypeOK, ReplicaInv, SeenInv, CreateReplica
  <2>3. i \notin adjusted /\ i \notin unused
    BY <1>3, <2>1 DEF Invariant, ReplicaInv, AllocateInv
  <2>4. Cardinality(adjusted \cup {i}) <= TargetCount
    BY <1>6, <1>8, <2>3 DEF CreateReplica
  <2>5. \A j \in adjusted' \ counted : j \in seen \/ \A k \in seen : born'[k] < born'[j]
    <3>1. \A j \in adjusted \cup seen : j # i /\ j \in Ids
      BY <2>1, <2>3 DEF Invariant, TypeOK
    <3>2. \A j \in adjusted \cup seen : born'[j] = born[j]
      BY <2>1, <3>1
    <3>3. \A j \in adjusted \ counted : j \in seen \/ \A k \in seen : born[k] < born[j]
      BY <1>3 DEF Invariant, ReplicaInv, AllocateInv
    <3>4. i \in adjusted' => \A k \in seen : born[k] < clock
      BY <1>8, <2>3 DEF CreateReplica
    <3>5. adjusted' \subseteq adjusted \cup {i}
      BY <1>8 DEF CreateReplica
    <3> QED
      BY <2>1, <3>2, <3>3, <3>4, <3>5
  <2>6. AllocateInv'
    BY <1>3, <1>4, <1>8, <2>1, <2>3, <2>4, <2>5
       DEF Invariant, ReplicaInv, AllocateInv, CreateReplica, Wanting
  <2> QED
    BY <1>2, <2>2, <2>6 DEF ReplicaInv
<1>9. CASE DiscardYoung
  <2>1. AllocateInv'
    BY <1>3, <1>4, <1>9 DEF Invariant, ReplicaInv, AllocateInv, DiscardYoung, WithoutYoung
  <2>2. SeenInv'
    BY <1>9 DEF Invariant, ReplicaInv, SeenInv, DiscardYoung
  <2> QED
    BY <1>2, <2>1, <2>2 DEF ReplicaInv
<1>10. CASE Allocated
  <2>1. AllocateInv'
    BY <1>3, <1>4, <1>10 DEF Invariant, ReplicaInv, AllocateInv, Allocated
  <2>2. SeenInv'
    BY <1>10 DEF Invariant, ReplicaInv, SeenInv, Allocated
  <2> QED
    BY <1>2, <2>1, <2>2 DEF ReplicaInv
<1>11. ASSUME NEW i \in Ids, DeleteUnused(i)
       PROVE  ReplicaInv'
  <2>1. AllocateInv'
    BY <1>3, <1>4, <1>11 DEF Invariant, ReplicaInv, AllocateInv, DeleteUnused, Leftovers
  <2>2. SeenInv'
    BY <1>11 DEF Invariant, ReplicaInv, SeenInv, DeleteUnused
  <2> QED
    BY <1>2, <2>1, <2>2 DEF ReplicaInv
<1> QED
  BY <1>7, <1>8, <1>9, <1>10, <1>11

\* The adjusted list is cut so that the number asked for comes out.
LEMMA BuildStep ==
  ASSUME Invariant, Build
  PROVE  ReplicaInv'
<1> USE DEF clusterVars, buildVars, graphVars, boundVars
<1> DEFINE target == TargetCount
           initial == Cardinality(counted)
           n == Cardinality(adjusted)
<1>1. pc = "cleanup" /\ pc' = "deploy" /\ pending' = graph' /\ InitialCount = initial
  BY DEF Build, InitialCount
<1>2. /\ deployed = counted /\ counted \subseteq adjusted /\ adjusted \subseteq replicas
      /\ \A j \in adjusted \ counted : j \in seen \/ \A i \in seen : born[i] < born[j]
      /\ adjusted # counted => n <= target
      /\ n >= target
  BY <1>1 DEF Invariant, ReplicaInv, AllocateInv
<1>3. adjusted \in SUBSET Ids /\ counted \in SUBSET Ids /\ TypeOK
  BY DEF Invariant, TypeOK
<1>4. target \in Nat /\ initial \in Nat /\ n \in Nat /\ initial <= n
  BY <1>2, <1>3, TargetType, FiniteIds, FS_Subset
<1>5. TargetCount' = target /\ DeployedFirst' = DeployedFirst
  BY PlanFrame DEF Build
<1>6. SeenInv'
  BY DEF Build, Invariant, ReplicaInv, SeenInv
<1>7. /\ UNCHANGED <<counted, deployed, replicas, resources>>
      /\ target < initial => construct' = {} /\ destruct' = Slice(adjusted, target, initial)
      /\ target >= initial =>
           /\ destruct' = {}
           /\ construct' \in {Slice(adjusted, initial, target), Slice(adjusted, 0, target)}
  BY <1>1, <1>4 DEF Build, NewReplicas
<1>10. graph' \in GraphsOf(construct', destruct')
  BY DEF Build
<1> HIDE DEF target, initial, n
<1>8. CASE target < initial
  <2>1. adjusted = counted /\ n = initial
    BY <1>2, <1>4, <1>8 DEF n, initial
  <2>2. destruct' \subseteq counted /\ Cardinality(destruct') = initial - target
    BY <1>3, <1>4, <1>7, <1>8, <2>1, SliceLength DEF initial
  <2>3. destruct' # {}
    BY <1>4, <1>8, <2>2, FS_EmptySet
  <2>4. Cardinality(counted \ destruct') = target
    <3>1. counted \cap destruct' = destruct'
      BY <2>2
    <3>2. Cardinality(counted \ destruct') = Cardinality(counted) - Cardinality(counted \cap destruct')
      BY <1>3, FiniteIds, FS_Difference
    <3> QED
      BY <1>4, <2>2, <3>1, <3>2 DEF initial
  <2>5. construct' = {} /\ graph' \subseteq {Shared}
    BY <1>7, <1>8, <1>10, <2>3 DEF GraphsOf
  <2>6. PlanInv'
    BY <1>5, <1>7, <2>2, <2>3, <2>4, <2>5 DEF PlanInv
  <2>7. AllocateInv' /\ ConstructInv' /\ DestructInv'
    BY <1>1, <1>2, <1>7, <2>5 DEF AllocateInv, ConstructInv, DestructInv
  <2> QED
    BY <1>6, <2>6, <2>7 DEF ReplicaInv
<1>9. CASE target >= initial
  <2>1. n = target
    BY <1>2, <1>4, <1>9 DEF n, initial
  <2>2. destruct' = {} /\ construct' \subseteq adjusted
    BY <1>7, <1>9 DEF Slice
  <2>3. ASSUME DeployedFirst
        PROVE  counted \cup construct' = adjusted
    <3>1. ASSUME NEW i \in counted, NEW j \in adjusted \ counted
          PROVE  Less(i, j)
      <4>1. i \in seen
        BY DEF Invariant, ReplicaInv, SeenInv
      <4> QED
        BY <1>2, <2>3, <4>1 DEF DeployedFirst, Less
    <3>2. adjusted \ counted \subseteq Slice(adjusted, initial, target)
      BY <1>2, <1>3, <2>1, <3>1, SliceParts DEF n, initial
    <3>3. Slice(adjusted, 0, target) = adjusted
      BY <1>2, <1>3, <2>1, SliceParts DEF n
    <3> QED
      BY <1>2, <1>7, <1>9, <2>2, <3>2, <3>3
  <2>4. PlanInv'
    BY <1>5, <1>7, <2>1, <2>2, <2>3 DEF PlanInv, n
  <2>5. construct' # {} => graph' = construct' \cup {Shared}
    BY <1>10, <2>2 DEF GraphsOf
  <2>6. AllocateInv' /\ ConstructInv' /\ DestructInv'
    BY <1>1, <1>2, <1>7, <2>2, <2>5 DEF AllocateInv, ConstructInv, DestructInv
  <2> QED
    BY <1>6, <2>4, <2>6 DEF ReplicaInv
<1> QED
  BY <1>4, <1>8, <1>9

LEMMA ConstructSteps ==
  ASSUME Invariant,
         (\E r \in Ids \cup {Shared} : DeployResource(r)) \/ Finalize \/ (\E i \in Ids : Acknowledge(i))
  PROVE  ReplicaInv'
<1> USE DEF clusterVars, buildVars, graphVars, boundVars
<1>1. /\ pc \in {"deploy", "acknowledge"} /\ pc' \in {"deploy", "acknowledge", "destroy"}
      /\ UNCHANGED <<request, counted, seen, born, construct, destruct, replicas>>
  BY DEF DeployResource, Finalize, Acknowledge
<1>2. TargetCount' = TargetCount /\ DeployedFirst' = DeployedFirst
  BY <1>1, PlanFrame
<1>3. SeenInv' /\ AllocateInv'
  BY <1>1 DEF Invariant, ReplicaInv, SeenInv, AllocateInv
<1>4. PlanInv'
  BY <1>1, <1>2 DEF Invariant, ReplicaInv, PlanInv
<1>5. ConstructInv' /\ DestructInv'
  <2>1. ASSUME NEW r \in Ids \cup {Shared}, DeployResource(r)
        PROVE  ConstructInv' /\ DestructInv'
    BY <2>1 DEF Invariant, ReplicaInv, ConstructInv, DestructInv, DeployResource
  <2>2. CASE Finalize /\ destruct # {}
    <3>1. 0 \notin destruct /\ destruct \subseteq pending'
      BY <2>2, ParameterAssumption DEF Invariant, TypeOK, Finalize, UsedHereOnly, Shared
    <3>2. /\ pc' = "destroy" /\ pending' \subseteq destruct \cup {Shared}
          /\ Shared \in pending' => replicas \subseteq destruct \/ Shared \in graph
          /\ replicas \subseteq destruct => Shared \in pending'
          /\ destruct \subseteq condemned'
      BY <2>2 DEF Finalize, UsedHereOnly
    <3> QED
      BY <2>2, <3>1, <3>2 DEF Invariant, ReplicaInv, ConstructInv, DestructInv, Finalize
  <2>3. CASE Finalize /\ destruct = {}
    BY <2>3 DEF Invariant, ReplicaInv, ConstructInv, DestructInv, Finalize
  <2>4. ASSUME NEW i \in Ids, Acknowledge(i)
        PROVE  ConstructInv' /\ DestructInv'
    BY <2>4 DEF Invariant, ReplicaInv, ConstructInv, DestructInv, Acknowledge
  <2> QED
    BY <2>1, <2>2, <2>3, <2>4
<1> QED
  BY <1>3, <1>4, <1>5 DEF ReplicaInv

LEMMA DestructSteps ==
  ASSUME Invariant,
         (\E r \in Ids \cup {Shared} : DestroyResource(r)) \/ Destroyed
           \/ (\E i \in Ids : ForgetReplica(i))
  PROVE  ReplicaInv'
<1> USE DEF clusterVars, buildVars, graphVars, boundVars
<1>1. /\ pc \in {"destroy", "forget"} /\ pc' \in {"destroy", "forget"}
      /\ UNCHANGED <<request, counted, seen, born, construct, destruct, condemned>>
  BY DEF DestroyResource, Destroyed, ForgetReplica
<1>2. TargetCount' = TargetCount /\ DeployedFirst' = DeployedFirst
  BY <1>1, PlanFrame
<1>3. SeenInv' /\ AllocateInv' /\ ConstructInv'
  BY <1>1 DEF Invariant, ReplicaInv, SeenInv, AllocateInv, ConstructInv
<1>4. PlanInv'
  BY <1>1, <1>2 DEF Invariant, ReplicaInv, PlanInv
<1>5. DestructInv'
  <2>1. ASSUME NEW r \in Ids \cup {Shared}, DestroyResource(r)
        PROVE  DestructInv'
    <3>1. r \in destruct => r \in failed' \/ r \notin resources'
      <4>1. r \in destruct => r # Shared
        BY ParameterAssumption DEF Invariant, TypeOK
      <4> QED
        BY <2>1, <4>1 DEF DestroyResource, ReportedTo
    <3>2. failed \subseteq failed' /\ resources' \subseteq resources
      BY <2>1 DEF DestroyResource
    <3>3. r = Shared => destruct \subseteq failed' \/ Shared \notin resources'
      BY <2>1 DEF DestroyResource, ReportedTo
    <3> QED
      BY <2>1, <3>1, <3>2, <3>3 DEF Invariant, ReplicaInv, DestructInv, DestroyResource
  <2>2. CASE Destroyed
    BY <2>2 DEF Invariant, ReplicaInv, PlanInv, DestructInv, Destroyed
  <2>3. ASSUME NEW i \in Ids, ForgetReplica(i)
        PROVE  DestructInv'
    BY <2>3 DEF Invariant, ReplicaInv, DestructInv, ForgetReplica
  <2> QED
    BY <2>1, <2>2, <2>3
<1> QED
  BY <1>3, <1>4, <1>5 DEF ReplicaInv

LEMMA NextReplicas ==
  ASSUME Invariant, [Next]_vars
  PROVE  Invariant'
<1> USE DEF clusterVars, buildVars, graphVars, boundVars
<1>1. TypeOK'
  BY NextTypes DEF Invariant, ReplicaInv
<1>2. CASE Tick \/ UNCHANGED vars
  <2>1. UNCHANGED <<replicas, born, deployed, resources, pc, buildVars, graphVars, condemned,
                    dropped>>
    BY <1>2 DEF Tick, vars
  <2>2. TargetCount' = TargetCount /\ DeployedFirst' = DeployedFirst
    BY <2>1, PlanFrame
  <2> QED
    BY <1>1, <2>1, <2>2 DEF Invariant, ReplicaInv, SeenInv, AllocateInv, PlanInv, ConstructInv,
                            DestructInv
<1>3. CASE Interrupt \/ CreateReplicaFails \/ Done
  <2>1. pc' \in {"idle", "success"} /\ UNCHANGED <<counted, seen, born>>
    BY <1>3 DEF Interrupt, CreateReplicaFails, Done
  <2> QED
    BY <1>1, <2>1 DEF Invariant, ReplicaInv, SeenInv, AllocateInv, PlanInv, ConstructInv,
                      DestructInv
<1>4. ASSUME NEW r \in Requests, Begin(r)
      PROVE  Invariant'
  <2>1. SeenInv' /\ AllocateInv'
    BY <1>4 DEF Invariant, TypeOK, SeenInv, AllocateInv, Begin
  <2> QED
    BY <1>1, <1>4, <2>1 DEF Invariant, ReplicaInv, PlanInv, ConstructInv, DestructInv, Begin
<1>5. CASE ReuseReplica \/ (\E i \in Ids : CreateReplica(i)) \/ DiscardYoung \/ Allocated
             \/ (\E i \in Ids : DeleteUnused(i))
  BY <1>1, <1>5, AllocateSteps DEF Invariant
<1>6. CASE Build
  BY <1>1, <1>6, BuildStep DEF Invariant
<1>7. CASE (\E r \in Ids \cup {Shared} : DeployResource(r)) \/ Finalize \/ (\E i \in Ids : Acknowledge(i))
  BY <1>1, <1>7, ConstructSteps DEF Invariant
<1>8. CASE (\E r \in Ids \cup {Shared} : DestroyResource(r)) \/ Destroyed
             \/ (\E i \in Ids : ForgetReplica(i))
  BY <1>1, <1>8, DestructSteps DEF Invariant
<1> QED
  BY <1>2, <1>3, <1>4, <1>5, <1>6, <1>7, <1>8 DEF Next, Allocate, Deploy, Finalizer

LEMMA InitReplicas == Init => Invariant
<1> SUFFICES ASSUME Init
             PROVE  Invariant
  OBVIOUS
<1>1. /\ 0 \in 0 .. MaxTime + 1 /\ -1 \in -1 .. MaxTime + 1 /\ 0 \in 0 .. MaxDeployments
      /\ 0 \in 0 .. MaxFaults /\ 0 \in 0 .. MaxStops
  BY ParameterAssumption
<1>2. TypeOK
  BY <1>1 DEF Init, TypeOK
<1> QED
  BY <1>2 DEF Init, Invariant, ReplicaInv, SeenInv, AllocateInv, PlanInv, ConstructInv, DestructInv

LEMMA ReplicaInvariant == Spec => []Invariant
<1>1. Init => Invariant
  BY InitReplicas
<1>2. Invariant /\ [Next]_vars => Invariant'
  BY NextReplicas
<1> QED
  BY <1>1, <1>2, PTL DEF Spec

(***************************************************************************)
(* Theorems                                                                *)
(***************************************************************************)

\* Type correctness; among it, that only replicas with a record are deployed,
\* and that the target count of allocateReplicas is never negative.
THEOREM ReplicaTypesCorrect == Spec => []TypeOK
<1>1. Invariant => TypeOK
  BY DEF Invariant
<1> QED
  BY <1>1, ReplicaInvariant, PTL

LEMMA NextIntact ==
  ASSUME Invariant, DeployedIntact, [Next]_vars
  PROVE  DeployedIntact'
<1> USE DEF clusterVars, buildVars, graphVars, boundVars
<1>1. ASSUME NEW i \in Ids, Acknowledge(i)
      PROVE  DeployedIntact'
  <2>1. {i, Shared} \subseteq resources \cup dropped
    BY <1>1 DEF Invariant, ReplicaInv, ConstructInv, Acknowledge
  <2>2. deployed' \subseteq deployed \cup {i} /\ UNCHANGED <<resources, dropped, condemned>>
    BY <1>1 DEF Acknowledge
  <2> QED
    BY <2>1, <2>2 DEF DeployedIntact
<1>2. ASSUME NEW r \in Ids \cup {Shared}, DestroyResource(r)
      PROVE  DeployedIntact'
  <2>1. /\ pending \subseteq destruct \cup {Shared} /\ destruct \subseteq condemned
        /\ Shared \in pending => replicas \subseteq destruct \/ Shared \in graph
        /\ r \in pending /\ deployed \subseteq replicas
    BY <1>2 DEF Invariant, TypeOK, ReplicaInv, DestructInv, DestroyResource
  <2>2. /\ resources \ {r} \subseteq resources' /\ dropped \subseteq dropped'
        /\ r \in graph => r \in resources' \cup dropped' \/ r \notin resources
        /\ UNCHANGED <<deployed, condemned>>
    BY <1>2 DEF DestroyResource
  <2>3. CASE r = Shared
    BY <2>1, <2>2, <2>3 DEF DeployedIntact
  <2>4. CASE r # Shared
    BY <2>1, <2>2, <2>4 DEF DeployedIntact
  <2> QED
    BY <2>3, <2>4
<1>3. ASSUME deployed' \subseteq deployed, resources \cup dropped \subseteq resources' \cup dropped',
             condemned \subseteq condemned'
      PROVE  DeployedIntact'
  BY <1>3 DEF DeployedIntact
<1>4. CASE Tick \/ Interrupt \/ (\E r \in Requests : Begin(r)) \/ Allocate \/ Deploy
  BY <1>3, <1>4 DEF Tick, Interrupt, Begin, Allocate, ReuseReplica, CreateReplica,
                    CreateReplicaFails, DiscardYoung, Allocated, DeleteUnused, Build, Deploy,
                    DeployResource, Finalize
<1>5. CASE (\E i \in Ids : ForgetReplica(i)) \/ Destroyed \/ Done \/ UNCHANGED vars
  BY <1>3, <1>5 DEF ForgetReplica, Destroyed, Done, vars
<1> QED
  BY <1>1, <1>2, <1>4, <1>5 DEF Next, Finalizer

\* A deployed replica keeps its resources, the one it shares with the others
\* included, until its own destruction begins: getResourceDestructors picks what
\* no other replica uses, or what is in the destruction graph, and a replica is
\* acknowledged when all its resources have been created or given up.
THEOREM DeployedStayIntact == Spec => []DeployedIntact
<1>1. Init => DeployedIntact
  BY DEF Init, DeployedIntact
<1>2. Invariant /\ DeployedIntact /\ [Next]_vars => DeployedIntact'
  BY NextIntact
<1> QED
  BY <1>1, <1>2, ReplicaInvariant, PTL DEF Spec

\* The record of a deployed replica is deleted only when its resource is gone,
\* and the last one only when the shared resource is gone, too, whichever calls of getDestructorFunc failed or were cut off by a crash.
THEOREM RecordsOutliveResources == Spec => RecordOutlivesResource
<1> DEFINE Kept == \A i \in deployed \ replicas' :
                     i \notin resources /\ (replicas' = {} => Shared \notin resources)
<1>1. Invariant /\ [Next]_vars => [Kept]_vars
  <2> SUFFICES ASSUME Invariant, Next, NEW i \in deployed \ replicas'
               PROVE  i \notin resources /\ (replicas' = {} => Shared \notin resources)
    OBVIOUS
  <2> USE DEF clusterVars, buildVars, graphVars, boundVars
  <2>1. i \in replicas /\ i \in Ids
    BY DEF Invariant, TypeOK
  <2>2. ~DiscardYoung /\ \A j \in Ids : ~DeleteUnused(j)
    BY <2>1 DEF Invariant, ReplicaInv, AllocateInv, DiscardYoung, DeleteUnused, Leftovers
  <2>3. PICK j \in Ids : ForgetReplica(j)
    BY <2>1, <2>2 DEF Next, Tick, Interrupt, Begin, Allocate, ReuseReplica, CreateReplica,
                      CreateReplicaFails, Allocated, Build, Deploy, DeployResource, Finalize,
                      Finalizer, Acknowledge, DestroyResource, Destroyed, Done
  <2>4. i = j /\ j \in pending /\ pc = "forget" /\ replicas \subseteq replicas' \cup {i}
    BY <2>1, <2>3 DEF ForgetReplica
  <2> QED
    BY <2>4 DEF Invariant, ReplicaInv, DestructInv
<1> QED
  BY <1>1, ReplicaInvariant, PTL DEF Spec, RecordOutlivesResource

LEMMA NextCount ==
  ASSUME Invariant, CountReached, [Next]_vars
  PROVE  CountReached'
<1> USE DEF clusterVars, buildVars, graphVars, boundVars
<1>1. SUFFICES ASSUME pc' = "success", DeployedFirst'
               PROVE  Cardinality(deployed') = TargetCount'
  BY DEF CountReached, DeployedFirst
<1>2. UNCHANGED <<request, counted, seen, born, deployed, construct, destruct>>
  BY <1>1 DEF Next, Tick, Interrupt, Begin, Allocate, ReuseReplica, CreateReplica, Wanting,
              CreateReplicaFails, DiscardYoung, Allocated, DeleteUnused, Build, Deploy,
              DeployResource, Finalize, Finalizer, Acknowledge, DestroyResource, Destroyed,
              ForgetReplica, Done, vars
<1>3. TargetCount' = TargetCount /\ DeployedFirst
  BY <1>1, <1>2, PlanFrame
<1>4. CASE pc = "success"
  BY <1>2, <1>3, <1>4 DEF CountReached, DeployedFirst
<1>5. CASE pc # "success"
  <2>1. Done /\ failed = {}
    BY <1>1, <1>5 DEF Next, Tick, Interrupt, Begin, Allocate, ReuseReplica, CreateReplica, Wanting,
                      CreateReplicaFails, DiscardYoung, Allocated, DeleteUnused, Build, Deploy,
                      DeployResource, Finalize, Finalizer, Acknowledge, DestroyResource, Destroyed,
                      ForgetReplica, Done, vars
  <2>2. pc \in {"acknowledge", "forget"} /\ pending = {}
    BY <2>1 DEF Done
  <2>3. CASE pc = "acknowledge"
    <3>1. deployed = counted \cup construct /\ destruct = {}
      BY <2>1, <2>2, <2>3 DEF Invariant, ReplicaInv, ConstructInv
    <3> QED
      BY <1>2, <1>3, <2>3, <3>1 DEF Invariant, ReplicaInv, PlanInv
  <2>4. CASE pc = "forget"
    <3>1. deployed = counted \ destruct /\ destruct # {}
      BY <2>1, <2>2, <2>4 DEF Invariant, ReplicaInv, DestructInv
    <3> QED
      BY <1>2, <1>3, <2>4, <3>1 DEF Invariant, ReplicaInv, PlanInv
  <2> QED
    BY <2>2, <2>3, <2>4
<1> QED
  BY <1>4, <1>5

\* A deployment that ends without a failure leaves the number of deployed
\* replicas that targetCount works out, for any request and whatever runs before
\* it were interrupted, unless one of them left a replica that was never
\* acknowledged and is older than a deployed one (allocateReplicas cuts its sorted
\* list at a number, which then falls between the wrong two).
THEOREM CountAlwaysReached == Spec => []CountReached
<1>1. Init => CountReached
  BY DEF Init, CountReached
<1>2. Invariant /\ CountReached /\ [Next]_vars => CountReached'
  BY NextCount
<1> QED
  BY <1>1, <1>2, ReplicaInvariant, PTL DEF Spec
=============================================================================
