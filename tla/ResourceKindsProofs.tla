------------------------- MODULE ResourceKindsProofs -------------------------
(***************************************************************************)
(* One object and the workers that own it, for every kind, any number of   *)
(* workers, attempts and failures: what success means, that a race does not*)
(* end with the object gone, and that deploying again deletes nothing that *)
(* is healthy.                                                             *)
(***************************************************************************)
EXTENDS ResourceKinds, TLAPS, FiniteSetTheorems

(***************************************************************************)
(* Types                                                                   *)
(***************************************************************************)

WorkersOK ==
  /\ wpc \in [Workers -> {"off", "look", "create", "wait", "delete", "done", "failed"}]
  /\ attempt \in [Workers -> 1 .. Attempts]

ObjOK == obj \in Object

LEMMA PartsFinite ==
  /\ IsFiniteSet(Parts) /\ Cardinality(Parts) = Size
  /\ \A S \in SUBSET Parts : IsFiniteSet(S) /\ Cardinality(S) \in 0 .. Size
<1>1. Size \in Nat /\ 1 \in Int /\ Size \in Int
  BY SizeAssumption
<1>2. IsFiniteSet(Parts) /\ Cardinality(Parts) = Size
  BY <1>1, FS_Interval DEF Parts
<1>3. ASSUME NEW S \in SUBSET Parts
      PROVE  IsFiniteSet(S) /\ Cardinality(S) \in 0 .. Size
  <2>1. IsFiniteSet(S) /\ Cardinality(S) <= Size
    BY <1>2, FS_Subset
  <2>2. Cardinality(S) \in Nat
    BY <2>1, FS_CardinalityType
  <2> QED
    BY <1>1, <2>1, <2>2
<1> QED
  BY <1>2, <1>3

LEMMA OwnParts == Own \subseteq Parts
  BY SizeAssumption DEF Own, Parts

\* What Kubernetes publishes fits into an object's counters.
LEMMA CountersType ==
  ASSUME NEW parts \in [Parts -> {"none", "pending", "ready"}]
  PROVE  Counters(parts) \in [desired : 0 .. Size, current : 0 .. Size, ready : 0 .. Size]
<1>1. /\ {i \in Own : parts[i] # "none"} \in SUBSET Parts
      /\ {i \in Own : parts[i] = "ready"} \in SUBSET Parts
      /\ Own \in SUBSET Parts
  BY OwnParts
<1> QED
  BY <1>1, PartsFinite DEF Counters

(***************************************************************************)
(* Kinds                                                                   *)
(***************************************************************************)

LEMMA ResourceOf ==
  ASSUME NEW o
  PROVE  /\ Resource("pod", o) = pod(o)
         /\ Resource("job", o) = job(o)
         /\ Resource("persistentvolumeclaim", o) = persistentVolumeClaim(o)
         /\ Resource("replicaset", o) = replicaSet(o, 100)
         /\ Resource("deployment", o) = deployment(o)
         /\ Resource("daemonset", o) = daemonSet(o)
         /\ Resource("petset", o) = petSet(o)
         /\ Resource("statefulset", o) = statefulSet(o)
         /\ Resource("service", o) = service(o)
         /\ Resource("configmap", o) = configMap(o)
         /\ Resource("secret", o) = secret(o)
         /\ Resource("serviceaccount", o) = serviceAccount(o)
         /\ Resource("void", o) = void(o)
  BY DEF Resource

Lasting == KindToResourceTemplate \ {"void"}

\* The wrapper of a kind is made from its status; three kinds change a field.
LEMMA UsualFields ==
  ASSUME NEW s
  PROVE  /\ Usual(s).status = s
         /\ Usual(s).create = CreateIfMissing(s)
         /\ Usual(s).adopt = FailIfMissing(s)
  BY DEF Usual

LEMMA StatusOf ==
  ASSUME NEW o
  PROVE  /\ Resource("pod", o).status = podStatus(o)
         /\ Resource("job", o).status = jobStatus(o)
         /\ Resource("persistentvolumeclaim", o).status = persistentVolumeClaimStatus(o)
         /\ Resource("replicaset", o).status = replicaSetStatus(o, 100)
         /\ Resource("deployment", o).status = deploymentStatus(o)
         /\ Resource("daemonset", o).status = daemonSetStatus(o)
         /\ Resource("petset", o).status = petsetStatus(o)
         /\ Resource("statefulset", o).status = statefulsetStatus(o)
         /\ Resource("service", o).status = serviceStatus(o)
         /\ Resource("configmap", o).status = configMapStatus(o)
         /\ Resource("secret", o).status = secretStatus(o)
         /\ Resource("serviceaccount", o).status = serviceAccountStatus(o)
<1>1. /\ replicaSet(o, 100).status = replicaSetStatus(o, 100)
      /\ deployment(o).status = deploymentStatus(o)
      /\ service(o).status = serviceStatus(o)
  BY DEF replicaSet, deployment, service, Usual
<1> QED
  BY <1>1, UsualFields, ResourceOf
     DEF pod, job, persistentVolumeClaim, daemonSet, petSet, statefulSet, configMap, secret,
         serviceAccount

LEMMA CreateOf ==
  ASSUME NEW o
  PROVE  \A k \in Lasting :
           \/ Resource(k, o).create = CreateIfMissing(Resource(k, o).status)
           \/ Resource(k, o).create = "create"
<1>1. /\ replicaSet(o, 100).create = CreateIfMissing(replicaSetStatus(o, 100))
      /\ deployment(o).create = "create"
      /\ service(o).create = CreateIfMissing(serviceStatus(o))
  BY DEF replicaSet, deployment, service, Usual
<1>2. \A k \in {"pod", "job", "persistentvolumeclaim", "daemonset"} :
        Resource(k, o).create = CreateIfMissing(Resource(k, o).status)
  BY UsualFields, ResourceOf DEF pod, job, persistentVolumeClaim, daemonSet
<1>3. \A k \in {"petset", "statefulset", "configmap", "secret", "serviceaccount"} :
        Resource(k, o).create = CreateIfMissing(Resource(k, o).status)
  BY UsualFields, ResourceOf DEF petSet, statefulSet, configMap, secret, serviceAccount
<1>4. /\ Resource("replicaset", o).create = CreateIfMissing(Resource("replicaset", o).status)
      /\ Resource("deployment", o).create = "create"
      /\ Resource("service", o).create = CreateIfMissing(Resource("service", o).status)
  BY <1>1, StatusOf, ResourceOf
<1> QED
  BY <1>2, <1>3, <1>4 DEF Lasting, KindToResourceTemplate

\* An object that is not there is an error for every kind but void.
LEMMA MissingIsError ==
  ASSUME NEW o, ~o.present
  PROVE  \A k \in Lasting : Resource(k, o).status = "error"
<1>1. \A b : Found(o, b) = "error"
  BY DEF Found
<1>2. /\ petsetStatus(o) = "error" /\ statefulsetStatus(o) = "error"
      /\ serviceStatus(o) = "error" /\ replicaSetStatus(o, 100) = "error"
  BY <1>1 DEF petsetStatus, statefulsetStatus, serviceStatus, replicaSetStatus
<1>3. /\ podStatus(o) = "error" /\ jobStatus(o) = "error"
      /\ persistentVolumeClaimStatus(o) = "error" /\ deploymentStatus(o) = "error"
      /\ daemonSetStatus(o) = "error" /\ configMapStatus(o) = "error"
      /\ secretStatus(o) = "error" /\ serviceAccountStatus(o) = "error"
  BY <1>1 DEF podStatus, jobStatus, persistentVolumeClaimStatus, deploymentStatus,
     daemonSetStatus, configMapStatus, secretStatus, serviceAccountStatus
<1> QED
  BY <1>2, <1>3, StatusOf DEF Lasting, KindToResourceTemplate

\* Create never ends the worker that looks for an object with a definition.
LEMMA CreateGoesOn ==
  ASSUME NEW o
  PROVE  \A k \in Lasting :
           /\ Resource(k, o).create \in {"keep", "create"}
           /\ Resource(k, o).create = "keep" => Resource(k, o).status # "error"
  BY CreateOf DEF CreateIfMissing

\* What is kept is there.
LEMMA KeptIsPresent ==
  ASSUME NEW o \in Object, NEW k \in Lasting, Resource(k, o).create = "keep"
  PROVE  o.present
  BY MissingIsError, CreateGoesOn DEF Object

(***************************************************************************)
(* The types are kept.                                                     *)
(***************************************************************************)

LEMMA AttemptFailedType ==
  ASSUME NEW w \in Workers, WorkersOK, AttemptFailed(w)
  PROVE  WorkersOK' /\ wpc'[w] \in {"delete", "look", "failed"}
BY AttemptsAssumption DEF WorkersOK, AttemptFailed, MoreAttempts

\* A look costs nothing and shows the object, or fails at the price of a fault.
LEMMA LookResult ==
  ASSUME TypeOK, NEW look \in Looks
  PROVE  \/ look[1] = obj /\ look[2] = 0
         \/ look[1] = Missing(obj) /\ look[2] = 1 /\ faults > 0
BY DEF Looks

LEMMA TypeInit == Init => TypeOK
<1> SUFFICES ASSUME Init PROVE TypeOK
  OBVIOUS
<1>1. ObjOK
  <2>1. PICK present \in BOOLEAN, parts \in [Parts -> {"none", "pending", "ready"}] :
          obj = [present |-> present, parts |-> parts,
                 seen |-> IF present THEN Counters(parts) ELSE Unseen]
    BY DEF Init
  <2>2. Unseen \in [desired : 0 .. Size, current : 0 .. Size, ready : 0 .. Size]
    BY SizeAssumption DEF Unseen
  <2> QED
    BY <2>1, <2>2, CountersType DEF ObjOK, Object
<1>2. WorkersOK
  BY AttemptsAssumption DEF Init, WorkersOK
<1>3. healthy \in BOOLEAN /\ served \in BOOLEAN
  BY DEF Init, Serving
<1> QED
  <2>1. /\ kind \in KindNames /\ external \in BOOLEAN /\ faults = MaxFaults
        /\ crash \in BOOLEAN /\ deleted \in BOOLEAN
    BY DEF Init
  <2> QED
    BY <1>1, <1>2, <1>3, <2>1, MaxFaultsAssumption DEF TypeOK, ObjOK, WorkersOK

LEMMA TypeLook ==
  ASSUME TypeOK, NEW w \in Workers, Look(w)
  PROVE  TypeOK'
<1>1. PICK look \in Looks :
        /\ faults' = faults - look[2]
        /\ \/ wpc' = [wpc EXCEPT ![w] = "wait"] /\ UNCHANGED <<attempt, crash>>
           \/ wpc' = [wpc EXCEPT ![w] = "create"] /\ UNCHANGED <<attempt, crash>>
           \/ AttemptFailed(w) /\ UNCHANGED crash
           \/ crash' = TRUE /\ UNCHANGED <<wpc, attempt>>
  BY DEF Look
<1>2. faults' \in 0 .. MaxFaults
  BY <1>1, LookResult, MaxFaultsAssumption DEF TypeOK
<1>3. WorkersOK' /\ crash' \in BOOLEAN
  BY <1>1, AttemptFailedType DEF WorkersOK, TypeOK, ObjOK
<1> QED
  BY <1>2, <1>3 DEF Look, Fixed, ObjOK, TypeOK, WorkersOK

LEMMA TypeWait ==
  ASSUME TypeOK, NEW w \in Workers, Wait(w)
  PROVE  TypeOK'
<1>1. PICK look \in Looks :
        /\ faults' = faults - look[2]
        /\ \/ wpc' = [wpc EXCEPT ![w] = "done"] /\ UNCHANGED attempt
           \/ AttemptFailed(w)
  BY DEF Wait
<1>2. faults' \in 0 .. MaxFaults
  BY <1>1, LookResult, MaxFaultsAssumption DEF TypeOK
<1>3. WorkersOK'
  BY <1>1, AttemptFailedType DEF WorkersOK, TypeOK, ObjOK
<1> QED
  BY <1>2, <1>3 DEF Wait, Fixed, ObjOK, TypeOK, WorkersOK

LEMMA TypeCreate ==
  ASSUME TypeOK, NEW w \in Workers, Create(w)
  PROVE  TypeOK'
<1>1. Unseen \in [desired : 0 .. Size, current : 0 .. Size, ready : 0 .. Size]
  BY SizeAssumption DEF Unseen
<1>2. ObjOK'
  BY <1>1 DEF TypeOK, Create, ObjOK, Object
<1>3. WorkersOK'
  BY DEF TypeOK, Create, WorkersOK
<1>4. served' \in BOOLEAN
  BY DEF TypeOK, Create, Serving
<1> QED
  BY <1>2, <1>3, <1>4 DEF Create, Fixed, TypeOK, ObjOK, WorkersOK

LEMMA TypeDelete ==
  ASSUME TypeOK, NEW w \in Workers, Delete(w)
  PROVE  TypeOK'
<1>1. Unseen \in [desired : 0 .. Size, current : 0 .. Size, ready : 0 .. Size]
  BY SizeAssumption DEF Unseen
<1>2. NoParts \in [Parts -> {"none", "pending", "ready"}]
  BY DEF NoParts
<1>3. ObjOK' /\ deleted' \in BOOLEAN /\ faults' \in 0 .. MaxFaults
  <2>1. CASE UNCHANGED <<obj, deleted>> /\ faults > 0 /\ faults' = faults - 1
    BY <2>1, MaxFaultsAssumption DEF TypeOK, ObjOK
  <2>2. CASE /\ \E parts \in {obj.parts, NoParts} :
                  obj' = [obj EXCEPT !.present = FALSE, !.parts = parts, !.seen = Unseen]
             /\ deleted' = (deleted \/ obj.present)
             /\ UNCHANGED faults
    <3>1. obj \in Object
      BY DEF TypeOK
    <3>2. obj.parts \in [Parts -> {"none", "pending", "ready"}] /\ obj.present \in BOOLEAN
      BY <3>1 DEF Object
    <3>3. PICK parts \in [Parts -> {"none", "pending", "ready"}] :
            obj' = [obj EXCEPT !.present = FALSE, !.parts = parts, !.seen = Unseen]
      BY <1>2, <2>2, <3>2
    <3>4. ObjOK'
      BY <1>1, <3>1, <3>3 DEF ObjOK, Object
    <3> QED
      BY <2>2, <3>2, <3>4 DEF TypeOK
  <2> QED
    BY <2>1, <2>2 DEF Delete
<1>4. WorkersOK'
  BY DEF TypeOK, Delete, WorkersOK, AfterDelete
<1> QED
  BY <1>3, <1>4 DEF Delete, Fixed, TypeOK, ObjOK, WorkersOK

LEMMA TypeWorker ==
  ASSUME TypeOK, NEW w \in Workers, Worker(w)
  PROVE  TypeOK'
<1>1. ASSUME AttemptFailed(w), UNCHANGED <<obj, crash, served, deleted>>, Fixed,
             UNCHANGED faults \/ (faults > 0 /\ faults' = faults - 1)
      PROVE  TypeOK'
  <2>1. WorkersOK'
    BY <1>1, AttemptFailedType DEF TypeOK, ObjOK, WorkersOK
  <2>2. faults' \in 0 .. MaxFaults
    BY <1>1, MaxFaultsAssumption DEF TypeOK
  <2> QED
    BY <1>1, <2>1, <2>2 DEF Fixed, ObjOK, TypeOK, WorkersOK
<1> QED
  BY <1>1, TypeLook, TypeWait, TypeCreate, TypeDelete DEF Worker, CreateFails, WaitTimeout

LEMMA TypeKubernetes ==
  ASSUME TypeOK, Kubernetes
  PROVE  TypeOK'
<1>0. obj \in Object
  BY DEF TypeOK
<1>1. CASE Publish
  <2>1. Counters(obj.parts) \in [desired : 0 .. Size, current : 0 .. Size, ready : 0 .. Size]
    BY <1>0, CountersType DEF Object
  <2>2. ObjOK'
    BY <1>0, <1>1, <2>1 DEF Publish, ObjOK, Object
  <2>3. served' \in BOOLEAN
    BY <1>1 DEF TypeOK, Publish, Serving
  <2> QED
    BY <1>1, <2>2, <2>3 DEF Publish, Fixed, WorkersOK, TypeOK, ObjOK
<1>2. ASSUME NEW i \in Parts, NEW state \in {"pending", "ready"}, SetPart(i, state),
             UNCHANGED faults \/ (faults > 0 /\ faults' = faults - 1)
      PROVE  TypeOK'
  <2>1. ObjOK'
    BY <1>0, <1>2 DEF SetPart, ObjOK, Object
  <2>2. served' \in BOOLEAN
    BY <1>2 DEF TypeOK, SetPart, Serving
  <2>3. faults' \in 0 .. MaxFaults
    BY <1>2, MaxFaultsAssumption DEF TypeOK
  <2> QED
    BY <1>2, <2>1, <2>2, <2>3 DEF SetPart, Fixed, WorkersOK, TypeOK, ObjOK
<1> QED
  BY <1>1, <1>2 DEF Kubernetes, AddPart, PartReady, PartBreaks

\* Whatever the workers and Kubernetes do, the state has its types: attempts
\* stay within "retry" and failures within their bound.
THEOREM KindsTypeCorrect == Spec => []TypeOK
<1>1. Init => TypeOK
  BY TypeInit
<1>2. TypeOK /\ [Next]_vars => TypeOK'
  <2> SUFFICES ASSUME TypeOK, [Next]_vars PROVE TypeOK'
    OBVIOUS
  <2>1. CASE UNCHANGED vars
    BY <2>1 DEF vars, TypeOK
  <2> QED
    BY <2>1, TypeWorker, TypeKubernetes DEF Next, Terminated
<1> QED
  BY <1>1, <1>2, PTL DEF Spec

(***************************************************************************)
(* The race                                                                *)
(***************************************************************************)

\* Unless a failure has happened, an object that somebody owns is there, or
\* somebody is about to look for it or to create it.
Owned == \E w \in Workers : wpc[w] # "off"
Coming == \E w \in Workers : wpc[w] \in {"look", "create"}

RaceInv ==
  /\ kind = "void" => external
  /\ ~external /\ NoFaults /\ Owned => obj.present \/ Coming

\* A worker that is past its Create can move on: those that are not stay.
LEMMA OthersCome ==
  ASSUME NEW w \in Workers, TypeOK, RaceInv,
         wpc[w] \notin {"off", "look", "create"},
         \A v \in Workers \ {w} : wpc'[v] = wpc[v],
         NoFaults' => NoFaults, UNCHANGED <<kind, external>>,
         obj.present => obj'.present
  PROVE  RaceInv'
BY DEF RaceInv, Owned, Coming

LEMMA RaceWorker ==
  ASSUME TypeOK, RaceInv, NEW w \in Workers, Worker(w)
  PROVE  RaceInv'
<1>0. /\ UNCHANGED <<kind, external>> /\ obj \in Object /\ kind \in KindToResourceTemplate
      /\ wpc \in [Workers -> {"off", "look", "create", "wait", "delete", "done", "failed"}]
  BY KindNamesAssumption DEF TypeOK, Worker, Look, Create, CreateFails, Wait, WaitTimeout, Delete, Fixed
<1>1. ASSUME AttemptFailed(w)
      PROVE  \A v \in Workers \ {w} : wpc'[v] = wpc[v]
  BY <1>0, <1>1 DEF AttemptFailed
<1>2. CASE Look(w)
  <2> SUFFICES ASSUME ~external, NoFaults'
               PROVE  obj'.present \/ Coming'
    BY <1>0 DEF RaceInv
  <2>1. PICK look \in Looks :
          LET act == IF external THEN Resource(kind, look[1]).adopt
                                 ELSE Resource(kind, look[1]).create
          IN /\ faults' = faults - look[2]
             /\ \/ act = "keep" /\ wpc' = [wpc EXCEPT ![w] = "wait"]
                \/ act = "create" /\ wpc' = [wpc EXCEPT ![w] = "create"]
                \/ act \notin {"keep", "create"}
    BY <1>2 DEF Look
  <2>2. look[1] = obj
    BY <2>1, LookResult, MaxFaultsAssumption DEF NoFaults, TypeOK
  <2>3. kind \in Lasting
    BY <1>0 DEF RaceInv, Lasting
  <2>4. CASE Resource(kind, obj).create = "keep"
    BY <1>0, <1>2, <2>3, <2>4, KeptIsPresent DEF Look
  <2>5. CASE Resource(kind, obj).create = "create"
    <3>1. wpc' = [wpc EXCEPT ![w] = "create"]
      BY <1>0, <2>1, <2>2, <2>5
    <3> QED
      BY <1>0, <3>1 DEF Coming
  <2> QED
    BY <2>3, <2>4, <2>5, CreateGoesOn
<1>3. CASE Create(w)
  BY <1>0, <1>3 DEF Create, Object, RaceInv
<1>4. CASE CreateFails(w)
  <2>1. CASE obj.present
    BY <1>0, <1>4, <2>1 DEF CreateFails, RaceInv
  <2>2. CASE ~obj.present
    BY <1>0, <1>4, <2>2, MaxFaultsAssumption DEF CreateFails, RaceInv, NoFaults, TypeOK
  <2> QED
    BY <2>1, <2>2
<1>5. CASE Wait(w)
  <2>1. wpc[w] = "wait" /\ UNCHANGED obj
    BY <1>5 DEF Wait
  <2>2. \A v \in Workers \ {w} : wpc'[v] = wpc[v]
    BY <1>0, <1>1, <1>5 DEF Wait
  <2>3. NoFaults' => NoFaults
    <3>1. PICK look \in Looks : faults' = faults - look[2]
      BY <1>5 DEF Wait
    <3> QED
      BY <3>1, LookResult, MaxFaultsAssumption DEF NoFaults, TypeOK
  <2> QED
    BY <1>0, <2>1, <2>2, <2>3, OthersCome
<1>6. CASE WaitTimeout(w)
  BY <1>0, <1>6, MaxFaultsAssumption DEF WaitTimeout, RaceInv, NoFaults, TypeOK
<1>7. CASE Delete(w)
  <2>1. wpc'[w] = "look"
    BY <1>0, <1>7 DEF Delete, AfterDelete
  <2> QED
    BY <1>0, <2>1 DEF RaceInv, Coming
<1> QED
  BY <1>2, <1>3, <1>4, <1>5, <1>6, <1>7 DEF Worker

LEMMA RaceKubernetes ==
  ASSUME TypeOK, RaceInv, Kubernetes
  PROVE  RaceInv'
<1>1. UNCHANGED <<kind, external, wpc>>
  BY DEF Kubernetes, Publish, AddPart, PartReady, PartBreaks, SetPart, Fixed
<1>2. obj'.present = obj.present
  BY DEF TypeOK, Object, Kubernetes, Publish, AddPart, PartReady, PartBreaks, SetPart
<1>3. NoFaults' => NoFaults
  BY MaxFaultsAssumption
     DEF TypeOK, NoFaults, Kubernetes, Publish, AddPart, PartReady, PartBreaks, SetPart
<1> QED
  BY <1>1, <1>2, <1>3 DEF RaceInv, Owned, Coming

\* Workers that race for one object, of any kind and for any number of
\* attempts, leave it in the cluster when none of their calls has failed.
THEOREM RaceIsHarmless == Spec => []RaceLeavesObject
<1>1. Init => RaceInv
  BY DEF Init, RaceInv, Owned, Coming
<1>2. TypeOK /\ RaceInv /\ [Next]_vars => RaceInv'
  <2> SUFFICES ASSUME TypeOK, RaceInv, [Next]_vars PROVE RaceInv'
    OBVIOUS
  <2>1. CASE UNCHANGED vars
    BY <2>1 DEF vars, RaceInv, Owned, Coming, NoFaults
  <2> QED
    BY <2>1, RaceWorker, RaceKubernetes DEF Next, Terminated
<1>3. RaceInv => RaceLeavesObject
  BY DEF RaceInv, RaceLeavesObject, Owned, Coming, Idle
<1> QED
  BY <1>1, <1>2, <1>3, KindsTypeCorrect, PTL DEF Spec

(***************************************************************************)
(* Success                                                                 *)
(***************************************************************************)

Careful == {"pod", "job", "persistentvolumeclaim", "deployment",
            "configmap", "secret", "serviceaccount"}

\* The counters of an object may be old, but they once were true of it.
ServedInv ==
  /\ Serving(obj) => served
  /\ obj.present /\ Own # {} /\ obj.seen.ready >= Cardinality(Own) => served
  /\ DoneMeansServed

LEMMA CarefulKinds ==
  KindNames \ (Hasty \cup {"void"}) \subseteq Careful
BY KindNamesAssumption DEF Careful, Hasty, KindToResourceTemplate

LEMMA OwnSize ==
  /\ IsFiniteSet(Own) /\ Cardinality(Own) \in Nat
  /\ Own # {} => Cardinality(Own) >= 1
  /\ kind \in {"pod", "job", "persistentvolumeclaim"} => Own = {1} /\ Cardinality(Own) = 1
  /\ kind = "deployment" => Own = Parts /\ Cardinality(Own) = Size
  /\ kind \in {"configmap", "secret", "serviceaccount"} => Own = {}
<1>1. IsFiniteSet(Own) /\ Cardinality(Own) \in Nat
  BY OwnParts, PartsFinite, SizeAssumption
<1>2. Own # {} => Cardinality(Own) >= 1
  BY <1>1, FS_EmptySet
<1>3. kind \in {"pod", "job", "persistentvolumeclaim"} => Own = {1}
  BY SizeAssumption DEF Own, Parts
<1>4. Cardinality({1}) = 1
  BY FS_Singleton
<1>5. kind = "deployment" => Own = Parts
  BY DEF Own
<1>6. kind \in {"configmap", "secret", "serviceaccount"} => Own = {}
  BY DEF Own
<1> QED
  BY <1>1, <1>2, <1>3, <1>4, <1>5, <1>6, PartsFinite

\* Counters that are full stand for parts that are all ready.
LEMMA FullMeansServing ==
  ASSUME obj.present, Own # {}, Counters(obj.parts).ready >= Cardinality(Own)
  PROVE  Serving(obj)
<1> DEFINE Ready == {i \in Own : obj.parts[i] = "ready"}
<1>1. IsFiniteSet(Own) /\ Ready \in SUBSET Own
  BY OwnSize
<1>2. /\ Cardinality(Ready) <= Cardinality(Own)
      /\ Cardinality(Ready) = Cardinality(Own) => Ready = Own
      /\ Cardinality(Ready) \in Nat
  BY <1>1, FS_Subset, FS_CardinalityType
<1>3. Cardinality(Ready) >= Cardinality(Own)
  BY DEF Counters
<1>4. Ready = Own
  BY <1>2, <1>3, OwnSize
<1>5. kind # "service"
  BY DEF Own
<1> QED
  BY <1>4, <1>5 DEF Serving

\* A careful kind is "ready" only when the object is, or has been, in service.
LEMMA ReadyMeansServed ==
  ASSUME TypeOK, ServedInv, kind \in Careful, Resource(kind, obj).status = "ready"
  PROVE  served
<1>1. CASE kind = "pod"
  <2>1. obj.present /\ obj.parts[1] = "ready"
    BY <1>1, StatusOf DEF podStatus, Found
  <2> QED
    BY <1>1, <2>1, OwnSize DEF Serving, ServedInv
<1>2. CASE kind \in {"job", "persistentvolumeclaim"}
  <2>1. obj.present /\ obj.seen.ready >= 1
    BY <1>2, StatusOf DEF jobStatus, persistentVolumeClaimStatus, Found
  <2> QED
    BY <1>2, <2>1, OwnSize DEF ServedInv
<1>3. CASE kind = "deployment"
  <2>1. obj.present /\ obj.seen.ready >= Size
    BY <1>3, StatusOf DEF deploymentStatus, Found
  <2>2. Own # {}
    BY <1>3, OwnSize, SizeAssumption DEF Parts
  <2> QED
    BY <1>3, <2>1, <2>2, OwnSize DEF ServedInv
<1>4. CASE kind \in {"configmap", "secret", "serviceaccount"}
  <2>1. obj.present
    BY <1>4, StatusOf DEF configMapStatus, secretStatus, serviceAccountStatus, Found
  <2> QED
    BY <1>4, <2>1, OwnSize DEF Serving, ServedInv
<1> QED
  BY <1>1, <1>2, <1>3, <1>4 DEF Careful

LEMMA ServedInit == Init => ServedInv
<1> SUFFICES ASSUME Init PROVE ServedInv
  OBVIOUS
<1>1. served = Serving(obj)
  BY DEF Init
<1>2. ASSUME obj.present, Own # {}, obj.seen.ready >= Cardinality(Own)
      PROVE  served
  <2>1. PICK present \in BOOLEAN, parts \in [Parts -> {"none", "pending", "ready"}] :
          obj = [present |-> present, parts |-> parts,
                 seen |-> IF present THEN Counters(parts) ELSE Unseen]
    BY DEF Init
  <2>2. obj.seen = Counters(obj.parts)
    BY <1>2, <2>1
  <2> QED
    BY <1>1, <1>2, <2>2, FullMeansServing
<1>3. \A w \in Workers : wpc[w] # "done"
  BY DEF Init
<1> QED
  BY <1>1, <1>2, <1>3 DEF ServedInv, DoneMeansServed

\* A worker that does not report success leaves the invariant to the object.
LEMMA NotDone ==
  ASSUME DoneMeansServed, served => served', UNCHANGED kind,
         \A w \in Workers : wpc'[w] = "done" => wpc[w] = "done"
  PROVE  DoneMeansServed'
BY DEF DoneMeansServed

LEMMA ObjectKept ==
  ASSUME ServedInv, UNCHANGED <<kind, obj, served>>
  PROVE  /\ Serving(obj)' => served'
         /\ (obj.present /\ Own # {} /\ obj.seen.ready >= Cardinality(Own) => served)'
BY DEF ServedInv, Serving, Own

LEMMA ServedWorker ==
  ASSUME TypeOK, ServedInv, NEW w \in Workers, Worker(w)
  PROVE  ServedInv'
<1>0. /\ kind' = kind /\ obj \in Object /\ kind \in KindNames
      /\ wpc \in [Workers -> {"off", "look", "create", "wait", "delete", "done", "failed"}]
  BY DEF TypeOK, Worker, Look, Create, CreateFails, Wait, WaitTimeout, Delete, Fixed
<1>1. Own' = Own
  BY <1>0 DEF Own
<1>2. CASE Wait(w)
  <2>1. UNCHANGED <<kind, obj, served>>
    BY <1>0, <1>2 DEF Wait
  <2>2. PICK look \in Looks :
          \/ Resource(kind, look[1]).status = "ready" /\ wpc' = [wpc EXCEPT ![w] = "done"]
          \/ AttemptFailed(w)
    BY <1>2 DEF Wait
  <2>3. CASE AttemptFailed(w)
    <3>1. \A v \in Workers : wpc'[v] = "done" => wpc[v] = "done"
      BY <1>0, <2>3 DEF AttemptFailed
    <3> QED
      BY <2>1, <3>1, NotDone, ObjectKept DEF ServedInv
  <2>4. CASE Resource(kind, look[1]).status = "ready" /\ wpc' = [wpc EXCEPT ![w] = "done"]
    <3>1. ASSUME kind \in Careful
          PROVE  served
      <4>1. kind \in Lasting
        BY <3>1 DEF Careful, Lasting, KindToResourceTemplate
      <4>2. look[1] = obj
        <5>1. ~Missing(obj).present
          BY <1>0 DEF Missing, Object
        <5>2. Resource(kind, Missing(obj)).status = "error"
          BY <4>1, <5>1, MissingIsError
        <5> QED
          BY <2>4, <5>2, LookResult
      <4> QED
        BY <2>4, <3>1, <4>2, ReadyMeansServed
    <3>2. DoneMeansServed'
      BY <1>0, <2>1, <3>1, CarefulKinds DEF DoneMeansServed
    <3> QED
      BY <2>1, <3>2, ObjectKept DEF ServedInv
  <2> QED
    BY <2>2, <2>3, <2>4
<1>3. CASE Create(w)
  <2>1. obj'.present /\ obj'.seen.ready = 0
    BY <1>0, <1>3 DEF Create, Object, Unseen
  <2>2. ~(Own # {} /\ obj'.seen.ready >= Cardinality(Own))
    BY <2>1, OwnSize
  <2>3. served' = (served \/ Serving(obj)')
    BY <1>0, <1>1, <1>3 DEF Create, Serving
  <2>4. \A v \in Workers : wpc'[v] = "done" => wpc[v] = "done"
    BY <1>0, <1>3 DEF Create
  <2> QED
    BY <1>0, <1>1, <2>2, <2>3, <2>4, NotDone DEF ServedInv
<1>4. CASE Delete(w)
  <2>1. ~obj'.present \/ UNCHANGED obj
    BY <1>0, <1>4 DEF Delete, Object
  <2>2. served' = served
    BY <1>4 DEF Delete
  <2>3. \A v \in Workers : wpc'[v] = "done" => wpc[v] = "done"
    BY <1>0, <1>4 DEF Delete, AfterDelete
  <2>4. CASE ~obj'.present
    BY <1>0, <2>2, <2>3, <2>4, NotDone DEF ServedInv, Serving
  <2>5. CASE UNCHANGED obj
    BY <1>0, <2>2, <2>3, <2>5, NotDone, ObjectKept DEF ServedInv
  <2> QED
    BY <2>1, <2>4, <2>5
<1>5. CASE Look(w) \/ CreateFails(w) \/ WaitTimeout(w)
  <2>1. UNCHANGED <<kind, obj, served>>
    BY <1>0, <1>5 DEF Look, CreateFails, WaitTimeout
  <2>2. \A v \in Workers : wpc'[v] = "done" => wpc[v] = "done"
    BY <1>0, <1>5 DEF Look, CreateFails, WaitTimeout, AttemptFailed
  <2> QED
    BY <2>1, <2>2, NotDone, ObjectKept DEF ServedInv
<1> QED
  BY <1>2, <1>3, <1>4, <1>5 DEF Worker

LEMMA ServedKubernetes ==
  ASSUME TypeOK, ServedInv, Kubernetes
  PROVE  ServedInv'
<1>0. UNCHANGED <<kind, wpc>> /\ obj \in Object
  BY DEF TypeOK, Kubernetes, Publish, AddPart, PartReady, PartBreaks, SetPart, Fixed
<1>1. Own' = Own
  BY <1>0 DEF Own
<1>2. CASE Publish
  <2>1. /\ obj'.present = obj.present /\ obj'.parts = obj.parts
        /\ obj'.seen = Counters(obj.parts)
    BY <1>0, <1>2 DEF Publish, Object
  <2>2. served' = (served \/ Serving(obj))
    BY <1>2 DEF Publish
  <2>3. Serving(obj)' <=> Serving(obj)
    BY <1>0, <1>1, <2>1 DEF Serving
  <2>4. obj'.present /\ Own # {} /\ obj'.seen.ready >= Cardinality(Own) => served'
    BY <2>1, <2>2, FullMeansServing
  <2> QED
    BY <1>0, <1>1, <2>2, <2>3, <2>4, NotDone DEF ServedInv
<1>3. ASSUME NEW i \in Parts, NEW state \in {"pending", "ready"}, SetPart(i, state)
      PROVE  ServedInv'
  <2>1. obj'.present = obj.present /\ obj'.seen = obj.seen
    BY <1>0, <1>3 DEF SetPart, Object
  <2>2. served' = (served \/ Serving(obj)')
    BY <1>0, <1>1, <1>3 DEF SetPart, Serving
  <2> QED
    BY <1>0, <1>1, <2>1, <2>2, NotDone DEF ServedInv
<1> QED
  BY <1>2, <1>3 DEF Kubernetes, AddPart, PartReady, PartBreaks

\* For the kinds whose Status waits for what they stand for, success means
\* that the object has been in full service, whatever raced with it.
THEOREM SuccessMeansServed == Spec => []DoneMeansServed
<1>1. TypeOK /\ ServedInv /\ [Next]_vars => ServedInv'
  <2> SUFFICES ASSUME TypeOK, ServedInv, [Next]_vars PROVE ServedInv'
    OBVIOUS
  <2>1. CASE UNCHANGED vars
    <3>1. UNCHANGED <<kind, obj, served, wpc>>
      BY <2>1 DEF vars
    <3> QED
      BY <3>1, NotDone, ObjectKept DEF ServedInv
  <2> QED
    BY <2>1, ServedWorker, ServedKubernetes DEF Next, Terminated
<1>2. ServedInv => DoneMeansServed
  BY DEF ServedInv
<1> QED
  BY <1>1, <1>2, ServedInit, KindsTypeCorrect, PTL DEF Spec

(***************************************************************************)
(* Deploying again                                                         *)
(***************************************************************************)

\* Nothing is wrong with the parts that are there.
Whole(o) == o.present /\ \A i \in Parts : o.parts[i] \in {"none", "ready"}

\* Without failures an object that was ready stays ready, and the workers only
\* look at it.
HealthyInv ==
  /\ kind = "void" => external
  /\ healthy /\ NoFaults /\ kind # "deployment" =>
       /\ ~deleted
       /\ Whole(obj) /\ \A i \in Own : obj.parts[i] = "ready"
       /\ \A w \in Workers : wpc[w] \in {"off", "look", "wait", "done"}

LEMMA LargestExists ==
  ASSUME NEW S \in SUBSET (1 .. Size), S # {}
  PROVE  Max(S) \in S
<1>1. Size \in Nat /\ \A i \in S : i \in Nat /\ Size - i \in Nat
  BY SizeAssumption
<1> DEFINE Smaller == {ss \in Nat \X Nat : ss[1] < ss[2]}
           Gaps == {Size - i : i \in S}
<1>2. IsWellFoundedOn(Smaller, Nat)
  BY NatLessThanWellFounded DEF OpToRel
<1>3. Gaps \in SUBSET Nat /\ Gaps # {}
  BY <1>1
<1> HIDE DEF Smaller, Gaps
<1>4. PICK m \in Gaps : \A n \in Gaps : <<n, m>> \notin Smaller
  BY <1>2, <1>3, WFMin
<1>5. PICK i \in S : m = Size - i
  BY DEF Gaps
<1>6. ASSUME NEW j \in S
      PROVE  i >= j
  <2>1. Size - j \in Gaps
    BY DEF Gaps
  <2>2. ~(Size - j < m)
    BY <1>1, <1>4, <1>5, <2>1 DEF Smaller
  <2> QED
    BY <1>1, <1>5, <2>2
<1> QED
  BY <1>6 DEF Max

\* An object with whole parts is no error for any kind: also a service, which
\* asks the last of each list, asks only parts that are there.
LEMMA WholeIsNoError ==
  ASSUME NEW o, Whole(o)
  PROVE  \A k \in Lasting : Resource(k, o).status # "error"
<1>1. \A b : Found(o, b) # "error"
  BY DEF Found, Whole
<1>2. podsStateFromLabels(o) = "ready"
  BY DEF podsStateFromLabels, resourceListStatus, Whole
<1>3. serviceStatus(o) = "ready"
  <2> DEFINE listed(l) == {i \in l : o.parts[i] # "none"}
             asked == {Max(listed(l)) : l \in {m \in Lists : listed(m) # {}}}
  <2>1. ASSUME NEW l \in Lists, listed(l) # {}
        PROVE  o.parts[Max(listed(l))] = "ready"
    <3>1. listed(l) \in SUBSET (1 .. Size)
      BY ListsAssumption
    <3>2. Max(listed(l)) \in listed(l)
      BY <2>1, <3>1, LargestExists
    <3> QED
      BY <3>1, <3>2 DEF Whole, Parts
  <2>2. \A i \in asked : o.parts[i] = "ready"
    BY <2>1
  <2>3. serviceStatus(o) = resourceListStatus(asked, o)
    BY DEF serviceStatus, Whole
  <2> HIDE DEF asked
  <2> QED
    BY <2>2, <2>3 DEF resourceListStatus
<1>4. replicaSetStatus(o, 100) # "error"
  BY <1>1 DEF replicaSetStatus, getPercentageFails
<1>5. petsetStatus(o) # "error" /\ statefulsetStatus(o) # "error"
  BY <1>2 DEF petsetStatus, statefulsetStatus, Whole
<1>6. /\ podStatus(o) # "error" /\ jobStatus(o) # "error"
      /\ persistentVolumeClaimStatus(o) # "error" /\ deploymentStatus(o) # "error"
      /\ daemonSetStatus(o) # "error" /\ configMapStatus(o) # "error"
      /\ secretStatus(o) # "error" /\ serviceAccountStatus(o) # "error"
  BY <1>1 DEF podStatus, jobStatus, persistentVolumeClaimStatus, deploymentStatus,
              daemonSetStatus, configMapStatus, secretStatus, serviceAccountStatus
<1> QED
  BY <1>3, <1>4, <1>5, <1>6, StatusOf DEF Lasting, KindToResourceTemplate

\* It is kept, whether it has a definition or is only expected to be there.
LEMMA WholeIsKept ==
  ASSUME NEW o, Whole(o), NEW k \in Lasting \ {"deployment"}
  PROVE  /\ Resource(k, o).create = "keep"
         /\ Resource(k, o).adopt \in {"keep", "panic"}
<1>1. Resource(k, o).status # "error"
  BY WholeIsNoError
<1>2. CASE k = "replicaset"
  <2>1. /\ replicaSet(o, 100).create = CreateIfMissing(replicaSetStatus(o, 100))
        /\ replicaSet(o, 100).adopt = FailIfMissing(replicaSetStatus(o, 100))
    BY DEF replicaSet, Usual
  <2> QED
    BY <1>1, <1>2, <2>1, StatusOf, ResourceOf DEF CreateIfMissing, FailIfMissing
<1>3. CASE k = "service"
  <2>1. service(o).create = CreateIfMissing(serviceStatus(o)) /\ service(o).adopt = "panic"
    BY DEF service, Usual, Whole
  <2> QED
    BY <1>1, <1>3, <2>1, StatusOf, ResourceOf DEF CreateIfMissing
<1>4. CASE k \in {"pod", "job", "persistentvolumeclaim", "daemonset"}
  BY <1>1, <1>4, UsualFields, StatusOf, ResourceOf
     DEF pod, job, persistentVolumeClaim, daemonSet, CreateIfMissing, FailIfMissing
<1>5. CASE k \in {"petset", "statefulset", "configmap", "secret", "serviceaccount"}
  BY <1>1, <1>5, UsualFields, StatusOf, ResourceOf
     DEF petSet, statefulSet, configMap, secret, serviceAccount, CreateIfMissing, FailIfMissing
<1> QED
  BY <1>2, <1>3, <1>4, <1>5 DEF Lasting, KindToResourceTemplate

LEMMA VoidIsKept ==
  ASSUME NEW o
  PROVE  /\ Resource("void", o).status = "ready" /\ Resource("void", o).create = "keep"
         /\ Resource("void", o).adopt = "keep"
  BY ResourceOf DEF void

LEMMA HealthyInit == Init => HealthyInv
<1> SUFFICES ASSUME Init, healthy
             PROVE  Whole(obj) /\ \A i \in Own : obj.parts[i] = "ready"
  BY DEF Init, HealthyInv
<1>1. Serving(obj)
  BY DEF Init
<1>2. PICK present \in BOOLEAN, parts \in [Parts -> {"none", "pending", "ready"}] :
        /\ obj.present = present /\ obj.parts = parts
        /\ kind # "service" => parts = [i \in Parts |-> IF present /\ i \in Own THEN "ready" ELSE "none"]
  BY DEF Init
<1> QED
  BY <1>1, <1>2 DEF Serving, Whole

LEMMA HealthyWorker ==
  ASSUME TypeOK, HealthyInv, NEW w \in Workers, Worker(w)
  PROVE  HealthyInv'
<1>0. /\ UNCHANGED <<kind, external, healthy>> /\ kind \in KindToResourceTemplate
      /\ wpc \in [Workers -> {"off", "look", "create", "wait", "delete", "done", "failed"}]
      /\ Own' = Own
  BY KindNamesAssumption
     DEF TypeOK, Worker, Look, Create, CreateFails, Wait, WaitTimeout, Delete, Fixed, Own
<1> SUFFICES ASSUME healthy, NoFaults', kind # "deployment"
             PROVE  /\ ~deleted'
                    /\ Whole(obj)' /\ \A i \in Own : obj'.parts[i] = "ready"
                    /\ \A v \in Workers : wpc'[v] \in {"off", "look", "wait", "done"}
  BY <1>0 DEF HealthyInv
<1>1. faults \in 0 .. MaxFaults /\ MaxFaults \in Nat /\ faults' = MaxFaults
  BY MaxFaultsAssumption DEF TypeOK, NoFaults
<1>2. NoFaults
  <2>1. CASE Look(w) \/ Wait(w)
    <3>1. PICK look \in Looks : faults' = faults - look[2]
      BY <2>1 DEF Look, Wait
    <3> QED
      BY <1>1, <3>1, LookResult DEF NoFaults
  <2>2. CASE Create(w) \/ CreateFails(w) \/ WaitTimeout(w) \/ Delete(w)
    <3>1. faults' = faults \/ faults' = faults - 1
      BY <2>2 DEF Create, CreateFails, WaitTimeout, Delete
    <3> QED
      BY <1>1, <3>1 DEF NoFaults
  <2> QED
    BY <2>1, <2>2 DEF Worker
<1>3. /\ ~deleted /\ Whole(obj) /\ \A i \in Own : obj.parts[i] = "ready"
      /\ \A v \in Workers : wpc[v] \in {"off", "look", "wait", "done"}
      /\ kind = "void" => external
  BY <1>2 DEF HealthyInv
<1>4. ASSUME NEW look \in Looks, faults' = faults - look[2]
      PROVE  look[1] = obj
  BY <1>1, <1>4, LookResult
<1>5. kind # "void" => kind \in Lasting \ {"deployment"}
  BY <1>0 DEF Lasting
<1>6. CASE Look(w)
  <2>1. UNCHANGED <<obj, deleted>>
    BY <1>6 DEF Look
  <2>2. PICK look \in Looks :
          LET act == IF external THEN Resource(kind, look[1]).adopt
                                 ELSE Resource(kind, look[1]).create
          IN /\ faults' = faults - look[2]
             /\ \/ act = "keep" /\ wpc' = [wpc EXCEPT ![w] = "wait"]
                \/ act \in {"fatal", "panic"} /\ UNCHANGED wpc
                \/ act \notin {"keep", "fatal", "panic"}
    BY <1>6 DEF Look
  <2>3. look[1] = obj
    BY <1>4, <2>2
  <2>4. (IF external THEN Resource(kind, obj).adopt ELSE Resource(kind, obj).create) \in {"keep", "panic"}
    BY <1>3, <1>5, WholeIsKept, VoidIsKept
  <2>5. wpc' = [wpc EXCEPT ![w] = "wait"] \/ UNCHANGED wpc
    BY <2>2, <2>3, <2>4
  <2> QED
    BY <1>0, <1>3, <2>1, <2>5 DEF Whole
<1>7. CASE Wait(w)
  <2>1. UNCHANGED <<obj, deleted>>
    BY <1>7 DEF Wait
  <2>2. PICK look \in Looks :
          /\ faults' = faults - look[2]
          /\ \/ wpc' = [wpc EXCEPT ![w] = "done"]
             \/ Resource(kind, look[1]).status = "error"
    BY <1>7 DEF Wait
  <2>3. Resource(kind, obj).status # "error"
    BY <1>3, <1>5, WholeIsNoError, VoidIsKept
  <2>4. wpc' = [wpc EXCEPT ![w] = "done"]
    BY <1>4, <2>2, <2>3
  <2> QED
    BY <1>0, <1>3, <2>1, <2>4 DEF Whole
<1>8. CASE Create(w) \/ CreateFails(w) \/ Delete(w)
  BY <1>3, <1>8 DEF Create, CreateFails, Delete
<1>9. CASE WaitTimeout(w)
  BY <1>1, <1>9 DEF WaitTimeout
<1> QED
  BY <1>6, <1>7, <1>8, <1>9 DEF Worker

LEMMA HealthyKubernetes ==
  ASSUME TypeOK, HealthyInv, Kubernetes
  PROVE  HealthyInv'
<1>0. UNCHANGED <<kind, external, healthy, wpc, deleted>> /\ obj \in Object
  BY DEF TypeOK, Kubernetes, Publish, AddPart, PartReady, PartBreaks, SetPart, Fixed
<1>1. Own' = Own
  BY <1>0 DEF Own
<1> SUFFICES ASSUME healthy, NoFaults', kind # "deployment"
             PROVE  /\ ~deleted
                    /\ Whole(obj)' /\ \A i \in Own : obj'.parts[i] = "ready"
                    /\ \A v \in Workers : wpc[v] \in {"off", "look", "wait", "done"}
  BY <1>0, <1>1 DEF HealthyInv
<1>2. faults \in 0 .. MaxFaults /\ MaxFaults \in Nat /\ faults' = MaxFaults
  BY MaxFaultsAssumption DEF TypeOK, NoFaults
<1>3. UNCHANGED faults /\ NoFaults
  <2>1. faults' = faults \/ faults' = faults - 1
    BY DEF Kubernetes, Publish, AddPart, PartReady, PartBreaks
  <2> QED
    BY <1>2, <2>1 DEF NoFaults
<1>4. /\ ~deleted /\ Whole(obj) /\ \A i \in Own : obj.parts[i] = "ready"
      /\ \A v \in Workers : wpc[v] \in {"off", "look", "wait", "done"}
  BY <1>3 DEF HealthyInv
<1>5. CASE Publish
  <2>1. obj'.present = obj.present /\ obj'.parts = obj.parts
    BY <1>0, <1>5 DEF Publish, Object
  <2> QED
    BY <1>4, <2>1 DEF Whole
<1>6. ASSUME NEW i \in Parts, AddPart(i) \/ PartReady(i) \/ PartBreaks(i)
      PROVE  FALSE
  <2>1. ~PartBreaks(i)
    BY <1>2, <1>3 DEF PartBreaks
  <2> QED
    BY <1>4, <1>6, <2>1 DEF AddPart, PartReady, Whole
<1> QED
  BY <1>5, <1>6 DEF Kubernetes

\* Deploying what is in service already deletes nothing, for any kind but the
\* deployment and any number of workers and attempts: Status of no kind calls an
\* object in service an error, so Create keeps it and nothing is retried.
THEOREM HealthyIsKept == Spec => []HealthyKept
<1>1. TypeOK /\ HealthyInv /\ [Next]_vars => HealthyInv'
  <2> SUFFICES ASSUME TypeOK, HealthyInv, [Next]_vars PROVE HealthyInv'
    OBVIOUS
  <2>1. CASE UNCHANGED vars
    BY <2>1 DEF vars, HealthyInv, NoFaults, Whole, Own
  <2> QED
    BY <2>1, HealthyWorker, HealthyKubernetes DEF Next, Terminated
<1>2. HealthyInv => HealthyKept
  BY DEF HealthyInv, HealthyKept
<1> QED
  BY <1>1, <1>2, HealthyInit, KindsTypeCorrect, PTL DEF Spec
=============================================================================
