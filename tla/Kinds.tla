------------------------------- MODULE Kinds -------------------------------
(***************************************************************************)
(* pkg/resources: what Status, Create and the dependency report of each    *)
(* kind make of the Kubernetes object they are asked about.                *)
(*                                                                         *)
(* An object is a record: whether it is `present`, the `parts` it stands   *)
(* for (a pod itself, the pods of a controller, the volume of a claim, the *)
(* objects a service selects), and the counters Kubernetes publishes in    *)
(* its status (`seen`). An API call that fails is a look at Missing(o): no *)
(* kind tells a failed Get from an object that is not there.               *)
(***************************************************************************)
EXTENDS Integers, FiniteSets, FiniteSetsExt

CONSTANTS
  Size,   \* the number of replicas the object's specification asks for
  Lists   \* the parts a service selects, by the List call that returns them

ASSUME SizeAssumption == Size \in Nat \ {0}
ASSUME ListsAssumption == \A l \in Lists : l \subseteq 1 .. Size

Parts == 1 .. Size

Object ==
  [present : BOOLEAN, parts : [Parts -> {"none", "pending", "ready"}],
   seen : [desired : 0 .. Size, current : 0 .. Size, ready : 0 .. Size]]

Missing(o) == [o EXCEPT !.present = FALSE]

(***************************************************************************)
(* common.go                                                               *)
(***************************************************************************)

\* Mutation: what is not ready is an error, as it is for lists.
FoundOrError(o, isReady) == IF o.present /\ isReady THEN "ready" ELSE "error"

\* Get(name) fails, or the object it returns decides.
Found(o, isReady) ==
  IF ~o.present THEN "error" ELSE IF isReady THEN "ready" ELSE "not ready"

\* A part that is not ready makes the whole list an error.
resourceListStatus(S, o) ==
  IF \A i \in S : o.parts[i] = "ready" THEN "ready" ELSE "error"

\* The pods in the cluster that carry the labels of the pod template
podsStateFromLabels(o) ==
  resourceListStatus({i \in Parts : o.parts[i] # "none"}, o)

getPercentageFails(factor) == factor \notin 0 .. 100

\* checkExistence, as Create uses it: any error stands for "not found".
CreateIfMissing(s) == IF s = "error" THEN "create" ELSE "keep"

\* createExistingResource
FailIfMissing(s) == IF s = "error" THEN "fail" ELSE "keep"

\* report.SimpleReporter and report.ErrorReport
SimpleReport(s) == [blocks |-> s # "ready", percentage |-> IF s = "ready" THEN 100 ELSE 0]

\* Mutation: every kind calls the API whatever it has found.
UsualUnconditional(s) ==
  [status |-> s, create |-> "create", adopt |-> FailIfMissing(s), report |-> SimpleReport(s)]

\* The usual wrapper: a new object is created if missing, an external one is
\* only looked up, and the report is that of the status.
Usual(s) ==
  [status |-> s, create |-> CreateIfMissing(s), adopt |-> FailIfMissing(s),
   report |-> SimpleReport(s)]

(***************************************************************************)
(* Status, by kind                                                         *)
(***************************************************************************)

\* Succeeded, or Running with the condition Ready
podStatus(o) == Found(o, o.parts[1] = "ready")

\* The condition Complete
jobStatus(o) == Found(o, o.seen.ready >= 1)

\* Bound to a volume
persistentVolumeClaimStatus(o) == Found(o, o.seen.ready >= 1)

\* The pods that were created, ready or not, against the share asked for
replicaSetStatus(o, factor) ==
  IF getPercentageFails(factor) THEN "error"
  ELSE Found(o, o.seen.current * 100 >= Size * factor)

\* The report has the ratio upside down, and neither branch blocks; "panic"
\* is the division by zero while no pod has been created.
replicaSetReport(o, factor) ==
  IF ~o.present \/ getPercentageFails(factor)
  THEN [blocks |-> TRUE, percentage |-> 0]
  ELSE IF o.seen.current = 0 THEN [blocks |-> FALSE, percentage |-> "panic"]
  ELSE [blocks |-> FALSE, percentage |-> (Size * 100) \div o.seen.current]

\* Mutation: the availability of the updated replicas is not asked for.
DeploymentUpdatedOnly(o) == Found(o, o.seen.current >= Size)

deploymentStatus(o) == Found(o, o.seen.current >= Size /\ o.seen.ready >= Size)

\* Holds as well before Kubernetes has published anything: 0 of 0.
daemonSetStatus(o) == Found(o, o.seen.current = o.seen.desired)

petsetStatus(o) == IF o.present THEN podsStateFromLabels(o) ELSE "error"

statefulsetStatus(o) == IF o.present THEN podsStateFromLabels(o) ELSE "error"

\* Each loop of serviceStatus hands out the address of its loop variable: by
\* the time the statuses are asked for, every element is the last of its list.
serviceStatus(o) ==
  LET listed(l) == {i \in l : o.parts[i] # "none"}
  IN IF o.present
     THEN resourceListStatus({Max(listed(l)) : l \in {m \in Lists : listed(m) # {}}}, o)
     ELSE "error"

configMapStatus(o) == Found(o, TRUE)
secretStatus(o) == Found(o, TRUE)
serviceAccountStatus(o) == Found(o, TRUE)

(***************************************************************************)
(* The kinds                                                               *)
(***************************************************************************)
pod(o) == Usual(podStatus(o))
job(o) == Usual(jobStatus(o))
persistentVolumeClaim(o) == Usual(persistentVolumeClaimStatus(o))
daemonSet(o) == Usual(daemonSetStatus(o))
petSet(o) == Usual(petsetStatus(o))
statefulSet(o) == Usual(statefulsetStatus(o))
configMap(o) == Usual(configMapStatus(o))
secret(o) == Usual(secretStatus(o))
serviceAccount(o) == Usual(serviceAccountStatus(o))

\* Create and Wait ask for all the replicas, a dependent for its own share.
replicaSet(o, factor) ==
  [Usual(replicaSetStatus(o, factor)) EXCEPT !.report = replicaSetReport(o, factor)]

\* Create calls the API whatever it has found; an external deployment that is
\* not found ends the process.
deployment(o) ==
  LET s == deploymentStatus(o)
  IN [Usual(s) EXCEPT !.create = "create", !.adopt = IF s = "error" THEN "fatal" ELSE "keep"]

\* NewExisting leaves the API client out, and Status needs it once the
\* service is found.
service(o) ==
  [Usual(serviceStatus(o)) EXCEPT !.adopt = IF o.present THEN "panic" ELSE "fail"]

\* Nothing in the cluster stands behind a void.
void(o) ==
  [status |-> "ready", create |-> "keep", adopt |-> "keep", report |-> SimpleReport("ready")]

\* The keys of KindToResourceTemplate, flows aside
KindToResourceTemplate ==
  {"pod", "job", "persistentvolumeclaim", "replicaset", "deployment", "daemonset",
   "petset", "statefulset", "service", "configmap", "secret", "serviceaccount", "void"}

Resource(kind, o) ==
  CASE kind = "pod" -> pod(o)
    [] kind = "job" -> job(o)
    [] kind = "persistentvolumeclaim" -> persistentVolumeClaim(o)
    [] kind = "replicaset" -> replicaSet(o, 100)
    [] kind = "deployment" -> deployment(o)
    [] kind = "daemonset" -> daemonSet(o)
    [] kind = "petset" -> petSet(o)
    [] kind = "statefulset" -> statefulSet(o)
    [] kind = "service" -> service(o)
    [] kind = "configmap" -> configMap(o)
    [] kind = "secret" -> secret(o)
    [] kind = "serviceaccount" -> serviceAccount(o)
    [] kind = "void" -> void(o)
=============================================================================
