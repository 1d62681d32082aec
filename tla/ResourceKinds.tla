--------------------------- MODULE ResourceKinds ---------------------------
(***************************************************************************)
(* The life of one resource in the cluster: workers of createResources     *)
(* (scheduler.go) that create it, wait for it and delete it on a retry,    *)
(* and Kubernetes, which makes it ready. Two graphs that are deployed side *)
(* by side (a flow and the graph it is in) may own the same object, so the *)
(* workers race. The kind, and whether the resource has a definition or is *)
(* expected in the cluster, are chosen at the start.                       *)
(***************************************************************************)
EXTENDS Kinds

CONSTANTS
  KindNames,   \* the kinds to look at
  Workers,     \* the workers that may own the resource
  Attempts,    \* its "retry" metadata
  AllowDeleteExternalResources,
  MaxFaults    \* bound on failed API calls, timeouts, and pods that break

ASSUME KindNamesAssumption == KindNames \subseteq KindToResourceTemplate
ASSUME AttemptsAssumption == Attempts \in Nat \ {0}
ASSUME MaxFaultsAssumption == MaxFaults \in Nat

VARIABLES
  kind, external,  \* the resource, as it is defined in the graph
  obj,             \* the object in the cluster
  wpc,             \* wpc[w]: where worker w is
  attempt,         \* attempt[w]: attemptNo
  faults,          \* failures that may still happen: API calls, timeouts, broken pods
  crash,           \* the process has died: log.Fatalf or a nil dereference
  healthy,         \* history: the object was ready at the start
  served,          \* history: all the object stands for was ready at once
  deleted          \* history: somebody deleted an object

vars == <<kind, external, obj, wpc, attempt, faults, crash, healthy, served, deleted>>

Fixed == UNCHANGED <<kind, external, healthy>>

\* The parts Kubernetes makes for an object of the kind
Own ==
  {i \in Parts :
     \/ kind \in {"replicaset", "deployment", "daemonset", "petset", "statefulset"}
     \/ kind \in {"pod", "job", "persistentvolumeclaim"} /\ i = 1}

\* PetSets and StatefulSets get their pods one by one.
Ordered == kind \in {"petset", "statefulset"}

\* Everything the object stands for is ready.
Serving(o) ==
  /\ o.present
  /\ \A i \in Own : o.parts[i] = "ready"
  /\ kind = "service" => \A i \in Parts : o.parts[i] \in {"none", "ready"}

TypeOK ==
  /\ kind \in KindNames /\ external \in BOOLEAN
  /\ obj \in Object
  /\ wpc \in [Workers -> {"off", "look", "create", "wait", "delete", "done", "failed"}]
  /\ attempt \in [Workers -> 1 .. Attempts]
  /\ faults \in 0 .. MaxFaults
  /\ crash \in BOOLEAN /\ healthy \in BOOLEAN /\ served \in BOOLEAN /\ deleted \in BOOLEAN

NoParts == [i \in Parts |-> "none"]
Unseen == [desired |-> 0, current |-> 0, ready |-> 0]

\* What Kubernetes publishes of an object with these parts
Counters(parts) ==
  [desired |-> Cardinality(Own),
   current |-> Cardinality({i \in Own : parts[i] # "none"}),
   ready   |-> Cardinality({i \in Own : parts[i] = "ready"})]

\* At the start the object is missing, or in service since long before. What a
\* service selects is there or not, whatever becomes of the service.
Init ==
  /\ kind \in KindNames
  /\ external \in BOOLEAN
  /\ kind = "void" => external
  /\ \E present \in BOOLEAN :
       \E parts \in [Parts -> {"none", "pending", "ready"}] :
         /\ kind # "service" =>
              parts = [i \in Parts |-> IF present /\ i \in Own THEN "ready" ELSE "none"]
         /\ obj = [present |-> present, parts |-> parts,
                   seen |-> IF present THEN Counters(parts) ELSE Unseen]
  /\ \E team \in SUBSET Workers :
       wpc = [w \in Workers |-> IF w \in team THEN "look" ELSE "off"]
  /\ attempt = [w \in Workers |-> 1]
  /\ faults = MaxFaults
  /\ crash = FALSE /\ deleted = FALSE
  /\ healthy = Serving(obj)
  /\ served = healthy

(***************************************************************************)
(* The workers                                                             *)
(***************************************************************************)

\* What an API call may make of the object: <<what it returns, its cost>>
Looks == {<<obj, 0>>} \cup (IF faults > 0 THEN {<<Missing(obj), 1>>} ELSE {})

MayDelete == ~external \/ AllowDeleteExternalResources

\* Mutation: the retry deletes, but does not create again.
WaitAfterDelete == "wait"

\* Every attempt creates, whether it has deleted or not.
AfterDelete == "look"

\* Mutation: one attempt too many.
OneMoreAttempt(w) == attempt[w] <= Attempts

MoreAttempts(w) == attempt[w] < Attempts

\* The attempt is over: another one, which starts with Delete, or none.
AttemptFailed(w) ==
  IF MoreAttempts(w)
  THEN /\ attempt' = [attempt EXCEPT ![w] = @ + 1]
       /\ wpc' = [wpc EXCEPT ![w] = IF MayDelete THEN "delete" ELSE "look"]
  ELSE /\ wpc' = [wpc EXCEPT ![w] = "failed"]
       /\ UNCHANGED attempt

\* Create begins by looking for the object.
Look(w) ==
  /\ wpc[w] = "look"
  /\ \E look \in Looks :
       LET r == Resource(kind, look[1])
           act == IF external THEN r.adopt ELSE r.create
       IN /\ faults' = faults - look[2]
          /\ \/ act = "keep" /\ wpc' = [wpc EXCEPT ![w] = "wait"] /\ UNCHANGED <<attempt, crash>>
             \/ act = "create" /\ wpc' = [wpc EXCEPT ![w] = "create"] /\ UNCHANGED <<attempt, crash>>
             \/ act = "fail" /\ AttemptFailed(w) /\ UNCHANGED crash
             \/ act \in {"fatal", "panic"} /\ crash' = TRUE /\ UNCHANGED <<wpc, attempt>>
  /\ Fixed /\ UNCHANGED <<obj, served, deleted>>

\* Client.Create makes the object. The pods left by an earlier one stay.
Create(w) ==
  /\ wpc[w] = "create"
  /\ ~obj.present
  /\ obj' = [obj EXCEPT !.present = TRUE, !.seen = Unseen,
               !.parts = IF kind = "pod" THEN [@ EXCEPT ![1] = "pending"] ELSE @]
  /\ served' = (served \/ Serving(obj'))
  /\ wpc' = [wpc EXCEPT ![w] = "wait"]
  /\ Fixed /\ UNCHANGED <<attempt, faults, crash, deleted>>

\* Client.Create fails: the object is there, or the call does not get through.
CreateFails(w) ==
  /\ wpc[w] = "create"
  /\ \/ obj.present /\ UNCHANGED faults
     \/ faults > 0 /\ faults' = faults - 1
  /\ AttemptFailed(w)
  /\ Fixed /\ UNCHANGED <<obj, crash, served, deleted>>

\* Wait: the poller has an answer.
Wait(w) ==
  /\ wpc[w] = "wait"
  /\ \E look \in Looks :
       LET s == Resource(kind, look[1]).status
       IN /\ faults' = faults - look[2]
          /\ \/ s = "ready" /\ wpc' = [wpc EXCEPT ![w] = "done"] /\ UNCHANGED attempt
             \/ s = "error" /\ AttemptFailed(w)
  /\ Fixed /\ UNCHANGED <<obj, crash, served, deleted>>

WaitTimeout(w) ==
  /\ wpc[w] = "wait"
  /\ faults > 0 /\ faults' = faults - 1
  /\ AttemptFailed(w)
  /\ Fixed /\ UNCHANGED <<obj, crash, served, deleted>>

\* Delete, before another attempt; an error is only logged. The parts go with
\* the object or stay behind as orphans; those of a service are not its own.
Delete(w) ==
  /\ wpc[w] = "delete"
  /\ \/ /\ \E parts \in IF Own = {} THEN {obj.parts}
                        ELSE IF kind = "pod" THEN {NoParts} ELSE {obj.parts, NoParts} :
             obj' = [obj EXCEPT !.present = FALSE, !.parts = parts, !.seen = Unseen]
        /\ deleted' = (deleted \/ obj.present)
        /\ UNCHANGED faults
     \/ faults > 0 /\ faults' = faults - 1 /\ UNCHANGED <<obj, deleted>>
  /\ wpc' = [wpc EXCEPT ![w] = AfterDelete]
  /\ Fixed /\ UNCHANGED <<attempt, crash, served>>

Worker(w) ==
  Look(w) \/ Create(w) \/ CreateFails(w) \/ Wait(w) \/ WaitTimeout(w) \/ Delete(w)

(***************************************************************************)
(* Kubernetes (external), as far as the kinds look at it                   *)
(***************************************************************************)
SetPart(i, state) ==
  /\ obj' = [obj EXCEPT !.parts[i] = state]
  /\ served' = (served \/ Serving(obj'))
  /\ Fixed /\ UNCHANGED <<wpc, attempt, crash, deleted>>

AddPart(i) ==
  /\ obj.present /\ i \in Own
  /\ obj.parts[i] = "none"
  /\ Ordered => \A j \in 1 .. i - 1 : obj.parts[j] = "ready"
  /\ SetPart(i, "pending") /\ UNCHANGED faults

PartReady(i) ==
  /\ obj.parts[i] = "pending"
  /\ SetPart(i, "ready") /\ UNCHANGED faults

PartBreaks(i) ==
  /\ faults > 0 /\ faults' = faults - 1
  /\ obj.parts[i] = "ready"
  /\ SetPart(i, "pending")

Publish ==
  /\ obj.present
  /\ obj' = [obj EXCEPT !.seen = Counters(obj.parts)]
  /\ served' = (served \/ Serving(obj))
  /\ Fixed /\ UNCHANGED <<wpc, attempt, faults, crash, deleted>>

Kubernetes == Publish \/ \E i \in Parts : AddPart(i) \/ PartReady(i) \/ PartBreaks(i)

Terminated ==
  /\ crash \/ \A w \in Workers : wpc[w] \in {"off", "done", "failed"}
  /\ UNCHANGED vars

Next ==
  \/ ~crash /\ \E w \in Workers : Worker(w)
  \/ ~crash /\ Kubernetes
  \/ Terminated

\* Goroutines run; Kubernetes keeps making parts, getting them ready and
\* publishing it.
Fairness ==
  /\ \A w \in Workers : WF_vars(~crash /\ (Look(w) \/ Create(w) \/ CreateFails(w) \/ Wait(w) \/ Delete(w)))
  /\ WF_vars(~crash /\ Publish)
  /\ \A i \in Parts : WF_vars(~crash /\ (AddPart(i) \/ PartReady(i)))

Spec == Init /\ [][Next]_vars /\ Fairness

(***************************************************************************)
(* Properties                                                              *)
(***************************************************************************)

\* The kinds whose Status is "ready" before what they stand for is: it counts
\* pods that exist (replicaset), compares counters nobody has published yet
\* (daemonset), asks the pods that are there so far (petset, statefulset), or
\* asks the last of each list (service).
Hasty == {"replicaset", "daemonset", "petset", "statefulset", "service"}

NoFaults == faults = MaxFaults
Idle(w) == wpc[w] \in {"off", "done", "failed"}

\* A worker that reports success has seen its object in full service, whatever
\* the other worker deleted and recreated meanwhile: the Status of the kinds
\* that are not hasty is never satisfied with less.
DoneMeansServed ==
  \A w \in Workers : wpc[w] = "done" /\ kind \notin Hasty \cup {"void"} => served

\* Two workers that look for the same object, create it and delete it before a
\* retry do not end with the object gone, however their steps interleave.
RaceLeavesObject ==
  /\ ~external /\ NoFaults
  /\ \E w \in Workers : wpc[w] # "off"
  /\ \A w \in Workers : Idle(w)
  => obj.present

\* Deploying what is deployed already does no harm: an object that was ready
\* from the start is not deleted. Deployments are the exception: Create does
\* not skip what it has found, and the retry deletes it.
HealthyKept ==
  healthy /\ NoFaults /\ kind # "deployment" => ~deleted

\* A single worker whose calls succeed ends with success; a kind that takes
\* "a pod is not ready yet" for a failure may use up its attempts first.
Converges ==
  /\ ~external
  /\ Cardinality({w \in Workers : wpc[w] # "off"}) = 1
  /\ kind \notin {"petset", "statefulset", "service"}
  /\ kind = "deployment" => ~obj.present
  => <>(\/ \E w \in Workers : wpc[w] = "done"
        \/ faults < MaxFaults)
=============================================================================
