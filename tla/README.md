# Verification of k8s-AppController

AppController deploys Kubernetes objects in the order of a dependency graph. This
directory holds TLA+ models of its core logic, the TLC configurations that check them on
small instances, and proofs, checked by TLAPS, of what holds for every graph.

## The system

| Component | State | Operations | Talks to |
|---|---|---|---|
| Graph deployment engine, `pkg/scheduler/scheduler.go` | per resource: `Started`, `Ignored`, `Error`, `status`, a mutex; per deployment: channels `toCreate` and `created`, the semaphore `ccLimiter`, `stopChan` | `Deploy`, `createResources`, `RequestCreation`, `IsBlocked`, `Status`, `ResetStatus`, `Wait`, `ignoreAll` | the API server through `Resource.Create/Delete/Status`; runs the finalizer the graph builder has composed |
| Task controller, `controller.go` | the queue of config maps, the shared `processing`, the abort channel | `enqueueTasks` (informer events), `deployTasks` (loop), the deferred end of each deployment goroutine | informer, frontend, config maps |
| Replica space, `dependency_graph.go` 396-553, 841-866 | `Replica` records (`Deployed`, creation time, UID) in the cluster | `allocateReplicas`, `createReplicas`, the acknowledging finalizer | called by `BuildDependencyGraph`, finalizer run by the engine |
| Deletion finalizers, `dependency_graph.go` 750-839, `scheduler.go` 421-462 | resources and records of destructed replicas, the channel of failures | `getResourceDestructors`, `deleteReplicaResources`, `runConcurrently`, `deleteResource` | API server |
| Graph builder, `dependency_graph.go` | resource definitions, dependencies, contexts | `BuildDependencyGraph`, `fillDependencyGraph`, `groupDependencies`, `filterDependencies` | dependency analyzer, replica space |
| Dependency analyzer, `dependency_analyzer.go` | none | `EnsureNoCycles`, `detectCycles` | called by the builder |
| Frontend, `frontend.go` | the config map of a task | `Serialize`, `FromConfig`, `CreateDeployment`, `Deploy`, `GetStatus` | controller, command line |
| Command line, `cmd/*.go` | third party resources; one bootstrap and one deploy container per pod | `bootstrap`, `deploy`, `run`, `get-status`, `wrap` | API server, frontend |
| Flow resource, `pkg/resources/flow.go` | `currentGraph`, the replicas of its context | `Create`, `Delete`, `Status` of a flow used as a resource | builder, engine |
| Resource kinds, `pkg/resources/*.go` | none of their own | `Create`, `Delete`, `Status`, report per kind | API server |
| Status report, `scheduler.go` 360-419, `pkg/report` | none | `GetNodeReport`, `GetStatus` | engine's `Status`, flow resource |
| Parametrization, `copier.go` and the field lists of the kinds | none | `CopyWithReplacements` | builder, kinds |
| API client, petset client | | REST, generated code | |

What is hard about it, and what makes each component correct:

- **Engine.** One goroutine per resource, one poller per attempt, one ticker per edge, all
  over mutexes of single resources and two channels that `Deploy` closes on return. Several
  tickers request the same resource; `IsBlocked` reads one parent after the other; retries
  delete what an earlier attempt's poller still looks at; `ignoreAll` walks a graph that is
  running. It is correct if resources are created in the order of the dependencies, once
  each, if the concurrency bound and the failure policies are kept, and if `Deploy` ends
  after, not before, its workers.
- **Task controller.** Events come in any order and repeat after a restart; `processing` is
  shared without a lock; a deployment ends by three calls between which the loop runs. It is
  correct if tasks run one at a time, in order, each to its end, and only a withdrawn task is
  aborted; where the second of sleep is too short for that, the models say what remains.
- **Replica space and finalizers.** The records are the only memory of an interrupted run.
  Correct: the count asked for is reached, without doubles, a live replica keeps all it
  shares with others, and no record goes before its resources.

- **Graph builder and analyzer.** A breadth-first walk without a set of visited vertices,
  blocks merged in the order of a map, once more with every replica; two selectors per flow, of
  which one may take precedence; cycles are looked for before names are evaluated. Correct:
  the verdict on cycles is exact, the walk ends, the graph has what the selectors describe
  and its edges agree from both sides, and what a surviving replica needs is not destroyed.
- **Resource kinds.** Every status is read at one moment and acted on at a later one, from
  counters that may be behind; any error counts as "not there"; the object may have two
  owners. Correct: a success has been a success, a race leaves the object, what is healthy
  is left alone.
- **Flow resource.** The inner deployment is a goroutine nobody waits for or stops, and all
  attempts share its graph. Correct: one replica per context, dependents after the whole
  flow, nothing orphaned, and the outer deployment not held up.
- **Frontend, command line, parametrization.** What is asked for travels through flags,
  strings in a config map, and a definition that may be another one by then. Correct: what
  is deployed later is what would have been deployed at once, nothing starts before the
  bootstrap is complete, one bad task does not stop the others, and arguments reach the pods.

`PROJECT.json` lists the hazards at their lines, with the properties that cover each.

## The modules

| Module | Models | Extends |
|---|---|---|
| `GraphDeploy` | `scheduler.go`: `Deploy` and every goroutine it starts | |
| `DeployOrder` | what a deployment promises: an abstract specification without goroutines | |
| `GraphRefinement` | the refinement mapping, `Order == INSTANCE DeployOrder WITH ...` | `GraphDeploy` |
| `MCGraphDeploy` | graphs and metadata for TLC | `GraphRefinement` |
| `GraphDeployProofs` | theorems: types, single request, semaphore, the finalizer comes last, no send on a closed channel, external resources | `GraphDeploy` |
| `GraphOrderProofs` | theorems: order of creation, reach of `ignoreAll`, what success means; `GraphDeploy` implements `DeployOrder` | `GraphDeployProofs`, `GraphRefinement` |
| `TaskController`, `MCTaskController` | `controller.go`, and `Deploy` of `frontend.go` as one step | |
| `TaskControllerProofs` | theorems: types, the queue, what runs at a time, what is deleted | `TaskController` |
| `ReplicaSpace`, `MCReplicaSpace` | `allocateReplicas`, `createReplicas`, both finalizers | |
| `ReplicaSpaceProofs` | theorems: types, the count, what deployed replicas keep, the order of deletions | `ReplicaSpace` |
| `Flows` | which dependency belongs to which path of which flow; the implicit DEFAULT flow | |
| `CycleAnalyzer` | `dependency_analyzer.go` | `Flows` |
| `GraphBuild`, `MCGraphBuild` | `BuildDependencyGraph`, `fillDependencyGraph`, the choice of destructors | `CycleAnalyzer` |
| `GraphBuildProofs` | theorems: the cycle check, the walks, the merges, the graph that is deployed, what is destroyed | `GraphBuild` |
| `Kinds` | `Status`, `Create` and the report of every kind of `pkg/resources` | |
| `ResourceKinds`, `MCResourceKinds` | one object between its workers and Kubernetes | `Kinds` |
| `ResourceKindsProofs` | theorems: types, races, what success means, what is left alone | `ResourceKinds` |
| `FlowResource` | `flow.go`, the worker of its node, the inner graph | |
| `FlowResourceProofs` | theorems: one replica, nothing orphaned, dependents after the flow | `FlowResource` |
| `FlowOptions` | flags to options to config map and back; the early returns of `BuildDependencyGraph` | |
| `Parametrization` | `copier.go` over the field lists of the kinds | |
| `Frontend`, `MCFrontend` | `cmd/bootstrap.go`, `deploy.go`, `run.go`, `get-status.go`, `client.New`, `frontend.go` | `FlowOptions`, `Parametrization` |
| `FrontendProofs` | theorems: bootstrap first, counts, scheduled as in place, arguments | `Frontend` |

The models meet at narrow places. `TaskController.RunDeploy` is a whole call of
`frontend.Deploy`, that is, `BuildDependencyGraph` followed by `Deploy`; `ReplicaSpace`
unfolds that call into allocation, deployment (`DeployResource`, a worker of `GraphDeploy` with
all its attempts) and finalizer. `GraphDeploy.FinalizerLast` is what lets `ReplicaSpace` run
the finalizer after the last resource, and `TaskController.OneAtATime` is what lets it run
one deployment after another, as far as it goes. `GraphBuild` stands between allocation and
deployment: `DeployableGraph` and `Mirrored` (a part of `MergeLosesNothing`) are what
`GraphDeploy` takes for granted of `Edges`, that they have no cycle and that `Requires` and
`RequiredBy` are the same relation. `FlowResource` puts one deployment inside another and keeps of the inner one
what `DeployOrder` promises; `ResourceKinds` unfolds what `GraphDeploy` calls `StatusFails`,
`CreateKeeps` and `CreateMakes`, and shows what two deployments that own the same object do
to it; `Frontend` is the way to all of them, with a task as one step where `TaskController`
has its own. `GraphDeploy` meets `DeployOrder` by `INSTANCE`; the other interfaces are by
name, because their state spaces multiply.

### GraphDeploy

`obj[r]` is the object of resource `r` as Kubernetes has it: `Absent` or a level of
readiness up to `Full`; success factors are levels (`Need`). `started`, `ignored`, `error`
and `status` are the fields of `ScheduledResource`. `tick[e]` is where the ticker goroutine
of an edge is, `wpc[r]` where the worker is, `pollers[r]` the attempts whose `Wait` still has
a poller, `mpc` where `Deploy` is. `queued`, `created` and `slots` are the contents of the
channels. Every section of code under a mutex is one step, except `IsBlocked`: it holds the
lock of the dependent (`LockFree`) while it asks one parent after the other, and reads
`Ignored` apart from `Status`; each of these reads is a step. The map in `PROJECT.json`
gives the lines of every action. Timeouts fire at any moment for the resources in
`MayTimeOut`. The kinds of resource are reduced to what the engine sees of them:
`StatusFails`, `CreateKeeps`, `CreateMakes` and, for `ExistingDeployment`, which ends the
process when the object is missing, `CreateFatal`.

### DeployOrder and GraphRefinement

`DeployOrder` knows of each resource whether it is waiting, requested or completed, the
highest level of readiness it has had, whether its failure is excused, and of the whole
whether it is running, finished or abandoned. `Request` needs the ordinary parents to have
reached `Ask` or to be excused; `Finish` needs everything completed. The mapping takes
`started` and `wpc` for the stage, the history variable `reached` for the level, `ignored`
for the excuse and `mpc` for the outcome; tickers, pollers, attempts, channels and the semaphore
are stutters. `Ask[p]` is any level no dependent of `p` asks less than: the shared
cache of "ready" makes more than that impossible to promise.

### TaskController

The loop of `deployTasks` is split at every lock operation and at every read of
`processing` that the finishing goroutine can get in between: the first read
(`LoopCheck`), the others under the mutex (`LoopLook`), the decision, the wait, the act.
`cond.Signal` is called without `cond.L`, so `Signal` reaches the loop only in `"waiting"`.
The finishing goroutine takes four steps: `RunDeploy`, `RunClear`, `RunDelete`,
`RunSignal`. `notified` is the informer: additions come in any order (after a restart the
list comes ordered by name), deletions once the config map is gone. A panic is followed by
a restart, which forgets everything but the config maps.

A deletion takes the one element out of the queue that has the name of the config map, wherever it is
(`RemoveTask`); the order of the others stays.

When the oldest task has changed the code sleeps for a second, so that the deletion of the
finished task's config map comes through first; nothing waits for it, and `WakeUp` may come at any
moment. What follows from a late deletion is all in the model: the finished task is deployed
again, its deletion event then aborts that run, an aborted run overlaps with the next one, clears
its `processing`, and so makes the loop close its channel, or panic. The history variable
`disturbed` notes whether, since the process was started, a user has withdrawn a task or
a sleep has ended with a deletion overdue (`Overdue`); `OneAtATime` is about the time before.
`OneUnstopped` and `DeletedWhenCompleted` are about all times.

### ReplicaSpace

A replica has a record, a UID, a creation time in whole seconds, its own resource, and a
share of the resource `Shared` that all replicas use. A deployment lists the records,
reuses unacknowledged ones, creates missing ones (discarding records that are not younger
than the listed ones, a second later), deletes leftovers, cuts the sorted list into what is
constructed or destructed, deploys, and acknowledges or deletes. `Interrupt` ends it
between any two API calls, and each call may fail. A worker reports a resource it has given up like
one it has created (`DeployResource`), and the finalizer acknowledges the replica all the same;
`dropped` remembers such resources. `graph` is the graph that is deployed: for a destruction it
has what the flow's destruction path consists of, which is `Shared` or nothing, and whatever
is in it is destroyed afterwards, also what other replicas use (`UsedHereOnly`). UIDs are given in any order, so a new
record can sort on either side of one of the same second. `MCReplicaSpace` gives the
requests `kubeac run` can make: no `-n`, `-n +n`, `-n -n`, `-n n`, and tasks written by hand
with limits. A negative absolute count only asks for a status and is not modelled.

### Flows, CycleAnalyzer, GraphBuild

A dependency is `[uid, parent, child, labels, arg]`; `uid` is its place in the list sorted by
time and UID, and stands for its metadata as well. Selectors and labels are sets of pairs.
A key is `kind/name`, with a suffix if the dependency has one; definitions are looked up by
`Base[k]`, without it. A resource that has no definition is `existing`; a kind there is not ends
the build with an error (`Refused`), a flow without a definition ends the process (`Undefined`).

`prepareContext` evaluates what a dependency says of its child's arguments with the arguments of
the parent's block. So one dependency may name different resources below different blocks of
its parent. In `GraphBuild` a resource gets a *context*: the flow has `Top`, and `Pass[a, v, r]`
is what the child gets of a dependency that says `a`, below a resource that got `v`, in
replica `r`. `Name[k, v, r]` is what resource `k` is called with the context `v`. Where the
properties say what a flow needs they speak of *uses*, pairs of a dependency and the context of
its parent, and of what can be reached from the flow by uses (`Scope`).

`CycleAnalyzer` takes one step per iteration of the loops of `detectCycles` and per call of its
two recursive functions, whose loops over maps go in any order. `visitVertex` is called
(`VisitVertex`) and returns (`LeaveVertex`): `stack` has the calls in progress, `ordered` is the
list they push to. `assignVertex` is called for a root (`AssignRoot`) and for children
(`AssignChild`) until there are none left (`CloseComponent`). `GraphBuild` continues when no
cycle was found: `blocks` is the tree of the walk, where each block knows its parent, and
`queue` the blocks whose children have not all been looked at. `Follow` is one iteration of the
loop over the dependencies of the first of them, in the order of their creation; which ones are
left can be told from `blocks` (`Pending`). `toMerge` has the entries of the map of blocks that
have not been merged, which `MergeEntry` takes in any order, `merging` the blocks of the entry
at hand, which `Merge` takes one by one. `graphs.deploy` is the graph `Deploy` gets,
`graphs.all` the second one that is built when replicas are destructed. Lists of
`ScheduledResource` are sets. The replicas come with the request: which lists there can be is
the result of `ReplicaSpace`.

One condition on what users write stands as a definition in `GraphBuild`, `ImplicitFlowUnused`:
where `groupDependencies` gives flow/DEFAULT its dependencies and the flow has a definition all the
same, no other flow uses it. These dependencies are added after the cycle check
(`dependency_graph.go` 600-604); if one closed a cycle the walk would not end. The theorems that
need it assume it, and `MCGraphBuild` has TLC evaluate it. Names are free: several keys
may have one name, and one key many. `MCGraphBuild` has names with the replica's in them, with
an argument in them that is given, passed on or missing, and two keys of one name.

### Kinds and ResourceKinds

An object is a record: `present`, the `parts` it stands for (a pod itself, the pods of a
controller, the volume of a claim, what a service selects) and the counters `seen` in its
status, which Kubernetes publishes when it likes (`Publish`). `Kinds` has one operator per
kind, a record of four answers: its `status`, what `create` does to a defined object after
`checkExistence`, what `adopt` does with an expected one, and its `report`. A failed API call is
`Missing(o)`, since no kind tells the two apart. `ResourceKinds` runs workers over one
object: `Look`, `Create`, `Wait`, `Delete` are the calls between which the other worker, or
Kubernetes, may act. The kind, whether the resource is external, the state at the start and
the number of workers are chosen in `Init`. A deletion takes effect at once: a pod that terminates
gracefully, and that `checkExistence` may still find meanwhile, is not modelled. `Hasty` names the kinds whose `Status` is ready
too early by their code, the properties say where that matters.

### FlowResource

The outer graph is reduced to the flow's node (`wpc`, `attempt`, `cached`) and one dependent,
the inner one to a worker per resource (`npc`) and one `Deploy` per attempt. `graph` is
`currentGraph`, named by its replicas, `{}` for nil; `owner[n]` is the `Deploy` whose
channel gets the message of inner node `n`, so that a second one on the same graph never
returns. `records` and `acked` are the `Replica` objects of this context; `allocateReplicas`
is folded into `Build` as far as its result goes. While `Create` has stored no graph, because
it is still building one or because it could not, `Status` looks at the existing replicas, and an
empty graph counts as finished; `early` notes that the dependent was let through then.
`Delete` runs the `Deploy` of the destruction itself, with a channel nothing closes: it
succeeds (`Destroy`), leaves resources and the record (`DestroyFails`), or, where a
resource of the destruction path waits for one that failed, does not return (`DestroyHangs`).
`Restart` is a crash before the
outer deployment is acknowledged, after which the same deployment starts again.

### FlowOptions, Parametrization, Frontend

Options are records with the field names of `DependencyGraphOptions`; a config map is a
function of the keys it has, so that a missing key, a malformed one and one that is read into
another field are different things. `Verdict` has the early returns of `BuildDependencyGraph`
in their order. In `Parametrization` a string of an object is the sequence of steps that
leads to it, and `Replaced` folds `copyRecursive` along it; the types of Kubernetes are given by
some of their strings (`Strings`). `Frontend` has the containers of the pods (`boot`), the
config maps of one namespace, and the definition of one flow, which changes at any moment;
`last` is a history variable, the answer to the last request, for the properties to relate
the command, the options it became, the definition it met and the replicas before and after.
A parameter is mandatory, has a default, or has the default "", which `GetArg` takes
for none. `stalled` is how the deploy process may come to a stop: it sleeps through a lost signal
(`AfterSignal`) until the next one, or `Deploy` does not return (`DeployHangs`) until a user calls the
task off or the process dies.
The assumptions on `Commands` and `HandWritten` say what the flags of `cmd/run.go` and a YAML
file can give.

## The runs

| Run | Instance | Properties |
|---|---|---|
| `graph_live` | a diamond, concurrency 1, one resource stuck with a timeout and `ignore-all`; 6.9 thousand states | `OnceOnly`, `SuccessMeansReady`, `DeployTerminates` |
| `graph_faults` | two parents and a common child; retries, `ignore`, `ignore-all`, timeouts, one failing call anywhere, a pod-backed kind; 1.1 million states | `TypeOK`, `DependenciesMet`, `IgnoreAllClosed`, `NoSendOnClosed`, `DeploysInOrder` |
| `graph_stop` | a fork of existing and own-Create kinds, two attempts each, stopped at any moment; 0.4 million states | `LimiterBalanced`, `ExternalUntouched` |
| `task_queue` | two tasks with three runs, one withdrawal, one crash and one failing call, or three tasks with two runs and one of these; two tasks in one second, an unreadable one, deletion events at any time; 2.7 million states | `TypeOK`, `QueueChronological`, `OneUnstopped`, `OneAtATime`, `DeletedWhenCompleted` |
| `replicas` | three deployments of any of six requests, one interruption, one failing call or worker, four UIDs, the shared resource on the destruction path or not; 1.8 million states | `TypeOK`, `DeployedIntact`, `RecordOutlivesResource`, `CountReached` |
| `graph_build` | every set of at most three of 19 dependencies, a large set with up to two left out, and one whose names clash; a flow with both selectors and the implicit DEFAULT flow; two replicas, constructed or one destructed; 0.6 million states | `TypeOK`, `VerdictExact`, `NoRepetition`, `MergeLosesNothing`, `DeployableGraph`, `ExclusiveDestroyed` |
| `kinds` | all 13 kinds, defined or external, three parts, two workers with two attempts, one failing call, timeout or broken part; 0.2 million states | `TypeOK`, `DoneMeansServed`, `RaceLeavesObject`, `HealthyKept`, `Converges` |
| `flow_resource` | a flow of two resources, two attempts, an absolute or a relative outer count, three replicas ever, one failing call, one crash; 0.11 million states | `OneReplica`, `DependentAfterFlow`, `NoOrphans`, `FlowEnds` |
| `frontend` | two pods, three command lines, two config maps written by hand, four definitions and a cycle, two runs, one change, one failing call or crash; 0.25 million states | `BootstrappedBeforeDeploy`, `CountAsDocumented`, `ScheduledLikeInPlace`, `EveryParameterBound`, `ParametersReachPods`, `QueueMoves` |

Why the bounds are enough to be of interest: two parents are what it takes for tickers to
race for a child and for `IsBlocked` to look at a parent too early; two attempts are what it
takes for a poller to outlive its attempt; a concurrency of one is the most likely to block;
three tasks are what it takes for one to be deployed, one to be last in the queue and one
to be inserted between them; two tasks and three runs are what it takes for a task to be
deployed a second time and to run into the next one (both at once are past what TLC does in minutes;
the constraint `ThreeTasksOrRuns` of `MCTaskController` stops there);
a deployment that is interrupted, one that repairs, and one more cover every life of a
record, and four UIDs leave one record for each of them to discard; three dependencies make
every short cycle and chain of a walk, the large set has the resources with two parents and
two names, and two replicas are what it takes to share a resource; three parts let the last of a
list be ready before one in its middle, two workers are what it takes to race; three
replicas are one interrupted, one of the retry and one of the restart; two pods race for a
third party resource, and two runs are one that waits in the queue while the other one, or a
change of the definition, comes first. One fault and one
interruption fall in every place; combinations of two faults are left out. Every property
fails in at least one mutant of the modelled code, given in `PROJECT.json` and next to the
definition it changes (comments that begin with "Mutation").

`CHECK_DEADLOCK FALSE` stands where the model ends because its bounds are used up or
because the process waits for a user (`TaskController`, `ReplicaSpace`, `Frontend`), in
`GraphBuild`, which ends when the graph is built, and in `FlowResource`, which ends with the worker
and its dependent. `GraphDeploy` and `ResourceKinds`
have deadlock checked: `Terminated` is the only way to stop. That says little while a poller
runs, which is always able to ask again; that a deployment really gets to its end is what
`DeployTerminates` says.

Liveness is checked in `graph_live` under `FairSpec`: weak fairness of the deployer, the
dispatcher, each worker, poller and ticker (goroutines that can run do), and of an object's
progress unless it is `Stuck`; strong fairness of `MarkIgnored` only, which needs a mutex that
tickers keep taking and giving back: Go's `sync.RWMutex` does not let a waiting writer
starve. `task_lost_wakeup` has weak fairness of the enqueuer, of the loop, of every
goroutine and of the restart after a panic. `Converges` has weak fairness of the workers'
calls, but not of the timeout, which counts as a fault, and of what Kubernetes does for an object.
`FlowEnds` has weak fairness of the outer worker, of the inner nodes and of the inner
`Deploy`, but not of objects: that a flow never gets ready ends the worker by its timeout.
`QueueMoves` has weak fairness of the pods' containers, which the kubelet restarts, and of
the deploy process, and is conditional on a cluster that is upgraded, a cycle that is mended and a
process that does not stay stalled: without a further signal, or somebody who ends a `Deploy`
that does not return, the queue need not move.

### Where the code does not do what its documents say

Each of these runs checks what a document, a comment or a test says, and TLC finds an
execution in which the code does otherwise. The quotes are in `PROJECT.json`.

- `graph_stop_panic`: after a stop, a worker or ticker that is past its select sends on a
  channel `Deploy` has closed. Without a stop this cannot happen (proved).
- `task_lost_wakeup`: the signal for a new task comes just before `cond.Wait`.
- `flow_retry`: the timeout of a flow deletes its resources, and the next `Create` runs on the
  same inner graph, where everything is started and ready: the flow is reported ready
  and nothing of it exists.

The models have more, each stated by a property that the modules carry and no run of the
project checks. A config beside the module shows the first seven (`tlc -config X.cfg M`).

| Property, config | What happens |
|---|---|
| `NoTaskLost`, `TaskLateEvent.cfg` | Nobody withdraws anything and nothing fails, but the deletion event of the first task takes longer than the second of sleep. The first task is deployed again, aborted, and clears `processing` when the second one is being deployed; the loop closes the second one's channel (`controller.go` 150-153), and its config map is deleted with the task half deployed. |
| `ChronologicalQueue`, `TaskVersions.cfg` | Two tasks of one second, and the versions of the cluster get a digit more: '10' is before '9' (`controller.go` 115), and the newer task goes first, though tasks are picked "one by one in chronological order" (`controller.go` 32) and sorted "in order they were created" (`docs/flows.md` 274-275). |
| `SharedResourceKept`, `ReplicasShared.cfg` | A resource all replicas share is on the destruction path, and is deleted with the first replica that is destructed (`dependency_graph.go` 757): in the destruction graph it has destructed users only. "After deployment, delete all resources that belong exclusively, to replicas being deleted" (`docs/flows.md` 224). |
| `DestructionHasPriority`, `BuildPriority.cfg` | A destruction selector that does not extend the construction selector has no priority over it (`dependency_graph.go` 231), although it "will have priority" (`docs/flows.md` 127-128). |
| `AcyclicGraph`, `BuildCycle.cfg` | pod/$x, given "a", is pod/a; it requires cm/c, which requires pod/a. No two keys are on a cycle, two names are, and their resources are never requested (`dependency_graph.go` 598-604). |
| `DependentNeverEarly`, `FlowEarly.cfg` | A dependent asks for the status of a flow that has no graph yet, or never gets one because `Create` failed on its last attempt; `Status` builds an empty graph, which is ready (`flow.go` 154-170). |
| `UndeclaredArgsKept`, `FrontendUndeclared.cfg` | `--undeclared-args` gets lost between the config map and the options (`frontend.go` 81), and a run that would be deployed in place is refused. |
| `DependenciesMet` with `Full = 2` | Two dependents ask different success factors of one parent, and the answer to the one is cached as "ready" for the other (`Status`, `scheduler.go` 145). |
| `SuccessMeansReady` with two attempts | A poller caches "ready" between `ResetStatus` and `Delete`, and the retry succeeds although the object has just been deleted (`scheduler.go` 217). |

Further divergences met on the way, which no run checks. In the engine: a ticker can check
between `ignoreAll`'s mark on the parent and the one on the dependent, which is then created
(299); an `on-error` dependent can start
before its parent exists, since "not found" is an error (`scheduler.go` 170, 223); a timeout
that races the last poll leaves "ready" and `Error` set together, and then blocks
`on-error` dependents for good (130, 172); `GetNodeReport` works out what blocks a node without
the `Ignored` flag and the `on-error` rule of `IsBlocked` (363); a failed `Create` on the last attempt
skips the `on-error` policy (264); a resource that was given up counts like one
that was created, so that its replica is acknowledged as deployed (281). Around it: "not ready yet" is an error for Service, StatefulSet and
PetSet (`common.go` 97); `processing` can turn nil between two reads of the same condition,
or be cleared by an aborted run just before it is dereferenced, nil dereferences the model
includes as `LoopLook`'s panic and `NilDereference` (`controller.go` 129, 164); the deployment of
a withdrawn task is told to stop and not waited for, so that the next starts next to it (145);
any error of a build
deletes the task (173), except for a cycle, where `log.Fatal` ends the process with the task
still there, to end it again after a restart (`dependency_analyzer.go` 177). In the graph
builder: a crash between two acknowledgements can leave an unacknowledged replica older than a
deployed one, and the next relative run takes the wrong one for new (`dependency_graph.go`
490); leftovers are deleted without their resources
(548); `success_factor` and `on-error` are not found when the parent's name has parameters, since
metadata is kept under the raw name (721); of several dependencies between the same two
resources the metadata that survives need not be the latest, since blocks of other arguments of
the parent are merged in between (740); the lists of a resource double with every replica
until they are made unique (726-743); the components an error message names may contain vertices
that are on no cycle (`dependency_analyzer.go` 58); flows that use each other or DEFAULT pass
the check, which looks at each flow alone and before the implicit edges of DEFAULT are
added, and are then built within each other without end (600-604). In the kinds: `Deployment.Create` calls the API also for a deployment it has found, so that
the attempt fails and the retry deletes a healthy deployment (`deployment.go` 96-103);
`replicaSetReport` has its ratio upside down, never blocks, and divides by zero while no pod
has been created (`replicaset.go` 98); a ReplicaSet is ready when its pods exist, a
DaemonSet before its status is published, a PetSet or StatefulSet when the pods there are so far are
ready; `existingService` has no API client (`service.go` 65), and a Service's status takes the
address of loop variables, so that it looks at the last object of each list only (88). In the
flow: a restart under a
relative outer count leaves two replicas in the context (126); a second `Deploy` on the
shared graph never returns (132), and one that `Delete` runs may hold the worker of the outer graph
for good (149); `Delete` leaves resources of replicas that were never
acknowledged. In the frontend: a parameter whose default is "" stays a reference
(`dependency_graph.go` 322); a crash before the deletion
of the config map repeats a relative task, which adds its replicas again where docs/flows.md:270 has it continue; in
a controller's selector parameters stay as they are, while the labels of its template get
their values.

## The proofs

The theorems hold for every value of the constants that the assumptions of the modules allow,
so for bounds of any size; TLC evaluates these assumptions in each run. What they amount to:

- `GraphDeploy`: any finite graph, metadata, concurrency and number of faults.
  Acyclicity is not needed by any of the proofs.
- `ResourceKinds`: any size, sets of workers, lists and kinds, number of attempts and faults.
- `FlowResource`: any number of resources, replicas, attempts, faults and crashes.
- `TaskController`: any finite set of tasks, any timestamps, and versions that grow with the age
  of the tasks (`ChronologyAssumption`); any number of crashes, failures and withdrawals, events at
  any time.
- `ReplicaSpace`: any finite set of UIDs and any sequence of requests, except
  absolute counts below zero, which only ask for a status.
- `GraphBuild`: any finite set of dependencies, any keys, suffixes, flows and selectors, any
  arguments, contexts and names (`KeysAssumption`, `ContextsAssumption`), any number of replicas to construct or to destruct, but not both in one request, which
  `allocateReplicas` never gives.
- `Frontend`: any command lines as `cmd/run.go` parses them, any config maps, any definitions. An
  argument is never `"$"`, which the model keeps for references that were not replaced; a negative
  minimum in a config map written by hand is left out, since `allocateReplicas` would panic on it.

Some theorems need more, which is written in their `ASSUME`: no stop (`~MayStop`), uniform success
factors, the default metadata, or `ImplicitFlowUnused`. None assumes anything about timing or about
the names of resources; where the code keeps a promise only for a while, the property says so
itself (`disturbed`, `early`, `dropped`).

| Theorem | Says | Inductive invariant |
|---|---|---|
| `TypeCorrect` | `[]TypeOK` | `CoreInv` |
| `RequestedOnce` | `[]OnceOnly` | `CoreInv` |
| `ConcurrencyBounded` | `[]LimiterBalanced` | `CoreInv` |
| `FinalizerAfterAll` | `[]FinalizerLast` | `CoreInv /\ CountInv` |
| `NoPanicWithoutStop` | `~MayStop`: `[]NoSendOnClosed` | `CoreInv /\ CountInv /\ NoSendOnClosed` |
| `ExternalStaysUntouched` | `ExternalUntouched` (action property) | `TypeOK /\ DeleteInv` |
| `IgnoreAllReachesAll` | `[]IgnoreAllClosed` | `CoreInv /\ IgnoreInv` |
| `OrderInvariant` | for any levels below what dependents ask: `[]OrderInv(Low)` | `CoreInv /\ OrderInv(Low)` |
| `DependenciesRespected` | uniform success factors: `[]DependenciesMet` | `OrderInv` with `Low` = `Full` |
| `SuccessIsReady` | `DefaultMetadata`: `[]SuccessMeansReady` | `TypeOK /\ TodoInv /\ ReadyInv` |
| `ImplementsOrder` | `DeploysInOrder`, that is `Order!Spec` | `CoreInv /\ OrderInv(Ask) /\ FinalizerLast` |
| `KindsTypeCorrect` | `[]TypeOK` | `TypeOK` |
| `RaceIsHarmless` | `[]RaceLeavesObject` | `TypeOK /\ RaceInv` |
| `SuccessMeansServed` | `[]DoneMeansServed` | `TypeOK /\ ServedInv` |
| `HealthyIsKept` | `[]HealthyKept` | `TypeOK /\ HealthyInv` |
| `OneReplicaAtMost` | `[]OneReplica` | `FlowInv` |
| `NothingOrphaned` | `[]NoOrphans` | `FlowInv` |
| `DependentWaitsForFlow` | `[]DependentAfterFlow` | `FlowInv /\ ShownInv` |
| `TaskTypesCorrect` | `[]TypeOK` | `QueueOK` |
| `QueueAlwaysChronological` | `[]QueueChronological` | `QueueOK` |
| `LastOneCounts` | `[]OneUnstopped` | `QueueOK /\ TaskOfInv /\ RunsInv` |
| `DeploysOneByOne` | `[]OneAtATime` | `QueueOK /\ TaskOfInv /\ ControlInv` |
| `ConfigMapOutlivesTask` | `[]DeletedWhenCompleted` | `QueueOK /\ TaskOfInv /\ RunsInv` |
| `ReplicaTypesCorrect` | `[]TypeOK` | `Invariant` |
| `DeployedStayIntact` | `[]DeployedIntact` | `Invariant /\ DeployedIntact` |
| `RecordsOutliveResources` | `RecordOutlivesResource` (action property) | `Invariant` |
| `CountAlwaysReached` | `[]CountReached` | `Invariant /\ CountReached` |
| `TypeCorrect` (builder) | `[]TypeOK` | `BuildInv` |
| `VerdictIsExact` | `[]VerdictExact` | `AnalyzerInv /\ VerdictInv` |
| `MergeIsComplete` | `[]MergeLosesNothing` | `BuildInv` |
| `WalkEnds` | `ImplicitFlowUnused`: `[]NoRepetition` | `BuildInv /\ AboveInv` |
| `GraphIsDeployable` | `ImplicitFlowUnused`: `[]DeployableGraph` | `BuildInv` |
| `DestroysExclusively` | `[]ExclusiveDestroyed` | `BuildInv` |
| `ResourcesBeforeProcess` | `[]BootstrappedBeforeDeploy` | `BootInv` |
| `ScheduledIsInPlace` | `[]ScheduledLikeInPlace` | `TaskInv` |
| `RunsAsDocumented` | `[]CountAsDocumented` | `TaskInv /\ AnswerInv` |
| `ParametersBound` | `[]EveryParameterBound` | `TaskInv /\ AnswerInv` |

### Why these invariants

**The graph.** `CoreInv` joins `TypeOK`, `OnceInv` and `LimiterBalanced`, because none is inductive
alone: a counter stays in `Nat` only since the semaphore is released by those who hold it, and a
request is unique only since whoever is in `toCreate` or has a worker is `Started`, and one
ticker at a time is past the second look at `Started`. `CountInv` says that `created` plus
`collected` is the number of finished workers until a stop, so that `Deploy` returns with
all of them done. `IgnoreInv` keeps the frontier of an `ignoreAll` call alive while its worker
is in it. `DeleteInv` says that a worker gets as far as `Delete` only for what it may delete.
`OrderInv(Low)` follows a parent's answer through the ticker: a parent that is
neither in `todo` nor in `erred` of a checking ticker, and a cached "ready", both mean
that `Low` was reached. The parameter is the point: the shared cache breaks
`DependenciesMet` for mixed success factors, and what is left
is a guarantee for the lowest level asked, which `OrderInvariant` states.

`SuccessIsReady` needs the metadata to be the default one, which the constants of `graph_live`
satisfy: one attempt and no `success_factor`. `ReadyInv` says that "ready", cached or
answered, then means `Full`, and that a worker that ends without it has given up. It is false
beyond that: with retries, the poller of an earlier attempt may cache "ready" for the object
that the next attempt deletes and creates anew; with a lower factor the cached "ready"
stands for less than `Full`.

`ImplementsOrder` takes each of these invariants for one kind of step: `OrderInv(Ask)` gives
the guard of `Request` when a ticker sets `started`, `CoreInv` that a resource is requested
before its worker is done with it, `FinalizerLast` the guard of `Finish`; all other steps are
shown to leave the mapping alone.

**Resource kinds.** `RaceInv` says that without faults an object is there or
somebody is still going to create it: whoever deletes goes on to look, and whoever gives up has
found it there. `ServedInv` follows success back in time for the kinds that wait for their
parts: counters that say "all ready" were published of an object that was in full
service once, though the object may have changed since. `HealthyInv` says that an object that
was in service when the workers arrived is whole, and that the workers do no more than
look at it. The deployment is excepted, since its `Create` calls the API even for an object it
has found, is refused, and retries after deleting it.

**Flows as resources.** `OneReplica` is kept by `RecordsInv`: at most one replica is
unacknowledged at any time, because the next `allocateReplicas` uses it before it creates
any, and under an absolute count it is the only one. `GraphInv` says that the
graph is set once in the life of a process and that until a retry deletes the flow its replicas have
records; without it nothing keeps an inner node from working for a replica that
is gone. `ShownInv` takes "ready", cached at either level, back to resources that were
ready, unless `early` says that a look without a graph was the first to be answered and cached.

**Tasks.** The queue is kept in order by `isBefore`, so `QueueOK` needs that `isBefore` is
a strict order, whatever the versions (`StringLessIrreflexive`, `StringLessTransitive`), and that
insertion at the place `enqueueTasks` finds keeps a sorted list sorted; only then does
`ChronologyAssumption` relate that order to the order of creation. `RunsInv` holds at all times:
a run that deploys has been told to stop or is the one `abortChan` belongs to, so that
there is one at most that has not. `ControlInv` is about a process that has not been disturbed,
and there about
the gap between `clearProcessing` and the deletion of the config map, in which `processing` is
nil while the task is still in the queue. A task is *open* until the informer
has taken it out of the queue. One is open at a time (`RunInv`), and while it is, the end of the
queue differs from `lastBack`, so that the loop decides to sleep and not to start
another (`LoopInv`); if the sleep ends too early for it, the process counts as disturbed.
`DeletedInv` says that nothing but the end of a task deletes its config map. From there on
only `RunsInv` is left, and the runs show what happens instead.

**The cycle check.** `detectCycles` is not Kosaraju's algorithm, so the theorem cannot be that of
the textbook. `SearchInv` is about the first phase: the calls in progress form a path, what
has been left has only visited children, and `visited` is what is on the stack, in the list or in a
component. `AcyclicInv` says that *without* a cycle a vertex is listed after all its children, so
that the second phase finds them assigned and every component is a single vertex.
`ComponentInv` is what the other direction needs: a closed component has no edges to vertices
that have none yet, and if all components are single vertices, every set of assigned vertices has one
without edges to others of the set. So the components prove that there is no cycle but those of a
vertex with itself, which are looked for apart. `VerdictInv` sums this up over the paths that
have been looked at.

**The graph builder.** `BuildInv` follows a fill. `BlocksInv` says that every block comes from a
dependency in the scope of the flow, `WalkInv` that a walk does not end before it has been through the
whole scope: a block is in the queue or all its dependencies have been followed, so that when the queue is
empty the keys met are closed under the usable dependencies, and `Scope` is the least such set.
`GraphInv` ties the graph to the blocks in both directions: what a merged block says is in it
(`Known`), and what it says comes from a block (`Sound`); it speaks of all blocks of a fill, since
the merges after a replica meet those of earlier replicas again. `BuiltInv` carries the result past
the end of a fill, where the blocks are gone (`Built`, which speaks of `Scope` only). From it
follow `UsedWhereNeeded`, `Mirrored`, `MetadataKept` and `ExclusiveDestroyed` for each name at a
time, whatever the names: what is said of a name is said of all uses that lead to it.
`DeployableGraph` is about names of one key: a cycle of such names is one of keys, each of its
edges is an edge of the path that was checked, or one from the implicit DEFAULT flow, which nothing
leads back to (`ImplicitFlowUnused`). `AboveInv` says that no key, and not that of the flow
either, comes twice on the way down; it follows from the verdict, since a repetition would be
a set of keys each of which leads to another one.

Induction is out of the provers' reach, so that these proofs take a least counterexample
(`LeastNatural`, from the well-foundedness of `<`) or the least closed set where a textbook
has an induction over paths or positions.

**Replicas.** `Invariant` follows one deployment through its phases. `AllocateInv` says that the
list has all deployed replicas, and others only as far as the number asked for; `PlanInv` that
what is constructed or destructed makes that number, *if* the deployed replicas are older than the
leftovers in the list (`DeployedFirst`): `allocateReplicas` cuts the sorted list at a number, and
a younger deployed replica would be cut off. `ConstructInv` has every replica that is
acknowledged with all its resources but the dropped ones, `DestructInv` that a resource that is being destroyed
belongs to condemned replicas only, and the shared one to nobody else or to the graph. The
lemmas on the order of replicas (`OldestExists`, `SliceLength`, `SliceParts`) give every replica a
rank, the number of those before it, and cut the list at a rank.

**The frontend.** `BootInv` says that each bootstrap creates a prefix of the manifests, and that none
is ever deleted. `TaskInv` keeps with each config map the command line it came from, and
`RoundTrip` shows that `FromConfig` reads back what `Serialize` wrote, for all options but
`allowUndeclaredArgs`, the one that is read into another field. `AnswerInv` relates the last answer to
what was asked, to the definition it met and to the replicas there were, and the number
that the documentation of `-n` gives (`CountIsNatural`, `CountOfRun`).

### What is only model-checked

- `ParametersReachPods` of `Frontend`: a fact about constants, with a fold over paths. The kinds
  and their strings do not depend on the bounds, so that TLC's check is complete. Every other
  invariant of the passing runs is a theorem.
- The liveness properties `DeployTerminates`, `Converges`, `FlowEnds` and `QueueMoves`, which rest
  on fairness.

## What is not modelled, and the plan

Not modelled for good: the generated petset client and its conversions; `wrap`, which rewrites
its standard input; REST calls one by one; the text of reports and logs; in `copier`, the
reflection on pointers, interfaces and times; fields of Kubernetes objects that no status
reads. `GetNodeReport` is there as far as the status of a flow depends on it. Goroutines of
`runConcurrently` are interleaved in `ReplicaSpace` without its semaphore, which bounds them
but orders nothing. A flow within itself is not modelled: it is built without end.

In this order:

1. An abstract specification of the queue (tasks served in order, each to its end) for
   `TaskController`.
2. Node reports over a state of `GraphDeploy`, against `IsBlocked`.
3. Liveness of `on-error` and ignored dependents where the code grants it.
