---------------------------- MODULE TaskController ----------------------------
(***************************************************************************)
(* The deployment process: pkg/scheduler/controller.go.                    *)
(*                                                                         *)
(* Deployment tasks are config maps. An informer (external) reports their  *)
(* creation and deletion to enqueueTasks, which keeps a queue ordered from *)
(* the newest to the oldest task; deployTasks takes the oldest, runs it in *)
(* a goroutine and aborts it when its config map goes away. The goroutine  *)
(* ends by clearing `processing`, deleting the config map and signalling.  *)
(*                                                                         *)
(* `processing` is shared without a lock: the loop reads it again and      *)
(* again, and it can turn nil between two reads, which are steps of their  *)
(* own. cond.Signal is called without cond.L, so a signal that comes       *)
(* between the loop's check and its cond.Wait wakes nobody.                *)
(***************************************************************************)
EXTENDS Integers, SequencesExt

CONSTANTS
  Tasks,       \* the deployment tasks that can be created
  None,        \* nil
  Age,         \* Age[t]: position of t in the order of creation
  Timestamp,   \* Timestamp[t]: CreationTimestamp, in whole seconds
  Version,     \* Version[t]: ResourceVersion, the digits of a decimal number
  Invalid,     \* tasks whose config map or graph cannot be read
  MaxRuns,     \* bound on the number of deployment goroutines
  MaxCrashes,  \* bound on crashes of the process
  MaxFaults,   \* bound on failed API calls
  MaxWithdrawn \* bound on config maps deleted by users

ASSUME TasksAssumption == IsFiniteSet(Tasks) /\ None \notin Tasks /\ Invalid \subseteq Tasks

ASSUME ParameterAssumption ==
  /\ Age \in [Tasks -> Nat] /\ Timestamp \in [Tasks -> Nat] /\ Version \in [Tasks -> Seq(0 .. 9)]
  /\ MaxRuns \in Nat /\ MaxCrashes \in Nat /\ MaxFaults \in Nat /\ MaxWithdrawn \in Nat

\* Go's < on strings
StringLess(s, t) ==
  \E i \in 1 .. Len(t) :
    /\ i <= Len(s) + 1
    /\ \A j \in 1 .. i - 1 : s[j] = t[j]
    /\ i <= Len(s) => s[i] < t[i]

\* ResourceVersions grow with every write to the cluster.
ASSUME ChronologyAssumption ==
  /\ \A t, u \in Tasks : Age[t] = Age[u] => t = u
  /\ \A t, u \in Tasks : Age[t] < Age[u] =>
       /\ Timestamp[t] <= Timestamp[u]
       /\ \/ Len(Version[t]) < Len(Version[u])
          \/ Len(Version[t]) = Len(Version[u]) /\ StringLess(Version[t], Version[u])

VARIABLES
  \* the cluster and the informer
  present,    \* tasks whose config map exists
  created,    \* tasks whose config map has been created
  withdrawn,  \* tasks whose config map a user has deleted
  notified,   \* notified[t]: what the informer has told of t in this process
  \* enqueueTasks
  queue,      \* taskQueue, newest task first
  enqueuer,   \* "idle", or "signal" between listSync.Unlock and cond.Signal
  \* deployTasks
  loop,       \* where the loop is
  back, removed,             \* results of its last look at the queue
  lastBack, processing,      \* a task, or None
  abortChan,  \* the run the channel belongs to, or 0
  \* the deployment goroutines
  run,        \* run[k]: where goroutine k is
  taskOf,     \* taskOf[k]: the task it deploys
  aborted,    \* runs whose channel was sent to or closed
  completed,  \* history: tasks that were deployed to the end
  rejected,   \* history: tasks that were given up with an error
  disturbed,  \* history: whether, since the process was started, a user has withdrawn
              \* a task or a deletion has been later than the second of sleep
  crashes, faults

clusterVars == <<present, created, withdrawn>>
enqueueVars == <<notified, queue, enqueuer>>
loopVars    == <<loop, back, removed, lastBack, processing, abortChan>>
runVars     == <<run, taskOf, aborted, completed, rejected>>
boundVars   == <<disturbed, crashes, faults>>
vars == <<clusterVars, enqueueVars, loopVars, runVars, boundVars>>

Runs == 1 .. MaxRuns
Deploying == {k \in Runs : run[k] = "deploy"}
Queued == {queue[i] : i \in DOMAIN queue}

\* Every variable has its type, and a task is in the queue at most once.
TypeOK ==
  /\ present \subseteq created /\ created \subseteq Tasks /\ withdrawn \subseteq created
  /\ notified \in [Tasks -> {"no", "added", "deleted"}]
  /\ queue \in Seq(Tasks) /\ \A i, j \in DOMAIN queue : queue[i] = queue[j] => i = j
  /\ enqueuer \in {"idle", "signal"}
  /\ loop \in {"check", "look", "decide", "wait", "waiting", "act", "sleep", "panic"}
  /\ back \in Tasks \cup {None} /\ removed \in BOOLEAN
  /\ lastBack \in Tasks \cup {None} /\ processing \in Tasks \cup {None}
  /\ abortChan \in Runs \cup {0}
  /\ run \in [Runs -> {"none", "deploy", "clear", "delete", "signal", "done"}]
  /\ taskOf \in [Runs -> Tasks \cup {None}]
  /\ aborted \subseteq Runs /\ completed \subseteq Tasks /\ rejected \subseteq Tasks
  /\ disturbed \in BOOLEAN /\ crashes \in 0 .. MaxCrashes /\ faults \in 0 .. MaxFaults

Init ==
  /\ present = {} /\ created = {} /\ withdrawn = {}
  /\ notified = [t \in Tasks |-> "no"]
  /\ queue = <<>> /\ enqueuer = "idle"
  /\ loop = "check" /\ back = None /\ removed = FALSE
  /\ lastBack = None /\ processing = None /\ abortChan = 0
  /\ run = [k \in Runs |-> "none"] /\ taskOf = [k \in Runs |-> None]
  /\ aborted = {} /\ completed = {} /\ rejected = {}
  /\ disturbed = FALSE /\ crashes = 0 /\ faults = 0

Running == loop # "panic"

\* the loop does not hold listSync
Unlocked == loop # "look"

(***************************************************************************)
(* The cluster (external)                                                  *)
(***************************************************************************)

\* CreateDeployment, or a user's kubectl: tasks are created in order of age.
CreateTask(t) ==
  /\ t \notin created
  /\ \A u \in Tasks : Age[u] < Age[t] => u \in created
  /\ created' = created \cup {t} /\ present' = present \cup {t}
  /\ UNCHANGED <<withdrawn, enqueueVars, loopVars, runVars, boundVars>>

\* A user deletes the config map to call the deployment off.
WithdrawTask(t) ==
  /\ Cardinality(withdrawn) < MaxWithdrawn
  /\ t \in present
  /\ present' = present \ {t} /\ withdrawn' = withdrawn \cup {t}
  /\ disturbed' = TRUE
  /\ UNCHANGED <<created, enqueueVars, loopVars, runVars, crashes, faults>>

\* The process dies and is restarted; the informer lists what is present.
Restart ==
  /\ loop = "panic" \/ crashes < MaxCrashes
  /\ crashes' = IF loop = "panic" THEN crashes ELSE crashes + 1
  /\ disturbed' = FALSE
  /\ notified' = [t \in Tasks |-> IF t \in created \ present THEN "deleted" ELSE "no"]
  /\ queue' = <<>> /\ enqueuer' = "idle"
  /\ loop' = "check" /\ back' = None /\ removed' = FALSE
  /\ lastBack' = None /\ processing' = None /\ abortChan' = 0
  /\ run' = [k \in Runs |-> IF run[k] = "none" THEN "none" ELSE "done"]
  /\ UNCHANGED <<clusterVars, taskOf, aborted, completed, rejected, faults>>

(***************************************************************************)
(* enqueueTasks                                                            *)
(***************************************************************************)

IsBefore(a, b) ==
  IF Timestamp[a] = Timestamp[b] THEN StringLess(Version[a], Version[b])
                                 ELSE Timestamp[a] < Timestamp[b]

\* Mutation: the queue is not sorted.
AppendTask(t) == Append(queue, t)

\* Mutation: the walk goes on after the insertion, as if the break were missing.
InsertRepeatedly(t) ==
  LET older == {i \in DOMAIN queue : IsBefore(queue[i], t)}
  IN IF older = {} THEN Append(queue, t)
     ELSE [i \in 1 .. Len(queue) + Cardinality(older) |-> IF i <= Cardinality(older) THEN t
                                                          ELSE queue[i - Cardinality(older)]]

\* t goes before the first task of the queue that is older
InsertTask(t) ==
  LET older == {i \in DOMAIN queue : IsBefore(queue[i], t)}
  IN InsertAt(queue, IF older = {} THEN Len(queue) + 1 ELSE Min(older), t)

\* The walk ends where the task is found.
RemoveTask(t) ==
  IF t \in Queued THEN RemoveAt(queue, CHOOSE i \in DOMAIN queue : queue[i] = t) ELSE queue

\* case add := <-added. The initial list comes in the order of the names.
TaskAdded(t) ==
  /\ Running /\ Unlocked /\ enqueuer = "idle"
  /\ t \in created /\ notified[t] = "no"
  /\ notified' = [notified EXCEPT ![t] = "added"]
  /\ queue' = InsertTask(t)
  /\ enqueuer' = "signal"
  /\ UNCHANGED <<clusterVars, loopVars, runVars, boundVars>>

\* case del := <-deleted
TaskDeleted(t) ==
  /\ Running /\ Unlocked /\ enqueuer = "idle"
  /\ t \notin present /\ notified[t] = "added"
  /\ notified' = [notified EXCEPT ![t] = "deleted"]
  /\ queue' = RemoveTask(t)
  /\ enqueuer' = IF t \in Queued THEN "signal" ELSE "idle"
  /\ UNCHANGED <<clusterVars, loopVars, runVars, boundVars>>

\* cond.Signal wakes the loop if it is waiting, and is forgotten otherwise.
Signal == loop' = IF loop = "waiting" THEN "check" ELSE loop

EnqueuerSignal ==
  /\ Running /\ enqueuer = "signal"
  /\ Signal
  /\ enqueuer' = "idle"
  /\ UNCHANGED <<clusterVars, notified, queue, back, removed, lastBack, processing,
                 abortChan, runVars, boundVars>>

(***************************************************************************)
(* deployTasks                                                             *)
(***************************************************************************)

\* An element without neighbours that is not the front has been removed.
ProcessingNodeWasRemoved == processing # None /\ processing \notin Queued

\* the look at the queue, under the mutex, and the first read of processing
LoopCheck ==
  /\ loop = "check"
  /\ back' = IF queue = <<>> THEN None ELSE queue[Len(queue)]
  /\ removed' = FALSE
  /\ loop' = IF processing = None THEN "decide" ELSE "look"
  /\ UNCHANGED <<clusterVars, enqueueVars, lastBack, processing, abortChan, runVars, boundVars>>

\* The next reads, in `Front() != processing && processing.Prev() == nil`: if
\* processing has turned nil, its Prev is a nil dereference, unless it is still
\* compared with the front of an empty queue, which is nil as well.
LoopLook ==
  /\ loop = "look"
  /\ \/ /\ processing # None
        /\ removed' = ProcessingNodeWasRemoved
        /\ loop' = "decide"
     \/ /\ processing = None /\ queue = <<>>
        /\ loop' = "decide" /\ UNCHANGED removed
     \/ /\ processing = None
        /\ loop' = "panic" /\ UNCHANGED removed
  /\ UNCHANGED <<clusterVars, enqueueVars, back, lastBack, processing, abortChan, runVars,
                 boundVars>>

\* Mutation: a task in the queue is reason enough to act.
ActWhenQueued == removed \/ back # None

SomethingToDo == removed \/ (back # None /\ processing = None)

\* break, or go on to cond.Wait
LoopDecide ==
  /\ loop = "decide"
  /\ loop' = IF SomethingToDo THEN "act" ELSE "wait"
  /\ UNCHANGED <<clusterVars, enqueueVars, back, removed, lastBack, processing, abortChan,
                 runVars, boundVars>>

\* cond.Wait: from here on a signal is received
LoopWait ==
  /\ loop = "wait"
  /\ loop' = "waiting"
  /\ UNCHANGED <<clusterVars, enqueueVars, back, removed, lastBack, processing, abortChan,
                 runVars, boundVars>>

\* The task being processed is gone: its run is told to stop.
Abort ==
  /\ loop = "act" /\ processing # None
  /\ abortChan # 0
  /\ aborted' = aborted \cup {abortChan}
  /\ abortChan' = 0 /\ processing' = None
  /\ loop' = "check"
  /\ UNCHANGED <<clusterVars, enqueueVars, back, removed, lastBack, run, taskOf, completed,
                 rejected, boundVars>>

\* Mutation: the old channel is forgotten without being closed.
OldChannelForgotten == aborted

\* Nothing is being processed any more: the old channel is closed.
ClosedChannels == IF abortChan = 0 THEN aborted ELSE aborted \cup {abortChan}

\* The oldest task has changed: sleep for a second, and look again.
Settle ==
  /\ loop = "act" /\ processing = None
  /\ back # lastBack
  /\ aborted' = ClosedChannels /\ abortChan' = 0
  /\ lastBack' = back
  /\ loop' = "sleep"
  /\ UNCHANGED <<clusterVars, enqueueVars, back, removed, processing, run, taskOf, completed,
                 rejected, boundVars>>

\* A config map is still to be deleted by a run, or its deletion to be reported.
Overdue == \/ \E k \in Runs : run[k] = "delete"
           \/ \E t \in Tasks \ present : notified[t] = "added"

\* The second is over. It is there to let the deletion of a finished task's
\* config map come through, but nothing waits for it.
WakeUp ==
  /\ loop = "sleep"
  /\ loop' = "check"
  /\ disturbed' = (disturbed \/ Overdue)
  /\ UNCHANGED <<clusterVars, enqueueVars, back, removed, lastBack, processing, abortChan,
                 runVars, crashes, faults>>

\* back.Value with back = nil; or processing.Prev() after an aborted run, which
\* goes on for a while, has cleared the new value of processing
NilDereference ==
  /\ loop = "act" /\ processing = None
  /\ back = lastBack
  /\ back = None \/ \E k \in Runs : run[k] = "clear"
  /\ loop' = "panic"
  /\ UNCHANGED <<clusterVars, enqueueVars, back, removed, lastBack, processing, abortChan,
                 runVars, boundVars>>

\* processing.Prev(): the next newer task; nil if back has left the queue
Prev(t) ==
  IF \E i \in 2 .. Len(queue) : queue[i] = t
  THEN queue[(CHOOSE i \in 2 .. Len(queue) : queue[i] = t) - 1] ELSE None

\* abortChan = make(chan struct{}, 1)
NewChannel(k) == k

\* The oldest task is deployed by a goroutine of its own.
StartRun(k) ==
  /\ loop = "act" /\ processing = None
  /\ back = lastBack /\ back # None
  /\ run[k] = "none" /\ \A j \in 1 .. k - 1 : run[j] # "none"
  /\ aborted' = ClosedChannels /\ abortChan' = NewChannel(k)
  /\ processing' = back /\ lastBack' = Prev(back)
  /\ run' = [run EXCEPT ![k] = "deploy"] /\ taskOf' = [taskOf EXCEPT ![k] = back]
  /\ loop' = "check"
  /\ UNCHANGED <<clusterVars, enqueueVars, back, removed, completed, rejected, boundVars>>

Loop == LoopCheck \/ LoopLook \/ LoopDecide \/ LoopWait \/ Abort \/ Settle \/ WakeUp
        \/ NilDereference \/ \E k \in Runs : StartRun(k)

(***************************************************************************)
(* The goroutine of a deployment                                           *)
(***************************************************************************)

\* Mutation: Deploy is not waited for.
DeployNotAwaited(k) ==
  /\ Running /\ run[k] = "deploy"
  /\ run' = [run EXCEPT ![k] = "clear"]
  /\ UNCHANGED <<clusterVars, enqueueVars, loopVars, taskOf, aborted, completed, rejected,
                 boundVars>>

\* FromConfig and Deploy: the graph is built and deployed, or something is wrong
\* with it (its error is only logged), or Deploy sees the abort.
RunDeploy(k) ==
  /\ Running /\ run[k] = "deploy"
  /\ run' = [run EXCEPT ![k] = "clear"]
  /\ \/ /\ taskOf[k] \notin Invalid
        /\ completed' = completed \cup {taskOf[k]}
        /\ UNCHANGED <<rejected, faults>>
     \/ /\ rejected' = rejected \cup {taskOf[k]}
        /\ \/ taskOf[k] \in Invalid /\ UNCHANGED faults
           \/ faults < MaxFaults /\ faults' = faults + 1
        /\ UNCHANGED completed
     \/ /\ taskOf[k] \notin Invalid /\ k \in aborted
        /\ UNCHANGED <<completed, rejected, faults>>
  /\ UNCHANGED <<clusterVars, enqueueVars, loopVars, taskOf, aborted, disturbed, crashes>>

\* The deferred function: processing = nil, whoever is being processed
RunClear(k) ==
  /\ Running /\ run[k] = "clear"
  /\ processing' = None
  /\ run' = [run EXCEPT ![k] = "delete"]
  /\ UNCHANGED <<clusterVars, enqueueVars, loop, back, removed, lastBack, abortChan, taskOf,
                 aborted, completed, rejected, boundVars>>

\* The config map is deleted; an error is not looked at.
RunDelete(k) ==
  /\ Running /\ run[k] = "delete"
  /\ \/ present' = present \ {taskOf[k]} /\ UNCHANGED faults
     \/ faults < MaxFaults /\ faults' = faults + 1 /\ UNCHANGED present
  /\ run' = [run EXCEPT ![k] = "signal"]
  /\ UNCHANGED <<created, withdrawn, enqueueVars, loopVars, taskOf, aborted, completed, rejected,
                 disturbed, crashes>>

RunSignal(k) ==
  /\ Running /\ run[k] = "signal"
  /\ Signal
  /\ run' = [run EXCEPT ![k] = "done"]
  /\ UNCHANGED <<clusterVars, enqueueVars, back, removed, lastBack, processing, abortChan,
                 taskOf, aborted, completed, rejected, boundVars>>

Goroutine(k) == RunDeploy(k) \/ RunClear(k) \/ RunDelete(k) \/ RunSignal(k)

Enqueuer == EnqueuerSignal \/ \E t \in Tasks : TaskAdded(t) \/ TaskDeleted(t)

Next ==
  \/ \E t \in Tasks : CreateTask(t) \/ WithdrawTask(t)
  \/ Restart \/ Enqueuer \/ Loop
  \/ \E k \in Runs : Goroutine(k)

Spec == Init /\ [][Next]_vars

\* The informer delivers, the goroutines run, deployments end, and a process
\* that has panicked is restarted.
Fairness == /\ WF_vars(Enqueuer) /\ WF_vars(Loop) /\ WF_vars(loop = "panic" /\ Restart)
            /\ \A k \in Runs : WF_vars(Goroutine(k))

FairSpec == Spec /\ Fairness

(***************************************************************************)
(* Properties                                                              *)
(***************************************************************************)

\* Tasks created within one second get versions that are as many characters
\* long: the order of creation is then the order of the strings.
Comparable(t, u) == Timestamp[t] = Timestamp[u] => Len(Version[t]) = Len(Version[u])

\* enqueueTasks keeps the queue in the order of creation, newest first, whatever
\* the order the informer delivers the tasks in; of two tasks of one second
\* isBefore gets it right only if their versions are equally long.
QueueChronological ==
  \A i, j \in DOMAIN queue :
    i < j /\ Comparable(queue[i], queue[j]) => Age[queue[i]] > Age[queue[j]]

\* deployTasks never has two deployments at work but the ones before the last
\* have been told to stop, whatever is withdrawn, late, lost or restarted.
OneUnstopped == Cardinality(Deploying \ aborted) <= 1

\* Two things make deployments of deployTasks overlap or stop one that is
\* wanted: a user who withdraws a task, and a deletion that takes longer than
\* the second of sleep. Until one of them happens in the life of a process,
\* deployments follow one another and run to their end, through crashes, failed
\* deletions of config maps and events in any order.
OneAtATime == ~disturbed => Cardinality(Deploying) <= 1 /\ Deploying \cap aborted = {}

\* A config map that is gone was withdrawn, or its task was deployed to the end
\* or rejected, or a run of it was told to stop by deployTasks; a crash at any
\* point loses no task.
DeletedWhenCompleted ==
  created \ present \subseteq completed \cup rejected \cup withdrawn \cup {taskOf[k] : k \in aborted}

(***************************************************************************)
(* What the documentation says, and the code does not do                   *)
(***************************************************************************)

\* docs/flows.md: the deployment process "watches for config-maps with such
\* label ... and deploys one by one": every task is deployed in the end. It is
\* not when the wakeup of deployTasks is lost.
EveryTaskDeployed == \A t \in Tasks : t \in created ~> t \in completed \cup rejected \cup withdrawn

\* docs/flows.md: the process "sorts new config-maps in order they were
\* created"; isBefore compares versions as strings, and '10' comes before '9'.
ChronologicalQueue ==
  \A i, j \in DOMAIN queue : i < j => Age[queue[i]] > Age[queue[j]]

\* docs/flows.md: a scheduled deployment is one "that another process will pick
\* and deploy". If the deletion event of a finished task comes later than the
\* second of sleep, the finished task is deployed again, that run is told to
\* stop, and when it ends deployTasks takes the next task for finished: it closes
\* its channel, and the config map is deleted with the task half deployed.
NoTaskLost == created \ present \subseteq completed \cup rejected \cup withdrawn
=============================================================================
