------------------------------ MODULE Frontend ------------------------------
(***************************************************************************)
(* The commands around the scheduler: cmd/bootstrap.go, cmd/deploy.go,     *)
(* cmd/run.go, cmd/get-status.go, client.New and pkg/scheduler/frontend.go.*)
(*                                                                         *)
(*   - in every pod a bootstrap container creates the third party          *)
(*     resources, which all pods of the cluster share, before the container*)
(*     of the deploy process starts; each is restarted when it fails;      *)
(*   - users run flows, in place or by way of a config map, write config   *)
(*     maps by hand, ask for the status, and change the flow meanwhile;    *)
(*   - the deploy process takes the config maps in order and deletes each  *)
(*     one when it is done with it (module TaskController has the details).*)
(*                                                                         *)
(* One flow is defined; DEFAULT is there in any case. The deployment of a   *)
(* flow is a single step here, or does not end: modules ReplicaSpace and   *)
(* GraphDeploy tell what happens in it.                                    *)
(***************************************************************************)
EXTENDS FlowOptions, Parametrization

CONSTANTS
  Pods,         \* pods of AppController, each in a namespace of its own
  Home,         \* the one whose namespace is looked at
  Commands,     \* command lines: label, concurrency, flow, args, ...
  HandWritten,  \* config maps that are created without the command line
  Flows,        \* the definitions the flow may have
  MaxCommands,  \* bound on the runs, scheduled or in place
  MaxChanges,   \* bound on changes of the definitions
  MaxFaults     \* bound on failed calls of bootstrap and client.New, and on crashes

ASSUME HomeAssumption == Home \in Pods
ASSUME FlowsAssumption == Flows \subseteq Flow

FlowNames == {Default, "web"}

\* Arguments by the names of parameters. "$" stands for a reference that was not
\* replaced, never for a value.
ArgumentsOK(args) ==
  /\ DOMAIN args \subseteq Params /\ args \in [DOMAIN args -> STRING]
  /\ \A p \in DOMAIN args : args[p] # "$"

\* A command line as it was parsed (run): without -n there is no number, and one
\* without a sign is not negative.
ASSUME CommandsAssumption == \A c \in Commands :
  /\ ArgumentsOK(c.args)
  /\ c \in [label : STRING, concurrency : Int, flow : FlowNames, given : BOOLEAN, signed : BOOLEAN,
            n : Int, args : {c.args}, anyArgs : BOOLEAN, deleteExternal : BOOLEAN]
  /\ ~c.given => ~c.signed /\ c.n = 0
  /\ ~c.signed => c.n >= 0

ASSUME MalformedAssumption == Malformed \notin STRING \cup Int \cup BOOLEAN

\* In a config map that is written by hand any key may be missing. A negative
\* minimum is left out: allocateReplicas would panic on it.
ASSUME HandWrittenAssumption == \A cfg \in HandWritten :
  /\ get(cfg, "flowName", "") \in FlowNames \cup {""}
  /\ get(cfg, "minReplicaCount", 0) \in Nat \cup {Malformed}
  /\ \A key \in {"replicaCount", "maxReplicaCount"} : get(cfg, key, 0) \in Int \cup {Malformed}
  /\ get(cfg, "fixedNumberOfReplicas", FALSE) \in BOOLEAN \cup {Malformed}
  /\ ArgumentsOK(get(cfg, "args", <<>>))

VARIABLES
  compatible,  \* the version of Kubernetes is 1.4 or later
  third,       \* the third party resources there are
  boot,        \* boot[p]: how far pod p is
  tasks,       \* config maps of Home's namespace, oldest first
  deploying,   \* the deploy process is done with the first of them
  stalled,     \* "no", or why it takes no task up: it is "asleep" in cond.Wait and has
               \* missed the signal, or "stuck" in a Deploy that does not return
  flow,        \* the definition of the flow
  cyclic,      \* some dependencies form a cycle
  deployed,    \* deployed[f]: deployed replicas of flow f
  last,        \* history: what was asked for in the last step, and what came of it
  runs, changes, faults

podVars == <<compatible, third, boot, faults>>
clusterVars == <<flow, cyclic, changes>>
processVars == <<deploying, stalled>>
vars == <<podVars, clusterVars, tasks, processVars, deployed, last, runs>>

Manifests == <<"dependencies", "resdefs", "replicas">>

\* boot[p]: 0 is the check of the version, i the creation of manifest i
Starting == Len(Manifests) + 1
Running == Starting + 1

NoCommand == [via |-> "none"]

\* A step that answers no request
Quiet == last' = NoCommand

Init ==
  /\ compatible \in BOOLEAN /\ third = {} /\ boot = [p \in Pods |-> 0]
  /\ tasks = <<>> /\ deploying = FALSE /\ stalled = "no"
  /\ flow \in Flows /\ cyclic = FALSE /\ deployed = [f \in FlowNames |-> 0]
  /\ last = NoCommand
  /\ runs = 0 /\ changes = 0 /\ faults = 0

(***************************************************************************)
(* bootstrap and the start of the deploy process                           *)
(***************************************************************************)
userVars == <<clusterVars, tasks, processVars, deployed, runs>>

CheckVersion(p) ==
  /\ boot[p] = 0
  /\ compatible
  /\ boot' = [boot EXCEPT ![p] = 1]
  /\ Quiet /\ UNCHANGED <<compatible, third, faults, userVars>>

\* Mutation: what is there already ends the bootstrap.
DoneIfThere(p) == IF Manifests[boot[p]] \in third THEN Starting ELSE boot[p] + 1

\* What is there already (409) is skipped.
NextManifest(p) == boot[p] + 1

CreateTPRIfNotExists(p) ==
  /\ boot[p] \in DOMAIN Manifests
  /\ third' = third \cup {Manifests[boot[p]]}
  /\ boot' = [boot EXCEPT ![p] = NextManifest(p)]
  /\ Quiet /\ UNCHANGED <<compatible, faults, userVars>>

\* cond.Signal wakes a process that waits; it may come when the process has
\* looked at its queue and does not wait yet.
AfterSignal == CASE stalled = "no" -> {"no", "asleep"}
                 [] stalled = "asleep" -> {"no"}
                 [] OTHER -> {stalled}

\* client.New, for the deploy command; the first listing signals the tasks.
StartProcess(p) ==
  /\ boot[p] = Starting
  /\ boot' = [boot EXCEPT ![p] = Running]
  /\ stalled' \in IF p = Home THEN AfterSignal ELSE {stalled}
  /\ Quiet
  /\ UNCHANGED <<compatible, third, faults, clusterVars, tasks, deploying, deployed, runs>>

\* An API call fails, and log.Fatal ends the container, which is restarted.
StartupFails(p) ==
  /\ boot[p] # Running
  /\ faults < MaxFaults /\ faults' = faults + 1
  /\ boot' = [boot EXCEPT ![p] = IF @ = Starting THEN Starting ELSE 0]
  /\ Quiet /\ UNCHANGED <<compatible, third, userVars>>

\* The cluster is upgraded (external).
Upgrade ==
  /\ ~compatible
  /\ compatible' = TRUE
  /\ Quiet /\ UNCHANGED <<third, boot, faults, userVars>>

Pod(p) == CheckVersion(p) \/ CreateTPRIfNotExists(p) \/ StartProcess(p)

(***************************************************************************)
(* Users                                                                   *)
(***************************************************************************)

\* What BuildDependencyGraph and Deploy make of options o
Outcome(o) ==
  IF third = Range(Manifests) THEN Verdict(o, flow, cyclic) ELSE "no definitions"

Answer(via, c, o) ==
  LET before == deployed[o.FlowName]
      after == IF Outcome(o) = "deployed" THEN TargetCount(o, before) ELSE before
  IN /\ deployed' = [deployed EXCEPT ![o.FlowName] = after]
     /\ last' = [via |-> via, origin |-> c, options |-> o, verdict |-> Outcome(o), flow |-> flow,
                 before |-> before, after |-> after]

NewTask(c, cfg) ==
  /\ runs < MaxCommands /\ runs' = runs + 1
  /\ tasks' = Append(tasks, [id |-> runs', origin |-> c, config |-> cfg])
  /\ stalled' \in IF boot[Home] = Running THEN AfterSignal ELSE {stalled}
  /\ Quiet /\ UNCHANGED <<podVars, clusterVars, deploying, deployed>>

\* Commands are executed in the container of the deploy process.
Exec == boot[Home] = Running

\* kubeac run: CreateDeployment
Run(c) == Exec /\ NewTask(c, Serialize(RunOptions(c)))

\* kubectl create -f (external)
Write(cfg) == NewTask(NoCommand, cfg)

\* kubeac run --deploy
RunInPlace(c) ==
  /\ Exec
  /\ runs < MaxCommands /\ runs' = runs + 1
  /\ Answer("run", c, RunOptions(c))
  /\ UNCHANGED <<podVars, clusterVars, tasks, processVars>>

\* kubeac get-status
GetStatus(c) ==
  /\ Exec
  /\ Answer("status", c, StatusOptions(c))
  /\ UNCHANGED <<podVars, clusterVars, tasks, processVars, runs>>

\* Definitions and dependencies are changed (external).
ChangeDefinitions ==
  /\ changes < MaxChanges /\ changes' = changes + 1
  /\ flow' \in Flows /\ cyclic' \in BOOLEAN /\ <<flow', cyclic'>> # <<flow, cyclic>>
  /\ Quiet /\ UNCHANGED <<podVars, tasks, processVars, deployed, runs>>

\* A user deletes the config map of a deployment that does not end; TaskController
\* tells what that may do to the next one.
CallOff ==
  /\ stalled = "stuck"
  /\ tasks' = Tail(tasks) /\ stalled' = "no"
  /\ Quiet /\ UNCHANGED <<podVars, clusterVars, deploying, deployed, runs>>

(***************************************************************************)
(* The deploy process                                                      *)
(***************************************************************************)
CanTake == boot[Home] = Running /\ tasks # <<>> /\ ~deploying /\ stalled = "no"

\* FromConfig returns an error: that was it for the task.
RejectTask ==
  /\ CanTake /\ Rejected(Head(tasks).config)
  /\ deploying' = TRUE
  /\ Quiet /\ UNCHANGED <<podVars, clusterVars, tasks, stalled, deployed, runs>>

\* The flow is deployed, or BuildDependencyGraph returns an error.
DeployTask ==
  LET t == Head(tasks)
      o == FromConfig(t.config)
  IN /\ CanTake /\ ~Rejected(t.config)
     /\ Outcome(o) # "fatal"
     /\ Answer("task", t.origin, o)
     /\ deploying' = TRUE
     /\ UNCHANGED <<podVars, clusterVars, tasks, stalled, runs>>

\* Deploy waits for a message of every resource, and some never come.
DeployHangs ==
  /\ CanTake /\ ~Rejected(Head(tasks).config)
  /\ Outcome(FromConfig(Head(tasks).config)) = "deployed"
  /\ stalled' = "stuck"
  /\ Quiet /\ UNCHANGED <<podVars, clusterVars, tasks, deploying, deployed, runs>>

\* A cycle ends the process with the task still there: it is taken up again.
DieOfTask ==
  /\ CanTake /\ ~Rejected(Head(tasks).config)
  /\ Outcome(FromConfig(Head(tasks).config)) = "fatal"
  /\ boot' = [boot EXCEPT ![Home] = Starting]
  /\ Quiet /\ UNCHANGED <<compatible, third, faults, userVars>>

\* Mutation: a config map that cannot be read is left where it is.
DeleteIfRead == deploying /\ ~Rejected(Head(tasks).config)

\* The config map is deleted, whatever came of it.
Finished == deploying

DeleteTask ==
  /\ Finished
  /\ tasks' = Tail(tasks) /\ deploying' = FALSE
  /\ stalled' \in AfterSignal
  /\ Quiet /\ UNCHANGED <<podVars, clusterVars, deployed, runs>>

\* The process dies; its container is restarted, or the pod is rescheduled.
Crash ==
  /\ boot[Home] = Running
  /\ faults < MaxFaults /\ faults' = faults + 1
  /\ \E b \in {0, Starting} : boot' = [boot EXCEPT ![Home] = b]
  /\ deploying' = FALSE /\ stalled' = "no"
  /\ Quiet /\ UNCHANGED <<compatible, third, clusterVars, tasks, deployed, runs>>

Process == RejectTask \/ DeployTask \/ DeployHangs \/ DieOfTask \/ DeleteTask

Next ==
  \/ \E p \in Pods : Pod(p) \/ StartupFails(p)
  \/ Upgrade \/ ChangeDefinitions \/ CallOff
  \/ \E c \in Commands : Run(c) \/ RunInPlace(c) \/ GetStatus(c)
  \/ \E cfg \in HandWritten : Write(cfg)
  \/ Process \/ Crash

\* Containers that end are restarted, and processes run.
Spec == Init /\ [][Next]_vars /\ (\A p \in Pods : WF_vars(Pod(p))) /\ WF_vars(Process)

(***************************************************************************)
(* Properties                                                              *)
(***************************************************************************)

\* No deploy process runs before all third party resources are there, however
\* the bootstraps of several pods interleave and fail: the first listing of
\* definitions would fail, and the task with it.
BootstrappedBeforeDeploy ==
  \A p \in Pods : boot[p] >= Starting => third = Range(Manifests) /\ compatible

\* docs/flows.md on -n: without it one replica if there is none, otherwise
\* those there are; a number is absolute, a signed one is relative to what is
\* there when the task is deployed, not when it was scheduled.
DocumentedCount(c, base) ==
  IF ~c.given THEN (IF base = 0 THEN 1 ELSE base)
  ELSE IF ~c.signed THEN c.n
  ELSE IF base + c.n < 0 THEN 0 ELSE base + c.n

CountAsDocumented ==
  last # NoCommand /\ last.via # "status" /\ last.origin # NoCommand /\ last.verdict = "deployed"
    => last.after = DocumentedCount(last.origin, last.before)

\* A run that waits in the queue would be deployed as in place, whatever the
\* definitions are by then. What FromConfig loses, --undeclared-args, is left
\* out.
ScheduledLikeInPlace ==
  \A i \in 1 .. Len(tasks) :
    LET t == tasks[i] IN
      t.origin # NoCommand /\ ~t.origin.anyArgs =>
        /\ ~Rejected(t.config)
        /\ \A f \in Flows :
             Verdict(FromConfig(t.config), f, FALSE) = Verdict(RunOptions(t.origin), f, FALSE)
        /\ FromConfig(t.config) = RunOptions(t.origin)

\* In a flow that is deployed a declared parameter stays a reference ("$p" in the
\* name of a resource) only if its value is empty, be it the argument or, without
\* one, the default: a mandatory one never goes without. The check is against the
\* definition at deployment time.
EveryParameterBound ==
  last # NoCommand /\ last.verdict = "deployed" /\ Visible(last.flow, last.options) =>
    \A p \in Params :
      /\ Evaluate(p, last.options, last.flow) = "$" =>
           \/ last.flow.params[p] = "none"
           \/ p \in DOMAIN last.options.Args /\ last.options.Args[p] = ""
           \/ p \notin DOMAIN last.options.Args /\ last.flow.params[p] = "empty"
      /\ p \in DOMAIN last.options.Args /\ last.options.Args[p] # "" =>
           Evaluate(p, last.options, last.flow) = last.options.Args[p]

\* What "$p" at string s of a resource is turned into
Written(kind, s, p) ==
  IF s \in Replacements[kind] THEN Evaluate(p, last.options, last.flow) ELSE "$"

\* docs/flows.md on the fields with parameters: containers get them through
\* their environment, their scripts are left as they are, and a service whose
\* selector refers to the parameters of its pods' labels selects these pods, of
\* whatever kind their controller is.
ParametersReachPods ==
  last # NoCommand /\ last.verdict = "deployed" =>
    \A p \in Params, kind \in Controllers \cup {"pod"} :
      LET template == TemplateOf(kind)
          container == template \o <<"Spec", "Containers", "[]">>
      IN /\ Written("service", <<"Spec", "Selector", "Values">>, p)
              = Written(kind, template \o <<"ObjectMeta", "Labels", "Values">>, p)
         /\ Written(kind, container \o <<"Env", "[]", "Value">>, p)
              = Evaluate(p, last.options, last.flow)
         /\ Written(kind, container \o <<"Command", "[]">>, p) = "$"

\* As long as no signal is lost and every Deploy returns, every task leaves the
\* queue, one that cannot be read or deployed included; and one that meets a
\* cycle ends the process again and again, with all the others behind it, but
\* only until the cycle is mended.
QueueMoves == <>[](compatible /\ ~cyclic /\ stalled = "no") => []<>(tasks = <<>>)

(***************************************************************************)
(* What the documentation says, and the code does not do                   *)
(***************************************************************************)

\* docs/flows.md: arguments that are not declared can be used if "`kubeac run` is
\* followed by `--undeclared-args` switch", and in a config map
\* "allowUndeclaredArgs" is to "allow flow to use parameters that were not
\* declared". FromConfig reads it into another field, and a run that waits in
\* the queue is refused where it would be deployed in place.
UndeclaredArgsKept ==
  \A i \in 1 .. Len(tasks) :
    LET t == tasks[i] IN
      t.origin # NoCommand =>
        \A f \in Flows :
          Verdict(FromConfig(t.config), f, FALSE) = Verdict(RunOptions(t.origin), f, FALSE)
=============================================================================
