--------------------------- MODULE FrontendProofs ---------------------------
(***************************************************************************)
(* What users can rely on around the scheduler: the third party resources  *)
(* are there before any deploy process, and a command means the same       *)
(* whether it runs in place or waits in a config map.                      *)
(***************************************************************************)
EXTENDS Frontend, SequenceTheorems, TLAPS

(***************************************************************************)
(* Bootstrap                                                               *)
(***************************************************************************)
Before(p) == {Manifests[i] : i \in {j \in DOMAIN Manifests : j < boot[p]}}

\* Resources are never deleted, and the bootstrap of every pod creates them in
\* the same order, from the first one on each time.
BootInv ==
  /\ boot \in [Pods -> 0 .. Running]
  /\ third \subseteq Range(Manifests)
  /\ \A p \in Pods : Before(p) \subseteq third /\ (boot[p] > 0 => compatible)

LEMMA ManifestsDomain ==
  /\ DOMAIN Manifests = 1 .. 3
  /\ Starting = 4 /\ Running = 5
BY DEF Manifests, Starting, Running

\* What a pod has created stays created.
LEMMA BootFrame ==
  ASSUME BootInv, boot' \in [Pods -> 0 .. Running], third' = third, compatible => compatible',
         \A p \in Pods : boot'[p] <= boot[p]
  PROVE  BootInv'
<1>1. ASSUME NEW p \in Pods PROVE Before(p)' \subseteq Before(p) /\ (boot'[p] > 0 => boot[p] > 0)
  <2>1. boot[p] \in 0 .. 5 /\ boot'[p] \in 0 .. 5 /\ boot'[p] <= boot[p]
    BY <1>1, ManifestsDomain DEF BootInv
  <2> QED
    BY <2>1, ManifestsDomain DEF Before
<1> QED
  BY <1>1 DEF BootInv

LEMMA BootPod ==
  ASSUME BootInv, NEW p \in Pods, Pod(p)
  PROVE  BootInv'
<1>0. boot \in [Pods -> 0 .. 5] /\ boot[p] \in 0 .. 5
  BY ManifestsDomain DEF BootInv
<1>1. PICK b \in 0 .. 5 : boot' = [boot EXCEPT ![p] = b] /\ boot[p] <= b /\ b = boot[p] + 1
  BY <1>0, ManifestsDomain DEF Pod, CheckVersion, CreateTPRIfNotExists, StartProcess, NextManifest
<1>2. third \subseteq third' /\ third' \subseteq Range(Manifests)
  BY DEF Pod, CheckVersion, CreateTPRIfNotExists, StartProcess, BootInv, Range
<1>3. compatible' = compatible /\ compatible
  BY <1>0 DEF Pod, CheckVersion, CreateTPRIfNotExists, StartProcess, BootInv, Starting,
              Manifests
<1>4. boot[p] \in DOMAIN Manifests => Manifests[boot[p]] \in third'
  BY ManifestsDomain DEF Pod, CheckVersion, CreateTPRIfNotExists, StartProcess
<1>5. ASSUME NEW q \in Pods PROVE Before(q)' \subseteq third'
  <2>1. CASE q # p
    BY <1>0, <1>1, <1>2, <2>1 DEF Before, BootInv
  <2>2. CASE q = p
    <3>1. Before(p)' \subseteq Before(p) \cup {Manifests[i] : i \in DOMAIN Manifests \cap {boot[p]}}
      <4>1. boot'[p] = boot[p] + 1
        BY <1>0, <1>1
      <4>2. \A j \in 1 .. 3 : j < boot'[p] => j < boot[p] \/ j = boot[p]
        BY <1>0, <4>1
      <4> QED
        BY <4>2, ManifestsDomain DEF Before
    <3> QED
      BY <1>2, <1>4, <2>2, <3>1 DEF BootInv
  <2> QED
    BY <2>1, <2>2
<1>6. boot' \in [Pods -> 0 .. Running]
  BY <1>0, <1>1, ManifestsDomain
<1> QED
  BY <1>2, <1>3, <1>5, <1>6 DEF BootInv

LEMMA BootStep ==
  ASSUME BootInv, [Next]_vars
  PROVE  BootInv'
<1>0. boot \in [Pods -> 0 .. 5] /\ Running = 5 /\ Starting = 4
  BY ManifestsDomain DEF BootInv
<1>1. ASSUME UNCHANGED <<boot, third>>, compatible => compatible' PROVE BootInv'
  BY <1>0, <1>1, BootFrame
<1> USE DEF vars, podVars, userVars, clusterVars, processVars
<1>2. CASE UNCHANGED vars
  BY <1>1, <1>2
<1>3. ASSUME NEW p \in Pods, StartupFails(p) PROVE BootInv'
  <2>1. boot' \in [Pods -> 0 .. Running] /\ \A q \in Pods : boot'[q] <= boot[q]
    BY <1>0, <1>3 DEF StartupFails
  <2> QED
    BY <1>3, <2>1, BootFrame DEF StartupFails
<1>4. CASE Crash \/ DieOfTask
  <2>1. Home \in Pods /\ boot[Home] = Running
    BY <1>4, HomeAssumption DEF Crash, DieOfTask, CanTake
  <2>2. \E b \in {0, Starting} : boot' = [boot EXCEPT ![Home] = b]
    BY <1>4 DEF Crash, DieOfTask
  <2>3. boot' \in [Pods -> 0 .. Running] /\ \A q \in Pods : boot'[q] <= boot[q]
    BY <1>0, <2>1, <2>2
  <2> QED
    BY <1>4, <2>3, BootFrame DEF Crash, DieOfTask
<1>5. ASSUME NEW p \in Pods, Pod(p) PROVE BootInv'
  BY <1>5, BootPod
<1>6. CASE Upgrade
  BY <1>1, <1>6 DEF Upgrade
<1>7. CASE ChangeDefinitions \/ CallOff \/ RejectTask \/ DeployTask \/ DeployHangs \/ DeleteTask
  BY <1>1, <1>7 DEF ChangeDefinitions, CallOff, RejectTask, DeployTask, DeployHangs, DeleteTask
<1>8. CASE \E c \in Commands : Run(c) \/ RunInPlace(c) \/ GetStatus(c)
  BY <1>1, <1>8 DEF Run, NewTask, RunInPlace, GetStatus
<1>9. CASE \E cfg \in HandWritten : Write(cfg)
  BY <1>1, <1>9 DEF Write, NewTask
<1> QED
  BY <1>2, <1>3, <1>4, <1>5, <1>6, <1>7, <1>8, <1>9 DEF Next, Process

\* However the bootstraps of the pods interleave, fail and are restarted, no
\* deploy process starts before all third party resources exist: the invariant
\* BootstrappedBeforeDeploy (bootstrap in cmd/bootstrap.go).
THEOREM ResourcesBeforeProcess == Spec => []BootstrappedBeforeDeploy
<1>1. Init => BootInv
  <2> SUFFICES ASSUME Init PROVE BootInv
    OBVIOUS
  <2>1. \A p \in Pods : boot[p] = 0
    BY DEF Init
  <2>2. \A p \in Pods : Before(p) = {}
    BY <2>1, ManifestsDomain DEF Before
  <2> QED
    BY <2>1, <2>2, ManifestsDomain DEF Init, BootInv
<1>2. BootInv /\ [Next]_vars => BootInv'
  BY BootStep
<1>3. BootInv => BootstrappedBeforeDeploy
  <2> SUFFICES ASSUME BootInv, NEW p \in Pods, boot[p] >= Starting
               PROVE  third = Range(Manifests) /\ compatible
    BY DEF BootstrappedBeforeDeploy
  <2>1. boot[p] \in 0 .. 5 /\ boot[p] >= 4
    BY ManifestsDomain DEF BootInv
  <2>2. Before(p) = Range(Manifests)
    BY <2>1, ManifestsDomain DEF Before, Range
  <2>3. third \subseteq Range(Manifests) /\ Before(p) \subseteq third
    BY DEF BootInv
  <2>4. compatible
    BY <2>1 DEF BootInv
  <2> QED
    BY <2>2, <2>3, <2>4
<1> QED
  BY <1>1, <1>2, <1>3, PTL DEF Spec

(***************************************************************************)
(* Options                                                                 *)
(***************************************************************************)
OptionsOK(o) ==
  /\ o.FlowName \in FlowNames
  /\ ArgumentsOK(o.Args)
  /\ o.ReplicaCount \in Int /\ o.MinReplicaCount \in Nat /\ o.MaxReplicaCount \in Int
  /\ o.FixedNumberOfReplicas \in BOOLEAN

\* What command line c asks for, as far as the number of replicas goes
Fixed(c) == c.given /\ ~c.signed
AtLeast(c) == IF c.given THEN 0 ELSE 1

Asks(c, o) ==
  /\ o.FlowName = c.flow
  /\ o.ReplicaCount = c.n
  /\ o.FixedNumberOfReplicas = Fixed(c)
  /\ o.MinReplicaCount = AtLeast(c)
  /\ o.MaxReplicaCount = 0

\* The options of command line c, undeclared arguments allowed or not
OptionsOf(c, any) ==
  [[selector |-> c.label, concurrency |-> c.concurrency, FlowName |-> c.flow,
    ExportedOnly |-> TRUE, AllowUndeclaredArgs |-> any, Args |-> c.args,
    ReplicaCount |-> c.n, FixedNumberOfReplicas |-> Fixed(c),
    MinReplicaCount |-> 0, MaxReplicaCount |-> 0,
    AllowDeleteExternalResources |-> c.deleteExternal] EXCEPT !.MinReplicaCount = AtLeast(c)]

LEMMA RunRecord ==
  ASSUME NEW c \in Commands
  PROVE  RunOptions(c) = OptionsOf(c, c.anyArgs)
BY DEF RunOptions, NoMinimum, OptionsOf, Fixed, AtLeast

LEMMA CommandTypes ==
  ASSUME NEW c \in Commands
  PROVE  /\ Fixed(c) \in BOOLEAN /\ AtLeast(c) \in Nat
         /\ c.label \in STRING /\ c.concurrency \in Int /\ c.n \in Int /\ c.flow \in FlowNames
         /\ c.anyArgs \in BOOLEAN /\ c.deleteExternal \in BOOLEAN /\ ArgumentsOK(c.args)
<1>1. Fixed(c) \in BOOLEAN
  BY DEF Fixed
<1> QED
  BY <1>1, CommandsAssumption DEF AtLeast

LEMMA OptionsAsk ==
  ASSUME NEW c \in Commands, NEW any
  PROVE  /\ OptionsOK(OptionsOf(c, any))
         /\ Asks(c, OptionsOf(c, any))
<1> DEFINE o == OptionsOf(c, any)
<1>1. /\ o.FlowName = c.flow /\ o.Args = c.args /\ o.ReplicaCount = c.n
      /\ o.FixedNumberOfReplicas = Fixed(c) /\ o.MinReplicaCount = AtLeast(c)
      /\ o.MaxReplicaCount = 0
  BY DEF OptionsOf
<1> QED
  BY <1>1, CommandTypes DEF OptionsOK, Asks

LEMMA RunAsks ==
  ASSUME NEW c \in Commands
  PROVE  OptionsOK(RunOptions(c)) /\ Asks(c, RunOptions(c))
BY RunRecord, OptionsAsk

LEMMA StatusIsOptions ==
  ASSUME NEW c \in Commands
  PROVE  OptionsOK(StatusOptions(c))
<1>1. c.flow \in FlowNames /\ ArgumentsOK(c.args)
  BY CommandsAssumption
<1> QED
  BY <1>1 DEF StatusOptions, NoMinimum, OptionsOK

\* What a config map that was written from a command line keeps of it: everything
\* but --undeclared-args.
LEMMA RoundTrip ==
  ASSUME NEW c \in Commands
  PROVE  /\ ~Rejected(Serialize(RunOptions(c)))
         /\ FromConfig(Serialize(RunOptions(c))) = OptionsOf(c, FALSE)
<1> DEFINE o == RunOptions(c)
           cfg == Serialize(o)
<1>1. o = OptionsOf(c, c.anyArgs)
  BY RunRecord
<1>2. /\ DOMAIN cfg = {"selector", "concurrency", "flowName", "exportedOnly", "allowUndeclaredArgs",
                      "replicaCount", "fixedNumberOfReplicas", "minReplicaCount",
                      "maxReplicaCount", "allowDeleteExternalResources", "args"}
      /\ cfg["selector"] = c.label /\ cfg["concurrency"] = c.concurrency
      /\ cfg["flowName"] = c.flow /\ cfg["exportedOnly"] = TRUE
      /\ cfg["allowUndeclaredArgs"] = c.anyArgs /\ cfg["replicaCount"] = c.n
      /\ cfg["fixedNumberOfReplicas"] = Fixed(c)
      /\ cfg["minReplicaCount"] = AtLeast(c)
      /\ cfg["maxReplicaCount"] = 0
      /\ cfg["allowDeleteExternalResources"] = c.deleteExternal
      /\ cfg["args"] = c.args
  BY <1>1 DEF Serialize, OptionsOf
<1> HIDE DEF cfg
<1>3. \A key \in DOMAIN cfg \ {"flowName", "args"} : cfg[key] # Malformed
  <2>1. /\ c.label # Malformed /\ c.concurrency # Malformed /\ c.n # Malformed
        /\ AtLeast(c) # Malformed /\ 0 # Malformed
    BY CommandTypes, MalformedAssumption
  <2>2. /\ Malformed \notin BOOLEAN /\ TRUE \in BOOLEAN /\ Fixed(c) \in BOOLEAN
        /\ c.anyArgs \in BOOLEAN /\ c.deleteExternal \in BOOLEAN
    BY CommandTypes, MalformedAssumption
  <2>3. /\ TRUE # Malformed /\ Fixed(c) # Malformed
        /\ c.anyArgs # Malformed /\ c.deleteExternal # Malformed
    BY <2>2
  <2> QED
    BY <1>2, <2>1, <2>3
<1>4. ~Rejected(cfg)
  BY <1>3 DEF Rejected
<1>5. cfg["flowName"] # ""
  BY <1>2, CommandTypes DEF FlowNames, Default
<1>6. ForgetMinimum(cfg) =
        [selector |-> c.label, concurrency |-> c.concurrency, FlowName |-> c.flow,
         ExportedOnly |-> TRUE, AllowUndeclaredArgs |-> FALSE, Args |-> c.args,
         ReplicaCount |-> c.n, FixedNumberOfReplicas |-> Fixed(c),
         MinReplicaCount |-> 0, MaxReplicaCount |-> 0,
         AllowDeleteExternalResources |-> c.deleteExternal]
  BY <1>2, <1>5 DEF ForgetMinimum, get
<1>7. get(cfg, "minReplicaCount", 0) = AtLeast(c)
  BY <1>2 DEF get
<1>8. FromConfig(cfg) = OptionsOf(c, FALSE)
  BY <1>6, <1>7 DEF FromConfig, OptionsOf
<1> QED
  BY <1>4, <1>8 DEF cfg, o

LEMMA ConfigIsOptions ==
  ASSUME NEW cfg \in HandWritten, ~Rejected(cfg)
  PROVE  OptionsOK(FromConfig(cfg))
<1>1. /\ get(cfg, "flowName", "") \in FlowNames \cup {""}
      /\ get(cfg, "minReplicaCount", 0) \in Nat \cup {Malformed}
      /\ get(cfg, "replicaCount", 0) \in Int \cup {Malformed}
      /\ get(cfg, "maxReplicaCount", 0) \in Int \cup {Malformed}
      /\ get(cfg, "fixedNumberOfReplicas", FALSE) \in BOOLEAN \cup {Malformed}
      /\ ArgumentsOK(get(cfg, "args", <<>>))
  BY HandWrittenAssumption
<1>2. \A key \in {"minReplicaCount", "replicaCount", "maxReplicaCount"} :
        get(cfg, key, 0) # Malformed
  BY MalformedAssumption DEF Rejected, get
<1>3. get(cfg, "fixedNumberOfReplicas", FALSE) # Malformed
  BY MalformedAssumption DEF Rejected, get
<1> DEFINE o == FromConfig(cfg)
<1>4. /\ o.FlowName = IF get(cfg, "flowName", "") = "" THEN Default ELSE cfg["flowName"]
      /\ o.Args = get(cfg, "args", <<>>)
      /\ o.ReplicaCount = get(cfg, "replicaCount", 0)
      /\ o.MinReplicaCount = get(cfg, "minReplicaCount", 0)
      /\ o.MaxReplicaCount = get(cfg, "maxReplicaCount", 0)
      /\ o.FixedNumberOfReplicas = get(cfg, "fixedNumberOfReplicas", FALSE)
  BY DEF FromConfig, ForgetMinimum
<1>5. o.FlowName \in FlowNames
  BY <1>1, <1>4 DEF get, FlowNames
<1> HIDE DEF o
<1>6. o.ReplicaCount \in Int /\ o.MinReplicaCount \in Nat /\ o.MaxReplicaCount \in Int
  BY <1>1, <1>2, <1>4
<1>7. o.FixedNumberOfReplicas \in BOOLEAN
  BY <1>1, <1>3, <1>4
<1> QED
  BY <1>1, <1>4, <1>5, <1>6, <1>7 DEF OptionsOK, o

\* The number of replicas is never negative.
LEMMA CountIsNatural ==
  ASSUME NEW o, OptionsOK(o), NEW n \in Nat
  PROVE  TargetCount(o, n) \in Nat
<1>1. /\ o.ReplicaCount \in Int /\ o.MinReplicaCount \in Nat /\ o.MaxReplicaCount \in Int
  BY DEF OptionsOK
<1> QED
  BY <1>1 DEF TargetCount

\* The target of a run is what the documentation says of -n.
LEMMA CountOfRun ==
  ASSUME NEW c \in Commands, NEW o, Asks(c, o), NEW n \in Nat
  PROVE  TargetCount(o, n) = DocumentedCount(c, n)
<1>1. /\ c.n \in Int /\ c.given \in BOOLEAN /\ c.signed \in BOOLEAN
      /\ ~c.given => ~c.signed /\ c.n = 0
      /\ ~c.signed => c.n >= 0
  BY CommandsAssumption
<1>2. /\ o.ReplicaCount = c.n /\ o.MaxReplicaCount = 0
      /\ o.FixedNumberOfReplicas <=> Fixed(c)
      /\ o.MinReplicaCount = AtLeast(c)
  BY DEF Asks
<1>3. CASE ~c.given
  <2>1. ~o.FixedNumberOfReplicas /\ o.MinReplicaCount = 1 /\ o.ReplicaCount = 0
    BY <1>1, <1>2, <1>3 DEF Fixed, AtLeast
  <2>2. TargetCount(o, n) = IF n < 1 THEN 1 ELSE n
    BY <1>2, <2>1 DEF TargetCount
  <2> QED
    BY <1>3, <2>2 DEF DocumentedCount
<1>4. CASE c.given /\ ~c.signed
  <2>1. o.FixedNumberOfReplicas /\ o.MinReplicaCount = 0 /\ c.n \in Nat
    BY <1>1, <1>2, <1>4 DEF Fixed, AtLeast
  <2>2. TargetCount(o, n) = c.n
    BY <1>2, <2>1 DEF TargetCount
  <2> QED
    BY <1>4, <2>2 DEF DocumentedCount
<1>5. CASE c.given /\ c.signed
  <2>1. ~o.FixedNumberOfReplicas /\ o.MinReplicaCount = 0 /\ c.n \in Int
    BY <1>1, <1>2, <1>5 DEF Fixed, AtLeast
  <2>2. TargetCount(o, n) = IF c.n + n < 0 THEN 0 ELSE c.n + n
    BY <1>2, <2>1 DEF TargetCount
  <2> QED
    BY <1>5, <2>1, <2>2 DEF DocumentedCount
<1> QED
  BY <1>3, <1>4, <1>5

(***************************************************************************)
(* The queue of tasks                                                      *)
(***************************************************************************)
\* A config map comes from a command line or from an editor.
TaskOK(t) == \/ t.origin \in Commands /\ t.config = Serialize(RunOptions(t.origin))
             \/ t.origin = NoCommand /\ t.config \in HandWritten

Task == [id : Nat, origin : Commands \cup {NoCommand},
         config : HandWritten \cup {Serialize(RunOptions(c)) : c \in Commands}]

TaskInv ==
  /\ runs \in Nat
  /\ tasks \in Seq(Task)
  /\ \A i \in 1 .. Len(tasks) : TaskOK(tasks[i])
  /\ deploying => tasks # <<>>
  /\ stalled = "stuck" => tasks # <<>> /\ ~deploying

\* A signal does not make a deployment hang.
LEMMA SignalKeeps ==
  ASSUME stalled' \in AfterSignal
  PROVE  stalled' = "stuck" => stalled = "stuck"
BY DEF AfterSignal

LEMMA NewTaskKeeps ==
  ASSUME TaskInv, NEW c, NEW cfg, NewTask(c, cfg),
         \/ c \in Commands /\ cfg = Serialize(RunOptions(c))
         \/ c = NoCommand /\ cfg \in HandWritten
  PROVE  TaskInv'
<1> DEFINE t == [id |-> runs + 1, origin |-> c, config |-> cfg]
<1>1. runs' = runs + 1 /\ runs' \in Nat /\ tasks' = Append(tasks, t) /\ deploying' = deploying
  BY DEF NewTask, TaskInv
<1>2. t \in Task
  BY <1>1 DEF Task, TaskInv
<1>3. TaskOK(t)
  BY DEF TaskOK
<1> HIDE DEF t
<1>4. tasks' \in Seq(Task) /\ Len(tasks') = Len(tasks) + 1 /\ tasks' # <<>>
  BY <1>1, <1>2 DEF TaskInv
<1>5. ASSUME NEW i \in 1 .. Len(tasks') PROVE TaskOK(tasks'[i])
  <2>1. tasks'[i] = IF i <= Len(tasks) THEN tasks[i] ELSE t
    BY <1>1, <1>2, <1>4 DEF TaskInv
  <2>2. i <= Len(tasks) => i \in 1 .. Len(tasks)
    BY <1>4 DEF TaskInv
  <2> QED
    BY <1>3, <2>1, <2>2 DEF TaskInv
<1>6. stalled' = "stuck" => stalled = "stuck"
  BY SignalKeeps DEF NewTask
<1> QED
  BY <1>1, <1>4, <1>5, <1>6 DEF TaskInv

LEMMA TaskStep ==
  ASSUME TaskInv, [Next]_vars
  PROVE  TaskInv'
<1> USE DEF vars, podVars, userVars, clusterVars, processVars
<1>1. ASSUME UNCHANGED tasks, runs' \in Nat, deploying' => deploying \/ tasks # <<>>,
             stalled' = "stuck" => (stalled = "stuck" \/ tasks # <<>>) /\ ~deploying'
      PROVE  TaskInv'
  BY <1>1 DEF TaskInv
<1>2. CASE UNCHANGED vars
  BY <1>1, <1>2 DEF TaskInv
<1>3. CASE \/ Upgrade \/ ChangeDefinitions \/ Crash \/ DieOfTask \/ RejectTask \/ DeployTask
           \/ DeployHangs
  BY <1>1, <1>3 DEF Upgrade, ChangeDefinitions, Crash, DieOfTask, RejectTask, DeployTask,
                    DeployHangs, CanTake, TaskInv
<1>4. CASE \E p \in Pods : Pod(p) \/ StartupFails(p)
  <2>1. ASSUME NEW p \in Pods, StartProcess(p) PROVE TaskInv'
    <3>1. stalled' = "stuck" => stalled = "stuck"
      BY <2>1, SignalKeeps DEF StartProcess
    <3> QED
      BY <1>1, <2>1, <3>1 DEF StartProcess, TaskInv
  <2> QED
    BY <1>1, <1>4, <2>1 DEF Pod, CheckVersion, CreateTPRIfNotExists, StartupFails, TaskInv
<1>5. CASE \E c \in Commands : RunInPlace(c) \/ GetStatus(c)
  BY <1>1, <1>5 DEF RunInPlace, GetStatus, TaskInv
<1>6. CASE \E c \in Commands : Run(c)
  BY <1>6, NewTaskKeeps DEF Run
<1>7. CASE \E cfg \in HandWritten : Write(cfg)
  BY <1>7, NewTaskKeeps DEF Write
<1>8. CASE DeleteTask \/ CallOff
  <2>1. tasks \in Seq(Task) /\ tasks # <<>> /\ tasks' = Tail(tasks) /\ ~deploying' /\ runs' = runs
    BY <1>8 DEF DeleteTask, CallOff, Finished, TaskInv
  <2>2. /\ tasks' \in Seq(Task) /\ Len(tasks') = Len(tasks) - 1
        /\ \A i \in 1 .. Len(tasks') : tasks'[i] = tasks[i + 1] /\ i + 1 \in 1 .. Len(tasks)
    BY <2>1
  <2>3. stalled' # "stuck"
    BY <1>8, SignalKeeps DEF DeleteTask, CallOff, Finished, TaskInv
  <2> QED
    BY <2>1, <2>2, <2>3 DEF TaskInv
<1> QED
  BY <1>2, <1>3, <1>4, <1>5, <1>6, <1>7, <1>8 DEF Next, Process

LEMMA TaskInit == Init => TaskInv
BY DEF Init, TaskInv

\* A run that waits in the queue is read back as the command line it was, so it
\* would be deployed, or refused, as in place: ScheduledLikeInPlace (Serialize
\* and FromConfig).
THEOREM ScheduledIsInPlace == Spec => []ScheduledLikeInPlace
<1>1. TaskInv => ScheduledLikeInPlace
  <2> SUFFICES ASSUME TaskInv, NEW i \in 1 .. Len(tasks), tasks[i].origin # NoCommand,
                      ~tasks[i].origin.anyArgs
               PROVE  /\ ~Rejected(tasks[i].config)
                      /\ FromConfig(tasks[i].config) = RunOptions(tasks[i].origin)
    BY DEF ScheduledLikeInPlace
  <2>1. tasks[i].origin \in Commands /\ tasks[i].config = Serialize(RunOptions(tasks[i].origin))
    BY DEF TaskInv, TaskOK
  <2>2. tasks[i].origin.anyArgs = FALSE
    BY <2>1, CommandTypes
  <2> QED
    BY <2>1, <2>2, RoundTrip, RunRecord
<1>2. TaskInv /\ [Next]_vars => TaskInv'
  BY TaskStep
<1> QED
  BY <1>1, <1>2, TaskInit, PTL DEF Spec

(***************************************************************************)
(* Answers                                                                 *)
(***************************************************************************)

\* What is known of the last answer
Answered ==
  /\ last.flow \in Flow
  /\ OptionsOK(last.options)
  /\ last.before \in Nat
  /\ last.verdict = "deployed" =>
       /\ last.after = TargetCount(last.options, last.before)
       /\ \E c \in BOOLEAN : Verdict(last.options, last.flow, c) = "deployed"
  /\ last.via # "status" /\ last.origin # NoCommand =>
       last.origin \in Commands /\ Asks(last.origin, last.options)

AnswerInv ==
  /\ flow \in Flows /\ cyclic \in BOOLEAN
  /\ deployed \in [FlowNames -> Nat]
  /\ last # NoCommand => Answered

LEMMA AnswerKeeps ==
  ASSUME AnswerInv, NEW via, NEW c, NEW o, OptionsOK(o), Answer(via, c, o),
         via # "status" /\ c # NoCommand => c \in Commands /\ Asks(c, o),
         UNCHANGED clusterVars
  PROVE  AnswerInv'
<1> DEFINE before == deployed[o.FlowName]
           after == IF Outcome(o) = "deployed" THEN TargetCount(o, before) ELSE before
<1>1. before \in Nat /\ after \in Nat
  BY CountIsNatural DEF AnswerInv, OptionsOK
<1>2. deployed' = [deployed EXCEPT ![o.FlowName] = after]
  BY DEF Answer
<1>3. deployed' \in [FlowNames -> Nat]
  BY <1>1, <1>2 DEF AnswerInv
<1>4. last' = [via |-> via, origin |-> c, options |-> o, verdict |-> Outcome(o), flow |-> flow,
               before |-> before, after |-> after]
  BY DEF Answer
<1>5. flow \in Flow /\ flow' = flow /\ cyclic' = cyclic
  BY FlowsAssumption DEF AnswerInv, clusterVars
<1>6. Outcome(o) = "deployed" => Verdict(o, flow, cyclic) = "deployed"
  BY DEF Outcome
<1>7. Outcome(o) = "deployed" => after = TargetCount(o, before)
  OBVIOUS
<1> HIDE DEF before, after
<1>8. Answered'
  BY <1>1, <1>4, <1>5, <1>6, <1>7 DEF Answered, AnswerInv
<1> QED
  BY <1>3, <1>5, <1>8 DEF AnswerInv

LEMMA AnswerStep ==
  ASSUME TaskInv, AnswerInv, [Next]_vars
  PROVE  AnswerInv'
<1> USE DEF vars, podVars, userVars, clusterVars, processVars, Quiet
<1>1. ASSUME UNCHANGED <<flow, cyclic, deployed>>, last' \in {NoCommand, last} PROVE AnswerInv'
  BY <1>1 DEF AnswerInv, Answered
<1>2. CASE UNCHANGED vars
  BY <1>1, <1>2
<1>3. CASE Upgrade \/ CallOff \/ Crash \/ DieOfTask \/ DeployHangs \/ RejectTask \/ DeleteTask
  BY <1>1, <1>3 DEF Upgrade, CallOff, Crash, DieOfTask, DeployHangs, RejectTask, DeleteTask
<1>4. CASE \E p \in Pods : Pod(p) \/ StartupFails(p)
  BY <1>1, <1>4 DEF Pod, CheckVersion, CreateTPRIfNotExists, StartProcess, StartupFails
<1>5. CASE (\E c \in Commands : Run(c)) \/ \E cfg \in HandWritten : Write(cfg)
  BY <1>1, <1>5 DEF Run, Write, NewTask
<1>6. CASE ChangeDefinitions
  BY <1>6 DEF ChangeDefinitions, AnswerInv
<1>7. ASSUME NEW c \in Commands, RunInPlace(c) PROVE AnswerInv'
  BY <1>7, AnswerKeeps, RunAsks DEF RunInPlace
<1>8. ASSUME NEW c \in Commands, GetStatus(c) PROVE AnswerInv'
  BY <1>8, AnswerKeeps, StatusIsOptions DEF GetStatus
<1>9. CASE DeployTask
  <2> DEFINE t == Head(tasks)
             o == FromConfig(t.config)
  <2>1. /\ tasks # <<>> /\ ~Rejected(t.config) /\ Answer("task", t.origin, o)
        /\ UNCHANGED clusterVars
    BY <1>9 DEF DeployTask, CanTake
  <2>2. TaskOK(t)
    BY <2>1 DEF TaskInv
  <2> HIDE DEF t, o
  <2>3. CASE t.origin = NoCommand /\ t.config \in HandWritten
    BY <2>1, <2>3, AnswerKeeps, ConfigIsOptions DEF o
  <2>4. CASE t.origin \in Commands /\ t.config = Serialize(RunOptions(t.origin))
    <3>1. o = OptionsOf(t.origin, FALSE)
      BY <2>4, RoundTrip DEF o
    <3>2. OptionsOK(o) /\ Asks(t.origin, o)
      BY <2>4, <3>1, OptionsAsk
    <3> QED
      BY <2>1, <2>4, <3>2, AnswerKeeps
  <2> QED
    BY <2>2, <2>3, <2>4 DEF TaskOK
<1> QED
  BY <1>2, <1>3, <1>4, <1>5, <1>6, <1>7, <1>8, <1>9 DEF Next, Process

LEMMA AnswerInit == Init => AnswerInv
<1> SUFFICES ASSUME Init PROVE AnswerInv
  OBVIOUS
<1>1. cyclic = FALSE
  BY DEF Init
<1>2. cyclic \in BOOLEAN
  BY <1>1
<1>3. flow \in Flows /\ deployed \in [FlowNames -> Nat] /\ last = NoCommand
  BY DEF Init
<1> QED
  BY <1>2, <1>3 DEF AnswerInv

LEMMA AnswersInvariant == Spec => []AnswerInv
<1>1. TaskInv /\ AnswerInv /\ [Next]_vars => TaskInv' /\ AnswerInv'
  BY TaskStep, AnswerStep
<1> QED
  BY <1>1, TaskInit, AnswerInit, PTL DEF Spec

\* A flow that was run, in place or from the queue, has as many replicas as the
\* documentation of -n promises from those there were when it was deployed:
\* CountAsDocumented (run, FromConfig and allocateReplicas).
THEOREM RunsAsDocumented == Spec => []CountAsDocumented
<1>1. AnswerInv => CountAsDocumented
  BY CountOfRun DEF AnswerInv, Answered, CountAsDocumented
<1> QED
  BY <1>1, AnswersInvariant, PTL

\* In a deployed flow no mandatory parameter is without an argument, and only an
\* empty argument, or the default "" in the place of a missing one, leaves a
\* declared parameter as a reference: EveryParameterBound (checkArgs, GetArg and
\* getArgFunc).
THEOREM ParametersBound == Spec => []EveryParameterBound
<1>1. AnswerInv => EveryParameterBound
  <2> SUFFICES ASSUME AnswerInv, last # NoCommand, last.verdict = "deployed",
                      Visible(last.flow, last.options), NEW p \in Params
               PROVE  /\ Evaluate(p, last.options, last.flow) = "$" =>
                           \/ last.flow.params[p] = "none"
                           \/ p \in DOMAIN last.options.Args /\ last.options.Args[p] = ""
                           \/ p \notin DOMAIN last.options.Args /\ last.flow.params[p] = "empty"
                      /\ p \in DOMAIN last.options.Args /\ last.options.Args[p] # "" =>
                           Evaluate(p, last.options, last.flow) = last.options.Args[p]
    BY DEF EveryParameterBound
  <2> DEFINE args == last.options.Args
             param == last.flow.params[p]
  <2>1. \A q \in DOMAIN args : args[q] # "$"
    BY DEF AnswerInv, Answered, OptionsOK, ArgumentsOK
  <2>2. param \in {"mandatory", "optional", "empty", "none"}
    BY DEF AnswerInv, Answered, Flow
  <2>3. checkArgs(last.options, last.flow)
    <3>1. PICK c \in BOOLEAN : Verdict(last.options, last.flow, c) = "deployed"
      BY DEF AnswerInv, Answered
    <3>2. CASE ~checkArgs(last.options, last.flow)
      BY <3>1, <3>2 DEF Verdict
    <3> QED
      BY <3>2
  <2>4. param = "mandatory" => p \in DOMAIN args
    BY <2>3 DEF checkArgs
  <2> QED
    BY <2>1, <2>2, <2>4 DEF Evaluate, GetArg
<1> QED
  BY <1>1, AnswersInvariant, PTL
=============================================================================
