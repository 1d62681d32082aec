----------------------------- MODULE FlowOptions -----------------------------
(***************************************************************************)
(* What becomes of a command line on its way to the dependency graph:      *)
(* cmd/run.go and cmd/get-status.go make options of it, Serialize puts     *)
(* them into a config map, FromConfig takes them out again, and            *)
(* BuildDependencyGraph checks them against the definition of the flow.    *)
(*                                                                         *)
(* A config map is a function from the keys it has to their values, where  *)
(* the arguments ("arg." keys) are one function under the key "args". A    *)
(* number or a truth value stands for its text; Malformed is a text that   *)
(* neither Atoi, ParseBool nor labels.Parse accepts.                       *)
(***************************************************************************)
EXTENDS Integers, FiniteSets

CONSTANTS
  Params,     \* names of parameters
  Malformed   \* model value

Default == "DEFAULT"

(***************************************************************************)
(* From the command line to the options                                    *)
(***************************************************************************)

\* Mutation: without -n the count is left alone, no minimum is asked for.
NoMinimum(c) ==
  [selector |-> c.label, concurrency |-> c.concurrency, FlowName |-> c.flow,
   ExportedOnly |-> TRUE, AllowUndeclaredArgs |-> c.anyArgs, Args |-> c.args,
   ReplicaCount |-> c.n, FixedNumberOfReplicas |-> c.given /\ ~c.signed,
   MinReplicaCount |-> 0, MaxReplicaCount |-> 0,
   AllowDeleteExternalResources |-> c.deleteExternal]

\* run: with a sign the count is relative; without -n there is at least one
\* replica.
RunOptions(c) == [NoMinimum(c) EXCEPT !.MinReplicaCount = IF c.given THEN 0 ELSE 1]

\* get-status and GetStatus: minus one replica, fixed, is a dry run.
StatusOptions(c) == [NoMinimum(c) EXCEPT !.ReplicaCount = -1, !.FixedNumberOfReplicas = TRUE,
                                         !.AllowDeleteExternalResources = FALSE]

(***************************************************************************)
(* From the options to a config map and back                               *)
(***************************************************************************)
Serialize(o) ==
  [selector |-> o.selector, concurrency |-> o.concurrency, flowName |-> o.FlowName,
   exportedOnly |-> o.ExportedOnly, allowUndeclaredArgs |-> o.AllowUndeclaredArgs,
   replicaCount |-> o.ReplicaCount, fixedNumberOfReplicas |-> o.FixedNumberOfReplicas,
   minReplicaCount |-> o.MinReplicaCount, maxReplicaCount |-> o.MaxReplicaCount,
   allowDeleteExternalResources |-> o.AllowDeleteExternalResources, args |-> o.Args]

\* The getters: a key that is missing has the zero value of its type.
get(cfg, key, zero) == IF key \in DOMAIN cfg THEN cfg[key] ELSE zero

\* One of the getters returns an error.
Rejected(cfg) == \E key \in DOMAIN cfg \ {"flowName", "args"} : cfg[key] = Malformed

\* Mutation: the minimum is not read back.
ForgetMinimum(cfg) ==
  [selector |-> get(cfg, "selector", ""),
   concurrency |-> get(cfg, "concurrency", 0),
   FlowName |-> IF get(cfg, "flowName", "") = "" THEN Default ELSE cfg["flowName"],
   ExportedOnly |-> get(cfg, "exportedOnly", FALSE),
   AllowUndeclaredArgs |-> FALSE,
   Args |-> get(cfg, "args", <<>>),
   ReplicaCount |-> get(cfg, "replicaCount", 0),
   FixedNumberOfReplicas |-> get(cfg, "fixedNumberOfReplicas", FALSE),
   MinReplicaCount |-> 0,
   MaxReplicaCount |-> get(cfg, "maxReplicaCount", 0),
   AllowDeleteExternalResources |-> get(cfg, "allowDeleteExternalResources", FALSE)]

\* FromConfig: allowUndeclaredArgs is read into AllowDeleteExternalResources,
\* which is then read from its own key.
FromConfig(cfg) ==
  [ForgetMinimum(cfg) EXCEPT !.MinReplicaCount = get(cfg, "minReplicaCount", 0)]

(***************************************************************************)
(* BuildDependencyGraph                                                    *)
(***************************************************************************)

\* A flow's definition as far as the options meet it: its name and label,
\* whether it is exported, and its parameters. "none" leaves one undeclared, an
\* "optional" one has a default value, an "empty" one the default "".
Flow == [name : {Default, "web"}, label : {"", "other"}, exported : BOOLEAN,
         params : [Params -> {"mandatory", "optional", "empty", "none"}]]

\* newDefaultFlowObject
DefaultFlow ==
  [name |-> Default, label |-> "", exported |-> TRUE, params |-> [p \in Params |-> "none"]]

\* List of the definitions: those whose labels the selector matches
Listed(flow, selector) == selector = "" \/ selector = flow.label

\* It is the flow asked for, and the selector lets its definition through.
Visible(flow, o) == flow.name = o.FlowName /\ Listed(flow, o.selector)

\* Mutation: a mandatory argument may be missing.
UndeclaredOnly(o, flow) ==
  ~o.AllowUndeclaredArgs => \A p \in DOMAIN o.Args : flow.params[p] # "none"

checkArgs(o, flow) ==
  /\ UndeclaredOnly(o, flow)
  /\ \A p \in Params : flow.params[p] = "mandatory" => p \in DOMAIN o.Args

\* The early returns up to the check for cycles, in their order
Verdict(o, flow, cyclic) ==
  LET found == IF Visible(flow, o) THEN flow ELSE DefaultFlow
  IN CASE ~Visible(flow, o) /\ o.FlowName # Default -> "not found"
       [] ~found.exported /\ o.ExportedOnly -> "not exported"
       [] ~checkArgs(o, found) -> "wrong arguments"
       [] cyclic -> "fatal"
       [] OTHER -> "deployed"

\* allocateReplicas, or getAllReplicas for a dry run
TargetCount(o, deployed) ==
  LET wanted == o.ReplicaCount + (IF o.FixedNumberOfReplicas THEN 0 ELSE deployed)
      atLeast == IF wanted < o.MinReplicaCount THEN o.MinReplicaCount ELSE wanted
  IN IF o.ReplicaCount < 0 /\ o.FixedNumberOfReplicas THEN deployed
     ELSE IF /\ o.MaxReplicaCount > 0 /\ o.MaxReplicaCount > o.MinReplicaCount
             /\ atLeast > o.MaxReplicaCount
          THEN o.MaxReplicaCount ELSE atLeast

\* GetArg in the root context
GetArg(p, o, flow) ==
  IF p \in DOMAIN o.Args THEN o.Args[p]
  ELSE IF flow.params[p] = "optional" THEN "default" ELSE ""

\* getArgFunc: an empty value leaves the reference as it is.
Evaluate(p, o, flow) ==
  IF GetArg(p, o, flow) = "" THEN "$" ELSE GetArg(p, o, flow)
=============================================================================
