---------------------------- MODULE DeployOrder ----------------------------
(***************************************************************************)
(* What the deployment of a dependency graph promises to whoever asked for *)
(* it, without goroutines, channels, tickers or attempts: every resource   *)
(* is requested once, after the parents it depends on; then it is          *)
(* completed; and the deployment is finished only when all of them are.    *)
(***************************************************************************)
EXTENDS Integers

CONSTANTS
  Nodes,  \* the resources of the graph
  Deps,   \* pairs <<parent, child>> of ordinary (not on-error) dependencies
  Ask     \* Ask[p]: the readiness level p must have had

VARIABLES
  stage,    \* stage[r]: "waiting", then "requested", then "completed"
  level,    \* level[r]: the highest readiness level r has had
  excused,  \* excused[r]: the failure of r does not hold its dependents
  outcome   \* "running", then "finished" or "abandoned"

vars == <<stage, level, excused, outcome>>

TypeOK ==
  /\ stage \in [Nodes -> {"waiting", "requested", "completed"}]
  /\ level \in [Nodes -> Int]
  /\ excused \in [Nodes -> BOOLEAN]
  /\ outcome \in {"running", "finished", "abandoned"}

Init ==
  /\ TypeOK
  /\ \A r \in Nodes : stage[r] = "waiting" /\ ~excused[r]
  /\ outcome = "running"

\* The ordinary parents of r have been as ready as they must be.
Allowed(r) ==
  \A p \in Nodes : <<p, r>> \in Deps => level[p] >= Ask[p] \/ excused[p]

Request(r) ==
  /\ stage[r] = "waiting"
  /\ Allowed(r)
  /\ stage' = [stage EXCEPT ![r] = "requested"]
  /\ UNCHANGED <<level, excused, outcome>>

Complete(r) ==
  /\ stage[r] = "requested"
  /\ stage' = [stage EXCEPT ![r] = "completed"]
  /\ UNCHANGED <<level, excused, outcome>>

\* A resource gets readier; what it has been is never taken back.
Advance ==
  /\ level' \in [Nodes -> Int]
  /\ \A r \in Nodes : level'[r] >= level[r]
  /\ UNCHANGED <<stage, excused, outcome>>

Excuse(r) ==
  /\ excused' = [excused EXCEPT ![r] = TRUE]
  /\ UNCHANGED <<stage, level, outcome>>

Finish ==
  /\ outcome = "running"
  /\ \A r \in Nodes : stage[r] = "completed"
  /\ outcome' = "finished"
  /\ UNCHANGED <<stage, level, excused>>

Abandon ==
  /\ outcome = "running"
  /\ outcome' = "abandoned"
  /\ UNCHANGED <<stage, level, excused>>

Next ==
  \/ \E r \in Nodes : Request(r) \/ Complete(r) \/ Excuse(r)
  \/ Advance \/ Finish \/ Abandon

Spec == Init /\ [][Next]_vars
=============================================================================
