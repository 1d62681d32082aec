-------------------------- MODULE GraphRefinement --------------------------
(***************************************************************************)
(* GraphDeploy implements DeployOrder: the goroutines of scheduler.go, seen *)
(* through what their caller can tell apart.                               *)
(***************************************************************************)
EXTENDS GraphDeploy

CONSTANT Ask  \* Ask[p]: a level every ordinary dependent of p asks at least

ASSUME AskAssumption ==
  /\ Ask \in [Nodes -> 0 .. Full]
  /\ \A e \in Edges : Ask[e[1]] <= Need[e]

\* A resource is requested once Started is set, completed once its worker has
\* reported it to Deploy.
Stage ==
  [r \in Nodes |-> IF wpc[r] = "done" THEN "completed"
                   ELSE IF started[r] THEN "requested" ELSE "waiting"]

Outcome ==
  CASE mpc = "finished" -> "finished"
    [] mpc = "stopped" -> "abandoned"
    [] OTHER -> "running"

Order == INSTANCE DeployOrder
  WITH Deps <- Edges \ OnErrorEdges, stage <- Stage, level <- reached,
       excused <- ignored, outcome <- Outcome

\* Whatever the interleaving of tickers, workers, pollers and retries, the
\* deployment (Deploy, scheduler.go) takes the steps of DeployOrder only: each
\* resource requested once and in dependency order, then completed, and the
\* finalizer after all of them.
DeploysInOrder == Order!Spec
=============================================================================
