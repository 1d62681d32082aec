----------------------------- MODULE MCFrontend -----------------------------
(***************************************************************************)
(* Command lines, config maps and definitions for module Frontend.         *)
(***************************************************************************)
EXTENDS Frontend

Line(given, signed, n, args) ==
  [label |-> "", concurrency |-> 1, flow |-> "web", given |-> given, signed |-> signed, n |-> n,
   args |-> args, anyArgs |-> FALSE, deleteExternal |-> FALSE]

\* No -n, an absolute count and a relative one; an argument with a value, with
\* an empty one, and none; other labels and switches
SomeCommands ==
  {Line(FALSE, FALSE, 0, [p \in {"p"} |-> "value"]),
   [Line(TRUE, FALSE, 2, <<>>) EXCEPT !.deleteExternal = TRUE],
   [Line(TRUE, TRUE, -1, [p \in {"p"} |-> ""]) EXCEPT !.label = "other", !.anyArgs = TRUE]}

\* A config map with hardly a key, and one that cannot be read
SomeConfigs ==
  {[replicaCount |-> 3, maxReplicaCount |-> 2], [flowName |-> "web", minReplicaCount |-> Malformed]}

SomeFlows ==
  {[name |-> "web", label |-> "other", exported |-> TRUE, params |-> [p \in Params |-> "optional"]],
   [name |-> "web", label |-> "", exported |-> TRUE, params |-> [p \in Params |-> "mandatory"]],
   [name |-> "web", label |-> "", exported |-> TRUE, params |-> [p \in Params |-> "empty"]],
   [name |-> Default, label |-> "", exported |-> FALSE, params |-> [p \in Params |-> "none"]]}

\* A run with an argument that the flow does not declare, with the switch that
\* allows it and without
LenientCommands ==
  {[Line(FALSE, FALSE, 0, [p \in {"p"} |-> "value"]) EXCEPT !.anyArgs = any] : any \in BOOLEAN}
NoConfigs == {}
LenientFlows == {[name |-> "web", label |-> "", exported |-> TRUE,
                  params |-> [p \in Params |-> "none"]]}
=============================================================================
