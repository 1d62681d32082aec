-------------------------------- MODULE Flows --------------------------------
(***************************************************************************)
(* Flows and dependencies: which dependencies belong to which path of      *)
(* which flow, in pkg/scheduler/dependency_graph.go.                       *)
(*                                                                         *)
(* A dependency is a record [uid, parent, child, labels, arg]. uid is its  *)
(* place in the sorted list of dependencies and stands for its metadata    *)
(* too; arg is the argument it gives to its child. A selector and the      *)
(* labels of a dependency are sets of pairs <<key, value>>.                *)
(***************************************************************************)
EXTENDS Integers, FiniteSets

CONSTANTS
  Keys,         \* resource keys as dependencies have them, parameters included
  FlowKeys,     \* the keys that begin with "flow/"
  Default,      \* "flow/DEFAULT"
  Definitions,  \* resDefs: the keys that have a resource definition
  Construction, \* Construction[f], Destruction[f]: the selectors of flow f
  Destruction

\* A selector is a map: it has one value per key.
IsMap(selector) == \A l, m \in selector : l[1] = m[1] => l = m

ASSUME FlowsAssumption ==
  /\ FlowKeys \subseteq Keys /\ Default \in FlowKeys /\ Definitions \subseteq Keys
  /\ \A f \in FlowKeys : IsMap(Construction[f]) /\ IsMap(Destruction[f])
  /\ \A f \in FlowKeys : IsFiniteSet(Construction[f]) /\ IsFiniteSet(Destruction[f])
  \* newDefaultFlowObject
  /\ Default \notin Definitions => Construction[Default] = {} /\ Destruction[Default] = {}

DefinedFlows == Definitions \cap FlowKeys

\* isMapContainedIn looks at the keys only.
IsMapContainedIn(contained, containing) ==
  {l[1] : l \in contained} \subseteq {l[1] : l \in containing}

MatchesDestruction(d, f) == Destruction[f] # {} /\ Destruction[f] \subseteq d.labels

\* A destruction selector that is larger than the construction selector takes precedence.
DestructionIsSpecial(f) ==
  /\ Cardinality(Destruction[f]) > Cardinality(Construction[f])
  /\ IsMapContainedIn(Construction[f], Destruction[f])

MatchesConstruction(d, f) ==
  /\ ~(DestructionIsSpecial(f) /\ MatchesDestruction(d, f))
  /\ Construction[f] \subseteq d.labels

CanDependencyBelongToFlow(d, f, useDestructionSelector) ==
  IF useDestructionSelector THEN MatchesDestruction(d, f) ELSE MatchesConstruction(d, f)

\* The dependency is part of its parent, a flow, and not of a flow that uses its parent.
Owned(d, flows) ==
  d.parent \in flows /\ (MatchesConstruction(d, d.parent) \/ MatchesDestruction(d, d.parent))

\* groupDependencies: when nothing depends on flow/DEFAULT, whatever is not
\* a flow and depends on nothing does.
Implied(deps) ==
  LET roots == ({d.parent : d \in deps} \cup Definitions) \ (FlowKeys \cup {d.child : d \in deps})
  IN IF \E d \in deps : d.parent = Default THEN {}
     ELSE {[uid |-> 0, parent |-> Default, child |-> k, labels |-> {}, arg |-> ""] : k \in roots}

GroupDependencies(deps) == deps \cup Implied(deps)
=============================================================================
