---------------------------- MODULE CycleAnalyzer ----------------------------
(***************************************************************************)
(* Cycle detection: pkg/scheduler/dependency_analyzer.go.                  *)
(*                                                                         *)
(* EnsureNoCycles looks, for every flow and each of its two selectors, at  *)
(* the graph of the dependencies that belong to that path, and collects    *)
(* the cycles detectCycles finds there. detectCycles is Kosaraju's         *)
(* algorithm with a difference: vertices are assigned to components in     *)
(* the order in which the first phase finished them, on the graph itself,  *)
(* and not in reverse order on the transposed graph.                       *)
(*                                                                         *)
(* One step is one iteration of a loop of detectCycles or one call of      *)
(* visitVertex or assignVertex; the loops over maps go in any order, and   *)
(* so do those over children, which are sorted by their names.             *)
(***************************************************************************)
EXTENDS Flows, SequencesExt

CONSTANTS
  DependencyLists, \* the sets of dependencies the cluster may hold
  None

ASSUME DependenciesAssumption == \A list \in DependencyLists :
  /\ IsFiniteSet(list)
  /\ \A d \in list : d.uid \in Nat /\ d.parent \in Keys /\ d.child \in Keys

ASSUME NoneAssumption == None \notin (Definitions \cup {Default}) \X BOOLEAN

VARIABLES
  deps,       \* the dependencies
  todo,       \* <<flow, selector>>: paths EnsureNoCycles has yet to look at
  current,    \* the path being looked at
  visited,    \* vertices visited in the first phase
  stack,      \* the calls of visitVertex in progress
  ordered,    \* orderedVertices, without those the second phase is done with
  component,  \* the component that is being made
  components, \* the components found so far
  cycles      \* the cycles found, over all paths

searchVars == <<visited, stack, ordered, component, components>>
analyzerVars == <<deps, todo, current, searchVars, cycles>>

\* the keys of `flows`: flow/DEFAULT is among them, defined or not
AnalyzedFlows == DefinedFlows \cup {Default}

AnalyzerInit ==
  /\ deps \in DependencyLists
  /\ todo = AnalyzedFlows \X BOOLEAN
  /\ current = None
  /\ visited = {} /\ stack = <<>> /\ ordered = <<>> /\ component = {} /\ components = {}
  /\ cycles = {}

\* groupDependentResources
Edges(path) ==
  {<<d.parent, d.child>> : d \in {e \in deps :
     /\ CanDependencyBelongToFlow(e, path[1], path[2])
     /\ ~(e.parent # path[1] /\ Owned(e, AnalyzedFlows))}}

VerticesOf(edges) == {e[1] : e \in edges} \cup {e[2] : e \in edges}

Children(edges, v) == {e[2] : e \in {x \in edges : x[1] = v}}

Start(path) ==
  /\ current = None
  /\ path \in todo
  /\ path[2] => <<path[1], FALSE>> \notin todo
  /\ todo' = todo \ {path}
  /\ current' = path
  /\ UNCHANGED <<deps, searchVars, cycles>>

(***************************************************************************)
(* The first phase: depth first, a vertex is listed after its descendants. *)
(***************************************************************************)

\* visitVertex is called by the loop over the graph, or by itself for a child.
VisitVertex(v) ==
  /\ current # None
  /\ v \notin visited
  /\ IF stack = <<>> THEN v \in VerticesOf(Edges(current))
                     ELSE v \in Children(Edges(current), Last(stack))
  /\ visited' = visited \cup {v}
  /\ stack' = Append(stack, v)
  /\ UNCHANGED <<deps, todo, current, ordered, component, components, cycles>>

\* Mutation: the order of Kosaraju's algorithm, but not its transposed graph.
PushFront(v) == <<v>> \o ordered

PushBack(v) == Append(ordered, v)

\* ... and returns.
LeaveVertex ==
  /\ stack # <<>>
  /\ Children(Edges(current), Last(stack)) \subseteq visited
  /\ stack' = Front(stack)
  /\ ordered' = PushBack(Last(stack))
  /\ UNCHANGED <<deps, todo, current, visited, component, components, cycles>>

AllVisited == current # None /\ stack = <<>> /\ VerticesOf(Edges(current)) \subseteq visited

(***************************************************************************)
(* The second phase: a component is what can be reached from its root      *)
(* through vertices that have none.                                        *)
(***************************************************************************)
Assigned == component \cup UNION components

\* The vertices assignVertex is going to be called for, below the root
Unassigned == (UNION {Children(Edges(current), v) : v \in component}) \ Assigned

AssignRoot ==
  /\ AllVisited
  /\ component = {} /\ ordered # <<>>
  /\ IF Head(ordered) \in Assigned
     THEN ordered' = Tail(ordered) /\ UNCHANGED component
     ELSE component' = {Head(ordered)} /\ UNCHANGED ordered
  /\ UNCHANGED <<deps, todo, current, visited, stack, components, cycles>>

AssignChild(v) ==
  /\ v \in Unassigned
  /\ component' = component \cup {v}
  /\ UNCHANGED <<deps, todo, current, visited, stack, ordered, components, cycles>>

\* assignVertex returns to detectCycles.
CloseComponent ==
  /\ component # {} /\ Unassigned = {}
  /\ components' = components \cup {component} /\ component' = {}
  /\ ordered' = Tail(ordered)
  /\ UNCHANGED <<deps, todo, current, visited, stack, cycles>>

\* Mutation: a resource that depends on itself is not looked for.
NoSelfCycles(edges) == {}

SelfCycles(edges) == {{e[1]} : e \in {x \in edges : x[1] = x[2]}}

\* detectCycles returns.
Collect ==
  /\ AllVisited
  /\ ordered = <<>> /\ component = {}
  /\ cycles' = cycles \cup {c \in components : Cardinality(c) > 1} \cup SelfCycles(Edges(current))
  /\ current' = None
  /\ visited' = {} /\ components' = {}
  /\ UNCHANGED <<deps, todo, stack, ordered, component>>

Analyzed == current = None /\ todo = {}

AnalyzerNext ==
  \/ \E path \in todo : Start(path)
  \/ \E v \in Keys : VisitVertex(v) \/ AssignChild(v)
  \/ LeaveVertex \/ AssignRoot \/ CloseComponent \/ Collect

AnalyzerOK ==
  /\ \A d \in deps : d.uid \in Nat /\ d.parent \in Keys /\ d.child \in Keys
  /\ todo \subseteq AnalyzedFlows \X BOOLEAN
  /\ current \in (AnalyzedFlows \X BOOLEAN) \cup {None}
  /\ visited \subseteq Keys /\ {stack, ordered} \subseteq Seq(visited)
  /\ component \subseteq visited /\ components \subseteq SUBSET visited
  /\ cycles \subseteq SUBSET Keys

(***************************************************************************)
(* Properties                                                              *)
(***************************************************************************)

\* There are vertices each of which has an edge to one of them: in a finite graph,
\* a cycle.
Cyclic(edges) ==
  \E C \in (SUBSET VerticesOf(edges)) \ {{}} : \A v \in C : Children(edges, v) \cap C # {}

\* EnsureNoCycles rejects the dependencies exactly when a path of some flow has a
\* cycle, although detectCycles assigns components without the transposed graph
\* and its components can have vertices that are on no cycle.
VerdictExact ==
  Analyzed => (cycles = {} <=> \A path \in AnalyzedFlows \X BOOLEAN : ~Cyclic(Edges(path)))
=============================================================================
