------------------------------ MODULE GraphBuild ------------------------------
(***************************************************************************)
(* Construction of a dependency graph: BuildDependencyGraph and            *)
(* fillDependencyGraph in pkg/scheduler/dependency_graph.go, and the       *)
(* choice of the resources the deleting finalizer destroys.                *)
(*                                                                         *)
(* After the cycle check (CycleAnalyzer) the graph is filled, replica by   *)
(* replica: the dependencies are walked breadth first from the flow, each  *)
(* dependency met becomes a block, and the blocks are merged into the      *)
(* resources of the graph by their names, where parameters have been       *)
(* replaced. When replicas are to be destructed, a second graph shows what *)
(* all the replicas use.                                                   *)
(*                                                                         *)
(* One step is one block of the walk, or one block of the merge, where the *)
(* map of blocks is traversed in any order. The lists of ScheduledResource *)
(* are sets here: BuildDependencyGraph removes their duplicates in the end. *)
(***************************************************************************)
EXTENDS CycleAnalyzer

CONSTANTS
  Base,        \* Base[k]: the key k without its suffix
  Proper,      \* the keys of a kind there is
  Args,        \* what dependencies may say of the arguments of their children
  Contexts,    \* arguments a resource may get
  Top,         \* the arguments of the flow itself
  Replicas,    \* names of replicas
  Pass,        \* Pass[a, v, r]: what a gives in replica r, below a resource that got v
  Name,        \* Name[k, v, r]: name of the resource k that got v, in replica r
  Requests     \* [flow, construct, destruct, all]: the flow, the lists of replicas
               \* to construct and to destruct, and of all there are

ASSUME KeysAssumption ==
  /\ Base \in [Keys -> Keys] /\ Base[Default] = Default
  /\ Proper \subseteq Keys

ASSUME ContextsAssumption ==
  /\ Top \in Contexts
  /\ Pass \in [Args \X Contexts \X Replicas -> Contexts \ {Top}]
  /\ DOMAIN Name = Keys \X Contexts \X Replicas

ASSUME ArgsAssumption == \A list \in DependencyLists : \A d \in GroupDependencies(list) : d.arg \in Args

ASSUME RequestsAssumption == \A r \in Requests :
  /\ r.flow \in AnalyzedFlows
  /\ {r.construct, r.destruct, r.all} \subseteq Seq(Replicas)
  /\ IsInjective(r.construct) /\ IsInjective(r.destruct) /\ IsInjective(r.all)
  /\ r.construct = <<>> \/ r.destruct = <<>>  \* allocateReplicas
  /\ Range(r.destruct) \subseteq Range(r.all)

VARIABLES
  pc,      \* where BuildDependencyGraph is
  request, \* its options, and the replicas allocated
  left,    \* replicas fillDependencyGraph has yet to go through
  blocks,  \* all blocks of the call, [parent, dep, parentContext, key, replica];
           \* parent 0 is the flow
  queue,   \* the walk: blocks whose children have not been looked at
  toMerge, \* entries of the map of blocks yet to be merged
  merging, \* blocks of the entry at hand yet to be merged
  graphs   \* graphs.deploy and graphs.all: depGraph and allReplicasGraph

buildVars == <<pc, request, left, blocks, queue, toMerge, merging, graphs>>
vars == <<analyzerVars, buildVars>>

Fills == {"construct", "destruct", "survey"}

Init ==
  /\ AnalyzerInit
  /\ pc = "analyze" /\ request = None
  /\ left = <<>> /\ blocks = <<>> /\ queue = <<>> /\ toMerge = {} /\ merging = {}
  /\ graphs = [deploy |-> <<>>, all |-> <<>>]

Analyze == pc = "analyze" /\ AnalyzerNext /\ UNCHANGED buildVars

\* EnsureNoCycles: log.Fatal
Reject ==
  /\ pc = "analyze" /\ Analyzed /\ cycles # {}
  /\ pc' = "fatal"
  /\ UNCHANGED <<analyzerVars, request, left, blocks, queue, toMerge, merging, graphs>>

\* No cycles. The replicas are allocated (module ReplicaSpace), and the first fill begins.
Accept(r) ==
  /\ pc = "analyze" /\ Analyzed /\ cycles = {}
  /\ request' = r
  /\ pc' = "construct" /\ left' = r.construct /\ queue' = <<0>>
  /\ UNCHANGED <<analyzerVars, blocks, toMerge, merging, graphs>>

(***************************************************************************)
(* fillDependencyGraph                                                     *)
(***************************************************************************)

Target == IF pc = "survey" THEN "all" ELSE "deploy"

\* The key of block i in the dependencies; block 0 is the flow itself.
RawKey(i) == IF i = 0 THEN request.flow ELSE blocks[i].dep.child

\* What belongs to a flow that is used by this one is left to that flow.
Skipped(d, i) == i # 0 /\ RawKey(i) \in FlowKeys /\ Owned(d, DefinedFlows)

\* filterDependencies: the dependencies that start from block i
ChildDependencies(i) ==
  {d \in GroupDependencies(deps) :
     /\ d.parent = RawKey(i)
     /\ CanDependencyBelongToFlow(d, request.flow, pc = "destruct")
     /\ ~Skipped(d, i)}

\* Those of them the loop has yet to look at
Pending(i) ==
  {d \in ChildDependencies(i) : \A j \in DOMAIN blocks :
     ~(blocks[j].parent = i /\ blocks[j].replica = Head(left) /\ blocks[j].dep = d)}

\* They come in the order of their creation.
NextDependency(i) == CHOOSE d \in Pending(i) : \A e \in Pending(i) : d.uid <= e.uid

\* prepareContext: a dependency gives its child arguments that may refer to those its
\* parent got. So one dependency names different resources below different blocks:
\* a use of it is a pair <<dependency, what the parent got>>.
PrepareContext(d, parentContext, replica) == Pass[d.arg, parentContext, replica]

NameOf(use, r) == Name[use[1].child, PrepareContext(use[1], use[2], r), r]

\* What the resource of block i got
Context(i) ==
  IF i = 0 THEN Top ELSE PrepareContext(blocks[i].dep, blocks[i].parentContext, blocks[i].replica)

NewBlock(i, d) ==
  [parent |-> i, dep |-> d, parentContext |-> Context(i), replica |-> Head(left),
   key |-> NameOf(<<d, Context(i)>>, Head(left))]

\* newResource looks a definition up by the key without its suffix.
HasDefinition(k) == Base[k] \in Definitions

\* newScheduledResource fails for a kind there is not, and a flow must have a definition
\* (flowTemplateFactory.NewExisting).
Refused(d) == d.child \notin Proper
Undefined(d) == d.child \in FlowKeys /\ ~HasDefinition(d.child)

\* Mutation: off by one
PositionAfterNext == Len(blocks) + 2

\* Where a new block goes in the list of all blocks
Position == Len(blocks) + 1

Walking == pc \in Fills /\ left # <<>> /\ queue # <<>>

\* One dependency of the first block of the queue
Follow ==
  /\ Walking /\ Pending(Head(queue)) # {}
  /\ LET d == NextDependency(Head(queue))
     IN IF Refused(d) \/ Undefined(d)
        THEN pc' = (IF Refused(d) THEN "error" ELSE "fatal") /\ UNCHANGED <<blocks, queue>>
        ELSE /\ blocks' = Append(blocks, NewBlock(Head(queue), d))
             /\ queue' = Append(queue, Position)
             /\ UNCHANGED pc
  /\ UNCHANGED <<analyzerVars, request, left, toMerge, merging, graphs>>

\* The next block of the queue; after the last one the merge begins.
NextBlock ==
  /\ Walking /\ Pending(Head(queue)) = {}
  /\ queue' = Tail(queue)
  /\ toMerge' = IF queue' = <<>> THEN {blocks[i].dep.child : i \in DOMAIN blocks} ELSE {}
  /\ UNCHANGED <<analyzerVars, pc, request, left, blocks, merging, graphs>>

\* The blocks of the dependents of block i
Dependents(i) == {j \in DOMAIN blocks : blocks[j].parent = i}

\* The metadata of the dependency, under the name of the parent
MetaOf(i) ==
  IF blocks[i].parent = 0 THEN <<>> ELSE [p \in {blocks[i].dep.parent} |-> blocks[i].dep.uid]

\* Mutation: a parent lists itself in place of its dependents.
ResourceMixedUp(i) ==
  [block      |-> i,
   requires   |-> IF blocks[i].parent = 0 THEN {} ELSE {blocks[blocks[i].parent].key},
   requiredBy |-> IF Dependents(i) = {} THEN {} ELSE {blocks[i].key},
   usedIn     |-> {blocks[i].replica},
   existing   |-> ~HasDefinition(blocks[i].dep.child),
   meta       |-> MetaOf(i)]

\* The ScheduledResource of block i
Resource(i) ==
  [block      |-> i,
   requires   |-> IF blocks[i].parent = 0 THEN {} ELSE {blocks[blocks[i].parent].key},
   requiredBy |-> {blocks[j].key : j \in Dependents(i)},
   usedIn     |-> {blocks[i].replica},
   existing   |-> ~HasDefinition(blocks[i].dep.child),
   meta       |-> MetaOf(i)]

\* The map old, with the entries of new written over it
Overlay(new, old) ==
  [k \in DOMAIN new \cup DOMAIN old |-> IF k \in DOMAIN new THEN new[k] ELSE old[k]]

\* Mutation: new dependents are dropped.
FirstDependentsOnly(old, new) ==
  [old EXCEPT !.requires = @ \cup new.requires, !.usedIn = @ \cup new.usedIn,
              !.meta = Overlay(new.meta, @)]

\* What the graph knows of a resource, and one more block for it
Merged(old, new) ==
  [block |-> old.block, existing |-> old.existing,
   requires |-> old.requires \cup new.requires, requiredBy |-> old.requiredBy \cup new.requiredBy,
   usedIn |-> old.usedIn \cup new.usedIn, meta |-> Overlay(new.meta, old.meta)]

\* The graph holds the resource of the first block of a name itself. The merges of later
\* replicas meet that block again, and merge the resource into itself.
MergeBlock(graph, i) ==
  LET key == blocks[i].key
  IN IF key \notin DOMAIN graph THEN Overlay([k \in {key} |-> Resource(i)], graph)
     ELSE IF graph[key].block = i THEN graph
     ELSE [graph EXCEPT ![key] = Merged(@, Resource(i))]

\* The blocks of one key of the map come next, those of earlier replicas included.
MergeEntry(k) ==
  /\ pc \in Fills /\ queue = <<>>
  /\ merging = {} /\ k \in toMerge
  /\ merging' = {i \in DOMAIN blocks : blocks[i].dep.child = k}
  /\ toMerge' = toMerge \ {k}
  /\ UNCHANGED <<analyzerVars, pc, request, left, blocks, queue, graphs>>

\* They are merged one after the other.
Merge(i) ==
  /\ i \in merging /\ \A j \in merging : i <= j
  /\ graphs' = [graphs EXCEPT ![Target] = MergeBlock(@, i)]
  /\ merging' = merging \ {i}
  /\ UNCHANGED <<analyzerVars, pc, request, left, blocks, queue, toMerge>>

NextReplica ==
  /\ pc \in Fills /\ left # <<>> /\ queue = <<>> /\ toMerge = {} /\ merging = {}
  /\ left' = Tail(left)
  /\ queue' = <<0>>
  /\ UNCHANGED <<analyzerVars, pc, request, blocks, toMerge, merging, graphs>>

\* fillDependencyGraph returns. The graph of all replicas is filled only if
\* there are replicas to destruct.
NextFill ==
  /\ pc \in Fills /\ left = <<>>
  /\ \/ pc = "construct" /\ pc' = "destruct" /\ left' = request.destruct
     \/ pc = "destruct" /\ request.destruct # <<>> /\ pc' = "survey" /\ left' = request.all
     \/ pc = "destruct" /\ request.destruct = <<>> /\ pc' = "done" /\ left' = <<>>
     \/ pc = "survey" /\ pc' = "done" /\ left' = <<>>
  /\ blocks' = <<>>
  /\ queue' = <<0>>
  /\ UNCHANGED <<analyzerVars, request, toMerge, merging, graphs>>

Fill ==
  \/ Follow \/ NextBlock
  \/ (\E k \in Keys : MergeEntry(k)) \/ (\E i \in merging : Merge(i))
  \/ NextReplica \/ NextFill

Next == Analyze \/ Reject \/ (\E r \in Requests : Accept(r)) \/ Fill

Spec == Init /\ [][Next]_vars

\* Mutation: resources that other replicas use are not told apart.
UsedByAny(resource) == resource.usedIn \cap Range(request.destruct) # {}

\* getResourceDestructors: resourceCanBeDeleted
CanBeDeleted(resource) == resource.usedIn \subseteq Range(request.destruct)

\* What the deleting finalizer destroys, unless it may delete external resources
\* (deleteResource): not the resources that were expected to exist
Destroyed ==
  UNION {{k \in DOMAIN graph : CanBeDeleted(graph[k]) /\ ~graph[k].existing} :
         graph \in {graphs.all, graphs.deploy}}

(***************************************************************************)
(* Properties                                                              *)
(***************************************************************************)

\* Every variable has its type; the parents of blocks come before them.
TypeOK ==
  /\ AnalyzerOK
  /\ pc \in Fills \cup {"analyze", "done", "error", "fatal"}
  /\ request \in Requests \cup {None}
  /\ left \in Seq(Replicas)
  /\ \A i \in DOMAIN blocks :
       /\ blocks[i].parent \in 0 .. i - 1
       /\ blocks[i].dep \in GroupDependencies(deps)
       /\ blocks[i].replica \in Replicas /\ blocks[i].parentContext \in Contexts
  /\ queue \in Seq(0 .. Len(blocks))
  /\ toMerge \subseteq Keys /\ merging \subseteq DOMAIN blocks

\* The walk ends because of the cycle check: on the way from the flow to a block no
\* key comes twice, that of the flow included. There is no set of visited resources
\* that would end it. (This needs ImplicitFlowUnused.)
NoRepetition ==
  LET above[i \in 0 .. Len(blocks)] ==
        IF i = 0 THEN {} ELSE {RawKey(i)} \cup above[blocks[i].parent]
  IN \A i \in DOMAIN blocks : RawKey(i) \notin {request.flow} \cup above[blocks[i].parent]

\* What can be reached from S: what is in every set that has S and is closed under the edges
Reach(edges, S) ==
  LET all == S \cup {e[2] : e \in edges}
      closed == {C \in SUBSET all : S \subseteq C /\ \A e \in edges : e[1] \in C => e[2] \in C}
  IN {v \in all : \A C \in closed : v \in C}

\* docs/flows.md: the dependencies "that are reachable from this vertex using
\* dependencies with labels that match" the selector; beyond a flow that is
\* used, only those that do not match that flow. (Which labels match is the code's rule,
\* CanDependencyBelongToFlow; see DestructionHasPriority.)
Usable(destruction) ==
  {u \in GroupDependencies(deps) \X Contexts :
     /\ CanDependencyBelongToFlow(u[1], request.flow, destruction)
     /\ u[2] = Top \/ ~Owned(u[1], DefinedFlows)}

\* The uses of dependencies in replica r: from a resource with the arguments it got to
\* another with those it gets
Scope(destruction, r) ==
  LET usable == Usable(destruction)
      edges == {<<<<u[1].parent, u[2]>>, <<u[1].child, PrepareContext(u[1], u[2], r)>>>> : u \in usable}
      reached == Reach(edges, {<<request.flow, Top>>})
  IN {u \in usable : <<u[1].parent, u[2]>> \in reached}

\* The names the replicas of S need on one path
Needs(destruction, S) == UNION {{NameOf(u, r) : u \in Scope(destruction, r)} : r \in S}

\* Those among them that are created, and those that are expected to exist: a name may
\* be both when it is that of two keys.
Makes(destruction, S) ==
  UNION {{NameOf(u, r) : u \in {x \in Scope(destruction, r) : HasDefinition(x[1].child)}} : r \in S}
Expects(destruction, S) ==
  UNION {{NameOf(u, r) : u \in {x \in Scope(destruction, r) : ~HasDefinition(x[1].child)}} : r \in S}

\* The replicas and the path of the graph that is going to be deployed
Listed == Range(request.construct) \cup Range(request.destruct)
Destructs == request.destruct # <<>>

\* The dependencies that lead to the name k there
LeadingTo(k) ==
  UNION {{u[1] : u \in {x \in Scope(Destructs, r) : NameOf(x, r) = k}} : r \in Listed}

\* ... from another resource, and not from the flow itself
LinksTo(k) ==
  UNION {{u[1] : u \in {x \in Scope(Destructs, r) : NameOf(x, r) = k /\ x[2] # Top}} : r \in Listed}

\* The graph has the resource k if a replica of S needs it, and knows of just those that do.
KnowsWhoNeeds(graph, destruction, S, k) ==
  LET needing == {r \in S : k \in Needs(destruction, {r})}
  IN IF needing = {} THEN k \notin DOMAIN graph
     ELSE k \in DOMAIN graph /\ graph[k].usedIn = needing

\* The graph has the resources of the flow's scope, in every replica, and no
\* others, and each is known to be used in exactly the replicas that need it.
UsedWhereNeeded ==
  pc = "done" =>
    \A k \in DOMAIN graphs.deploy \cup DOMAIN graphs.all
              \cup Needs(Destructs, Replicas) \cup Needs(FALSE, Replicas) :
      /\ KnowsWhoNeeds(graphs.deploy, Destructs, Listed, k)
      /\ Destructs => KnowsWhoNeeds(graphs.all, FALSE, Range(request.all), k)

\* Requires and RequiredBy say the same, of resources the graph has: Deploy follows
\* RequiredBy to start dependents and waits for Requires to let them through.
Mirrored ==
  pc = "done" =>
    LET graph == graphs.deploy
    IN \A k \in DOMAIN graph :
         /\ \A p \in graph[k].requires : p \in DOMAIN graph /\ k \in graph[p].requiredBy
         /\ \A c \in graph[k].requiredBy : c \in DOMAIN graph /\ k \in graph[c].requires

\* A resource has metadata for every parent key some dependency gives it, and for no
\* other, and each is that of one of the dependencies between the two. (Which one, when
\* they are several, is up to the order of the merge: it need not be the latest.)
MetadataKept ==
  pc = "done" =>
    \A k \in DOMAIN graphs.deploy :
      LET meta == graphs.deploy[k].meta
      IN /\ DOMAIN meta = {d.parent : d \in LinksTo(k)}
         /\ \A p \in DOMAIN meta : \E d \in LinksTo(k) : d.parent = p /\ d.uid = meta[p]

\* The merge, of all replicas and in whatever order, keeps what each of them says of a
\* resource: where it is used, what it requires, what requires it and the parents it has
\* metadata for.
MergeLosesNothing == UsedWhereNeeded /\ Mirrored /\ MetadataKept

\* The edges of a graph, between resources it has
EdgesOf(graph) == UNION {{k} \X (graph[k].requiredBy \cap DOMAIN graph) : k \in DOMAIN graph}

\* When flow/DEFAULT gets its dependencies from groupDependencies, no other flow uses it.
ImplicitFlowUnused ==
  \A list \in DependencyLists :
    Implied(list) # {} /\ Default \in Definitions => \A d \in list : d.child # Default

\* dependency_graph.go: "Making sure there is no cycles in the dependency graph". The
\* check is made on keys, before parameters are replaced; the graph that is deployed is
\* merged by names, over replicas and over the arguments of different parents. It has no
\* cycle among the names that are those of one key each. (This needs ImplicitFlowUnused.)
DeployableGraph ==
  pc = "done" =>
    LET ofOneKey == {k \in DOMAIN graphs.deploy : \A d, e \in LeadingTo(k) : d.child = e.child}
    IN ~Cyclic(EdgesOf(graphs.deploy) \cap (ofOneKey \X ofOneKey))

\* The same for all names, as the log message says. (It is violated: two keys may have
\* one name.)
AcyclicGraph == pc = "done" => ~Cyclic(EdgesOf(graphs.deploy))

\* docs/flows.md, of the destruction scope and the construction scope: "the latter will
\* have priority over the former for dependencies that match both selectors at the same
\* time". (It is violated: canDependencyBelongToFlow gives it only to a selector that is
\* larger and has the keys of the other one.)
DestructionHasPriority ==
  pc = "construct" => \A i \in DOMAIN blocks : ~MatchesDestruction(blocks[i].dep, request.flow)

Survivors == Range(request.all) \ Range(request.destruct)

\* What is destroyed was created, and is either of no surviving replica or of the
\* destruction path; and whatever was created and is of no surviving replica, or is of
\* the destruction path, is destroyed, unless its name is also that of a resource that
\* was expected to exist.
ExclusiveDestroyed ==
  pc = "done" /\ Destructs =>
    LET all == Range(request.all)
        gone == Range(request.destruct)
    IN /\ Destroyed \subseteq (Makes(FALSE, all) \ Needs(FALSE, Survivors)) \cup Makes(TRUE, gone)
       /\ (Makes(FALSE, all) \ Expects(FALSE, all)) \ Needs(FALSE, Survivors) \subseteq Destroyed
       /\ Makes(TRUE, gone) \ Expects(TRUE, gone) \subseteq Destroyed
=============================================================================
