-------------------------- MODULE GraphBuildProofs --------------------------
(***************************************************************************)
(* What BuildDependencyGraph promises, for every set of dependencies, flow *)
(* and list of replicas: the verdict of the cycle check, and the contents  *)
(* of the graphs that are filled after it.                                 *)
(***************************************************************************)
EXTENDS GraphBuild, TLAPS, FiniteSetTheorems, WellFoundedInduction

(***************************************************************************)
(* Sequences                                                               *)
(***************************************************************************)

LEMMA SeqFacts ==
  ASSUME NEW S, NEW s \in Seq(S)
  PROVE  /\ Len(s) \in Nat /\ DOMAIN s = 1 .. Len(s)
         /\ \A i \in 1 .. Len(s) : s[i] \in S
         /\ Range(s) \subseteq S
  BY DEF Range

LEMMA SeqGrows ==
  ASSUME NEW S, NEW T, S \subseteq T, NEW s \in Seq(S)
  PROVE  s \in Seq(T)
<1>1. Len(s) \in Nat /\ s = [i \in 1 .. Len(s) |-> s[i]] /\ \A i \in 1 .. Len(s) : s[i] \in T
  OBVIOUS
<1> QED
  BY <1>1

LEMMA RangeOneMore ==
  ASSUME NEW s, NEW t, NEW n \in Nat, DOMAIN s = 1 .. n, DOMAIN t = 1 .. n + 1,
         \A i \in 1 .. n : t[i] = s[i]
  PROVE  Range(t) = Range(s) \cup {t[n + 1]}
<1>1. \A i : i \in 1 .. n + 1 <=> i \in 1 .. n \/ i = n + 1
  OBVIOUS
<1> QED
  BY <1>1 DEF Range

LEMMA AppendFacts ==
  ASSUME NEW S, NEW s \in Seq(S), NEW v
  PROVE  /\ Append(s, v) \in Seq(S \cup {v})
         /\ Append(s, v) # <<>>
         /\ Len(Append(s, v)) = Len(s) + 1
         /\ \A i \in 1 .. Len(s) : Append(s, v)[i] = s[i]
         /\ Append(s, v)[Len(s) + 1] = v
         /\ Range(Append(s, v)) = Range(s) \cup {v}
<1>1. s \in Seq(S \cup {v})
  BY SeqGrows
<1>2. /\ Append(s, v) \in Seq(S \cup {v}) /\ Append(s, v) # <<>>
      /\ Len(Append(s, v)) = Len(s) + 1
      /\ \A i \in 1 .. Len(s) : Append(s, v)[i] = s[i]
      /\ Append(s, v)[Len(s) + 1] = v
  BY <1>1
<1>3. Len(s) \in Nat /\ DOMAIN s = 1 .. Len(s) /\ DOMAIN Append(s, v) = 1 .. Len(s) + 1
  BY <1>1, <1>2
<1>4. Range(Append(s, v)) = Range(s) \cup {Append(s, v)[Len(s) + 1]}
  BY <1>2, <1>3, RangeOneMore
<1> QED
  BY <1>2, <1>4

LEMMA LastFacts ==
  ASSUME NEW S, NEW s \in Seq(S), s # <<>>
  PROVE  /\ Len(s) \in Nat \ {0} /\ Last(s) = s[Len(s)] /\ Last(s) \in Range(s)
         /\ Front(s) \in Seq(S) /\ Len(Front(s)) = Len(s) - 1
         /\ \A i \in 1 .. Len(s) - 1 : Front(s)[i] = s[i]
         /\ Range(s) = Range(Front(s)) \cup {Last(s)}
<1>1. Len(s) \in Nat \ {0} /\ Last(s) = s[Len(s)]
  BY DEF Last
<1>2. Front(s) = [i \in 1 .. Len(s) - 1 |-> s[i]]
  BY <1>1 DEF Front
<1>3. /\ Len(s) \in Nat \ {0} /\ Last(s) = s[Len(s)]
      /\ Front(s) \in Seq(S) /\ Len(Front(s)) = Len(s) - 1
      /\ \A i \in 1 .. Len(s) - 1 : Front(s)[i] = s[i]
  BY <1>1, <1>2
<1>4. DOMAIN s = 1 .. Len(s) /\ DOMAIN Front(s) = 1 .. Len(s) - 1
  BY <1>3
<1>5. \A i : i \in 1 .. Len(s) <=> i \in 1 .. Len(s) - 1 \/ i = Len(s)
  BY <1>3
<1>6. \A x : x \in Range(s) <=> x \in Range(Front(s)) \cup {Last(s)}
  BY <1>3, <1>4, <1>5 DEF Range
<1> QED
  BY <1>3, <1>6

LEMMA TailFacts ==
  ASSUME NEW S, NEW s \in Seq(S), s # <<>>
  PROVE  /\ Len(s) \in Nat \ {0} /\ Head(s) = s[1] /\ Head(s) \in Range(s) /\ Head(s) \in S
         /\ Tail(s) \in Seq(S) /\ Len(Tail(s)) = Len(s) - 1
         /\ \A i \in 1 .. Len(s) - 1 : Tail(s)[i] = s[i + 1]
         /\ Range(s) = Range(Tail(s)) \cup {Head(s)}
<1>1. /\ Len(s) \in Nat \ {0} /\ Head(s) = s[1] /\ Head(s) \in S
      /\ Tail(s) \in Seq(S) /\ Len(Tail(s)) = Len(s) - 1
      /\ \A i \in 1 .. Len(s) - 1 : Tail(s)[i] = s[i + 1]
  OBVIOUS
<1>2. DOMAIN s = 1 .. Len(s) /\ DOMAIN Tail(s) = 1 .. Len(s) - 1
  BY <1>1
<1>3. \A i : i \in 1 .. Len(s) <=> i = 1 \/ (i \in Int /\ i - 1 \in 1 .. Len(s) - 1)
  BY <1>1
<1>4. ASSUME NEW x, x \in Range(s)
      PROVE  x \in Range(Tail(s)) \cup {Head(s)}
  <2>1. PICK i \in 1 .. Len(s) : x = s[i]
    BY <1>2, <1>4 DEF Range
  <2>2. CASE i = 1
    BY <1>1, <2>1, <2>2
  <2>3. CASE i # 1
    <3>1. i - 1 \in 1 .. Len(s) - 1 /\ i - 1 + 1 = i
      BY <1>1, <2>3
    <3> QED
      BY <1>1, <1>2, <2>1, <3>1 DEF Range
  <2> QED
    BY <2>2, <2>3
<1>5. ASSUME NEW x, x \in Range(Tail(s)) \cup {Head(s)}
      PROVE  x \in Range(s)
  <2>1. CASE x = Head(s)
    BY <1>1, <1>2, <2>1 DEF Range
  <2>2. CASE x \in Range(Tail(s))
    <3>1. PICK i \in 1 .. Len(s) - 1 : x = Tail(s)[i]
      BY <1>2, <2>2 DEF Range
    <3>2. i + 1 \in 1 .. Len(s)
      BY <1>1, <3>1
    <3> QED
      BY <1>1, <1>2, <3>1, <3>2 DEF Range
  <2> QED
    BY <1>5, <2>1, <2>2
<1>6. Head(s) \in Range(s)
  BY <1>5
<1> QED
  BY <1>1, <1>4, <1>5, <1>6

\* Every set of natural numbers that has one has a least one.
LEMMA LeastNatural ==
  ASSUME NEW S \in SUBSET Nat, S # {}
  PROVE  \E m \in S : \A n \in S : m <= n
<1> DEFINE Smaller == {ss \in Nat \X Nat : ss[1] < ss[2]}
<1>1. IsWellFoundedOn(Smaller, Nat)
  BY NatLessThanWellFounded DEF OpToRel
<1>2. PICK m \in S : \A n \in S : <<n, m>> \notin Smaller
  <2> HIDE DEF Smaller
  <2> QED
    BY <1>1, WFMin
<1>3. ASSUME NEW n \in S
      PROVE  m <= n
  <2>1. ~(n < m)
    BY <1>2
  <2> QED
    BY <2>1
<1> QED
  BY <1>3

(***************************************************************************)
(* The cycle check.                                                        *)
(***************************************************************************)

IsSingleton(c) == \E v : c = {v}

\* The search through one path, whose edges are E. The calls in progress are a
\* walk; what has been left has its children among the visited vertices.
SearchInv(E) ==
  /\ IsFiniteSet(visited)
  /\ stack \in Seq(visited) /\ ordered \in Seq(visited)
  /\ component \subseteq visited /\ components \subseteq SUBSET visited
  /\ visited = Range(stack) \cup Range(ordered) \cup Assigned
  /\ \A i \in 1 .. Len(stack) - 1 : stack[i + 1] \in Children(E, stack[i])
  /\ \A v \in visited \ Range(stack) : Children(E, v) \subseteq visited

\* Components are closed and disjoint. As long as they are single vertices, they
\* come in an order: a set of them has one that depends on no other.
ComponentInv(E) ==
  /\ component # {} =>
       /\ stack = <<>> /\ VerticesOf(E) \subseteq visited
       /\ ordered # <<>> /\ Head(ordered) \in component
  /\ component \cap UNION components = {}
  /\ {} \notin components
  /\ \A v \in UNION components : Children(E, v) \subseteq UNION components
  /\ (\A c \in components : IsSingleton(c)) =>
       \A C \in SUBSET UNION components :
         C # {} => \E v \in C : Children(E, v) \cap C \subseteq {v}

\* Without cycles a vertex is listed after its children, and every component is
\* one vertex.
AcyclicInv(E) ==
  ~Cyclic(E) =>
    /\ \A n \in 1 .. Len(ordered) : \A v \in Children(E, ordered[n]) :
         v \in UNION components \/ \E m \in 1 .. n - 1 : ordered[m] = v
    /\ component = {} \/ component = {Head(ordered)}
    /\ \A c \in components : IsSingleton(c)

AnalyzerInv ==
  /\ current = None =>
       visited = {} /\ stack = <<>> /\ ordered = <<>> /\ component = {} /\ components = {}
  /\ SearchInv(Edges(current)) /\ ComponentInv(Edges(current)) /\ AcyclicInv(Edges(current))

Paths == AnalyzedFlows \X BOOLEAN

\* The paths that have been looked at
Checked == Paths \ (todo \cup {current})

VerdictInv ==
  /\ AnalyzerInv
  /\ None \notin Paths /\ todo \subseteq Paths
  /\ current \in Paths \cup {None} /\ current \notin todo
  /\ cycles = {} <=> \A path \in Checked : ~Cyclic(Edges(path))

LEMMA CyclicIff ==
  ASSUME NEW E, NEW C, C # {}, \A v \in C : Children(E, v) \cap C # {}
  PROVE  Cyclic(E)
<1>1. ASSUME NEW v \in C
      PROVE  v \in VerticesOf(E)
  BY <1>1 DEF Children, VerticesOf
<1> QED
  BY <1>1 DEF Cyclic

\* Nothing has been found yet.
LEMMA EmptySearch ==
  ASSUME NEW E, visited = {}, stack = <<>>, ordered = <<>>, component = {}, components = {}
  PROVE  SearchInv(E) /\ ComponentInv(E) /\ AcyclicInv(E)
<1>1. Range(stack) = {} /\ Range(ordered) = {} /\ Assigned = {} /\ UNION components = {}
  BY DEF Range, Assigned
<1>2. Len(stack) = 0 /\ Len(ordered) = 0 /\ <<>> \in Seq(visited)
  OBVIOUS
<1>3. SearchInv(E)
  BY <1>1, <1>2, FS_EmptySet DEF SearchInv
<1>4. ComponentInv(E)
  BY <1>1 DEF ComponentInv
<1>5. AcyclicInv(E)
  BY <1>2 DEF AcyclicInv
<1> QED
  BY <1>3, <1>4, <1>5

\* ... or no more, after the step.
LEMMA EmptySearchNext ==
  ASSUME NEW E, visited' = {}, stack' = <<>>, ordered' = <<>>, component' = {}, components' = {}
  PROVE  SearchInv(E)' /\ ComponentInv(E)' /\ AcyclicInv(E)'
<1>1. Range(stack') = {} /\ Range(ordered') = {} /\ Assigned' = {} /\ UNION components' = {}
  BY DEF Range, Assigned
<1>2. Len(stack') = 0 /\ Len(ordered') = 0 /\ <<>> \in Seq(visited')
  OBVIOUS
<1>3. SearchInv(E)'
  BY <1>1, <1>2, FS_EmptySet DEF SearchInv
<1>4. ComponentInv(E)'
  BY <1>1 DEF ComponentInv
<1>5. AcyclicInv(E)'
  BY <1>2 DEF AcyclicInv
<1> QED
  BY <1>3, <1>4, <1>5

\* What holds without cycles says nothing of the first phase, and lets a component
\* be begun.
LEMMA Unlisted ==
  ASSUME NEW E, AcyclicInv(E), ordered' = ordered, components' = components,
         component' \in {component, {}, {Head(ordered)}}
  PROVE  AcyclicInv(E)'
<1>1. ASSUME ~Cyclic(E)
      PROVE  /\ \A n \in 1 .. Len(ordered) : \A v \in Children(E, ordered[n]) :
                  v \in UNION components \/ \E m \in 1 .. n - 1 : ordered[m] = v
             /\ component = {} \/ component = {Head(ordered)}
             /\ \A c \in components : IsSingleton(c)
  BY <1>1 DEF AcyclicInv
<1>2. ASSUME ~Cyclic(E)
      PROVE  component' = {} \/ component' = {Head(ordered')}
  BY <1>1, <1>2
<1> QED
  BY <1>1, <1>2 DEF AcyclicInv

LEMMA VisitVertexSearch ==
  ASSUME NEW E, E = Edges(current), SearchInv(E), ComponentInv(E), AcyclicInv(E),
         NEW v, VisitVertex(v)
  PROVE  SearchInv(E)' /\ ComponentInv(E)' /\ AcyclicInv(E)'
<1> USE DEF VisitVertex
<1>1. Assigned' = Assigned /\ ordered' = ordered
  BY DEF Assigned
<1>2. stack \in Seq(visited) /\ ordered \in Seq(visited) /\ visited' = visited \cup {v}
  BY DEF SearchInv
<1>3. /\ stack' \in Seq(visited') /\ stack' # <<>> /\ Len(stack') = Len(stack) + 1
      /\ \A i \in 1 .. Len(stack) : stack'[i] = stack[i]
      /\ stack'[Len(stack) + 1] = v
      /\ Range(stack') = Range(stack) \cup {v}
      /\ ordered' \in Seq(visited')
  <2>1. stack' = Append(stack, v)
    OBVIOUS
  <2>2. ordered' \in Seq(visited')
    BY <1>1, <1>2, SeqGrows
  <2> QED
    BY <1>2, <2>1, <2>2, AppendFacts
<1>4. ASSUME NEW i \in 1 .. Len(stack') - 1
      PROVE  stack'[i + 1] \in Children(E, stack'[i])
  <2>1. Len(stack) \in Nat /\ i \in 1 .. Len(stack)
    BY <1>2, <1>3, SeqFacts
  <2>2. CASE i = Len(stack)
    <3>1. stack # <<>> /\ Last(stack) = stack[i]
      BY <2>1, <2>2 DEF Last
    <3> QED
      BY <1>3, <2>1, <2>2, <3>1
  <2>3. CASE i # Len(stack)
    <3>1. i \in 1 .. Len(stack) - 1 /\ i + 1 \in 1 .. Len(stack)
      BY <2>1, <2>3
    <3> QED
      BY <1>3, <2>1, <3>1 DEF SearchInv
  <2> QED
    BY <2>2, <2>3
<1>5. SearchInv(E)'
  <2>1. IsFiniteSet(visited')
    <3>1. IsFiniteSet(visited)
      BY DEF SearchInv
    <3> QED
      BY <1>2, <3>1, FS_AddElement
  <2>2. visited' = Range(stack') \cup Range(ordered') \cup Assigned'
    BY <1>1, <1>2, <1>3 DEF SearchInv
  <2>3. \A w \in visited' \ Range(stack') : Children(E, w) \subseteq visited'
    BY <1>2, <1>3 DEF SearchInv
  <2>4. component' \subseteq visited' /\ components' \subseteq SUBSET visited'
    BY <1>2 DEF SearchInv
  <2> QED
    BY <1>3, <1>4, <2>1, <2>2, <2>3, <2>4 DEF SearchInv
<1>6. component = {}
  BY DEF ComponentInv
<1>7. ComponentInv(E)'
  BY <1>6 DEF ComponentInv
<1>8. ordered' = ordered /\ component' = component /\ components' = components
  OBVIOUS
<1>9. AcyclicInv(E)'
  BY <1>8, Unlisted
<1> QED
  BY <1>5, <1>7, <1>9

LEMMA LeaveVertexSearch ==
  ASSUME NEW E, E = Edges(current), SearchInv(E), ComponentInv(E), AcyclicInv(E), LeaveVertex
  PROVE  SearchInv(E)' /\ ComponentInv(E)' /\ AcyclicInv(E)'
<1> USE DEF LeaveVertex, PushBack
<1> DEFINE last == Last(stack)
<1>1. Assigned' = Assigned /\ visited' = visited
  BY DEF Assigned
<1>2. /\ stack \in Seq(visited) /\ ordered \in Seq(visited) /\ stack # <<>>
      /\ Len(stack) \in Nat \ {0} /\ Len(ordered) \in Nat
  BY SeqFacts DEF SearchInv
<1>3. /\ stack' \in Seq(visited) /\ Len(stack') = Len(stack) - 1
      /\ \A i \in 1 .. Len(stack) - 1 : stack'[i] = stack[i]
      /\ last = stack[Len(stack)] /\ last \in Range(stack)
      /\ Range(stack) = Range(stack') \cup {last}
  BY <1>2, LastFacts
<1>4. last \in visited
  BY <1>3 DEF SearchInv
<1>5. /\ ordered' \in Seq(visited) /\ Len(ordered') = Len(ordered) + 1 /\ ordered' # <<>>
      /\ \A i \in 1 .. Len(ordered) : ordered'[i] = ordered[i]
      /\ ordered'[Len(ordered) + 1] = last
      /\ Range(ordered') = Range(ordered) \cup {last}
  <2>1. visited \cup {last} = visited
    BY <1>4
  <2> QED
    BY <1>2, <2>1, AppendFacts
<1>6. SearchInv(E)'
  <2>1. visited' = Range(stack') \cup Range(ordered') \cup Assigned'
    BY <1>1, <1>3, <1>5 DEF SearchInv
  <2>2. \A i \in 1 .. Len(stack') - 1 : stack'[i + 1] \in Children(E, stack'[i])
    <3>1. \A i \in 1 .. Len(stack') - 1 : i \in 1 .. Len(stack) - 1 /\ i + 1 \in 1 .. Len(stack) - 1
      BY <1>2, <1>3
    <3> QED
      BY <1>3, <3>1 DEF SearchInv
  <2>3. \A w \in visited' \ Range(stack') : Children(E, w) \subseteq visited'
    BY <1>1, <1>3 DEF SearchInv
  <2> QED
    BY <1>1, <1>3, <1>5, <2>1, <2>2, <2>3 DEF SearchInv
<1>7. ordered # <<>> => Head(ordered') = Head(ordered)
  <2>1. ASSUME ordered # <<>>
        PROVE  Head(ordered') = Head(ordered)
    <3>1. 1 \in 1 .. Len(ordered) /\ Head(ordered) = ordered[1]
      BY <1>2, <2>1, TailFacts
    <3>2. Head(ordered') = ordered'[1]
      BY <1>5, TailFacts
    <3> QED
      BY <1>5, <3>1, <3>2
  <2> QED
    BY <2>1
<1>8. ComponentInv(E)'
  BY <1>5, <1>7 DEF ComponentInv
<1>9. ASSUME ~Cyclic(E), NEW v \in Children(E, last)
      PROVE  v \in UNION components \/ \E m \in 1 .. Len(ordered) : ordered[m] = v
  <2>1. v \in visited
    BY <1>9
  <2>2. ASSUME v \in Range(stack)
        PROVE  FALSE
    <3>1. PICK j \in 1 .. Len(stack) : v = stack[j]
      BY <1>2, <2>2, SeqFacts DEF Range
    <3> DEFINE C == {stack[i] : i \in j .. Len(stack)}
    <3>2. v \in C /\ C # {}
      BY <1>2, <3>1
    <3>3. ASSUME NEW i \in j .. Len(stack)
          PROVE  Children(E, stack[i]) \cap C # {}
      <4>1. CASE i = Len(stack)
        BY <1>3, <1>9, <3>2, <4>1
      <4>2. CASE i # Len(stack)
        <5>1. i \in 1 .. Len(stack) - 1 /\ i + 1 \in j .. Len(stack)
          BY <1>2, <3>1, <4>2
        <5>2. stack[i + 1] \in Children(E, stack[i])
          BY <5>1 DEF SearchInv
        <5> QED
          BY <5>1, <5>2
      <4> QED
        BY <4>1, <4>2
    <3>4. \A w \in C : Children(E, w) \cap C # {}
      BY <3>3
    <3> HIDE DEF C
    <3> QED
      BY <1>9, <3>2, <3>4, CyclicIff
  <2>3. CASE v \in Range(ordered)
    BY <1>2, <2>3, SeqFacts DEF Range
  <2>4. CASE v \in Assigned
    <3>1. CASE v \in component
      <4>1. ordered # <<>> /\ v = Head(ordered)
        BY <1>9, <3>1 DEF AcyclicInv, ComponentInv
      <4> QED
        BY <1>2, <4>1, TailFacts
    <3> QED
      BY <2>4, <3>1 DEF Assigned
  <2> QED
    BY <2>1, <2>2, <2>3, <2>4 DEF SearchInv
<1>10. AcyclicInv(E)'
  <2> SUFFICES ASSUME ~Cyclic(E)
               PROVE  AcyclicInv(E)'
    BY DEF AcyclicInv
  <2>1. ASSUME NEW n \in 1 .. Len(ordered'), NEW v \in Children(E, ordered'[n])
        PROVE  v \in UNION components \/ \E m \in 1 .. n - 1 : ordered'[m] = v
    <3>1. CASE n = Len(ordered) + 1
      <4>1. ordered'[n] = last /\ n - 1 = Len(ordered)
        BY <1>2, <1>5, <3>1
      <4> QED
        BY <1>5, <1>9, <2>1, <4>1
    <3>2. CASE n # Len(ordered) + 1
      <4>1. n \in 1 .. Len(ordered) /\ \A m \in 1 .. n - 1 : m \in 1 .. Len(ordered)
        BY <1>2, <1>5, <3>2
      <4>2. ordered'[n] = ordered[n] /\ \A m \in 1 .. n - 1 : ordered'[m] = ordered[m]
        BY <1>5, <4>1
      <4>3. v \in UNION components \/ \E m \in 1 .. n - 1 : ordered[m] = v
        BY <2>1, <4>1, <4>2 DEF AcyclicInv
      <4> QED
        BY <4>2, <4>3
    <3> QED
      BY <3>1, <3>2
  <2>2. component' = {} \/ component' = {Head(ordered')}
    BY <1>7 DEF AcyclicInv, ComponentInv
  <2> QED
    BY <2>1, <2>2 DEF AcyclicInv
<1> QED
  BY <1>6, <1>8, <1>10

LEMMA AssignRootSearch ==
  ASSUME NEW E, E = Edges(current), SearchInv(E), ComponentInv(E), AcyclicInv(E), AssignRoot
  PROVE  SearchInv(E)' /\ ComponentInv(E)' /\ AcyclicInv(E)'
<1> USE DEF AssignRoot
<1>1. /\ ordered \in Seq(visited) /\ ordered # <<>> /\ component = {}
      /\ UNCHANGED <<visited, stack, components>>
      /\ Assigned = UNION components
  BY DEF SearchInv, Assigned
<1>2. /\ Len(ordered) \in Nat \ {0} /\ Head(ordered) = ordered[1] /\ Head(ordered) \in visited
      /\ Tail(ordered) \in Seq(visited) /\ Len(Tail(ordered)) = Len(ordered) - 1
      /\ \A i \in 1 .. Len(ordered) - 1 : Tail(ordered)[i] = ordered[i + 1]
      /\ Range(ordered) = Range(Tail(ordered)) \cup {Head(ordered)}
  BY <1>1, TailFacts
<1>3. CASE Head(ordered) \in Assigned
  <2>1. ordered' = Tail(ordered) /\ component' = {} /\ Assigned' = Assigned
    BY <1>1, <1>3 DEF Assigned
  <2>2. visited = Range(stack) \cup Range(Tail(ordered)) \cup Assigned
    BY <1>2, <1>3 DEF SearchInv
  <2>3. SearchInv(E)'
    BY <1>1, <1>2, <2>1, <2>2 DEF SearchInv
  <2>4. ComponentInv(E)'
    BY <1>1, <2>1 DEF ComponentInv
  <2>5. ASSUME ~Cyclic(E), NEW n \in 1 .. Len(ordered'), NEW v \in Children(E, ordered'[n])
        PROVE  v \in UNION components \/ \E m \in 1 .. n - 1 : ordered'[m] = v
    <3>1. Len(ordered') = Len(ordered) - 1 /\ Len(ordered) \in Nat
      BY <1>2, <2>1
    <3>2. n + 1 \in 1 .. Len(ordered) /\ n \in 1 .. Len(ordered) - 1
      BY <3>1
    <3>3. n + 1 \in 1 .. Len(ordered) /\ ordered'[n] = ordered[n + 1] /\ n \in 1 .. Len(ordered) - 1
      BY <1>2, <2>1, <3>2
    <3>4. \A i \in 1 .. Len(ordered) : \A w \in Children(E, ordered[i]) :
            w \in UNION components \/ \E m \in 1 .. i - 1 : ordered[m] = w
      BY <2>5 DEF AcyclicInv
    <3>5. PICK k \in 1 .. Len(ordered) : k = n + 1 /\ v \in Children(E, ordered[k])
      BY <2>5, <3>3
    <3>6. v \in UNION components \/ \E m \in 1 .. k - 1 : ordered[m] = v
      BY <3>4, <3>5
    <3>7. v \in UNION components \/ \E m \in 1 .. n + 1 - 1 : ordered[m] = v
      BY <3>5, <3>6
    <3>8. ASSUME NEW m \in 1 .. n + 1 - 1, ordered[m] = v, v \notin UNION components
          PROVE  \E j \in 1 .. n - 1 : ordered'[j] = v
      <4>1. m # 1
        BY <1>1, <1>2, <1>3, <3>8
      <4>2. m - 1 \in 1 .. n - 1 /\ m - 1 \in 1 .. Len(ordered) - 1 /\ m - 1 + 1 = m
        BY <3>3, <3>8, <4>1
      <4> QED
        BY <1>2, <2>1, <3>8, <4>2
    <3> QED
      BY <3>7, <3>8
  <2>6. AcyclicInv(E)'
    BY <1>1, <2>1, <2>5 DEF AcyclicInv
  <2> QED
    BY <2>3, <2>4, <2>6
<1>4. CASE Head(ordered) \notin Assigned
  <2>1. ordered' = ordered /\ component' = {Head(ordered)} /\ Assigned' = Assigned \cup {Head(ordered)}
    BY <1>1, <1>4 DEF Assigned
  <2>2. visited = Range(stack) \cup Range(ordered) \cup Assigned'
    BY <1>2, <2>1 DEF SearchInv
  <2>3. SearchInv(E)'
    BY <1>1, <1>2, <2>1, <2>2 DEF SearchInv
  <2>4. ComponentInv(E)'
    BY <1>1, <1>4, <2>1 DEF ComponentInv, AllVisited
  <2>5. component' = {Head(ordered')} /\ ordered' = ordered /\ components' = components
    BY <1>1, <2>1
  <2>6. AcyclicInv(E)'
    BY <2>5, Unlisted
  <2> QED
    BY <2>3, <2>4, <2>6
<1> QED
  BY <1>3, <1>4

LEMMA AssignChildSearch ==
  ASSUME NEW E, E = Edges(current), SearchInv(E), ComponentInv(E), AcyclicInv(E),
         NEW v, AssignChild(v)
  PROVE  SearchInv(E)' /\ ComponentInv(E)' /\ AcyclicInv(E)'
<1> USE DEF AssignChild
<1>1. PICK u \in component : v \in Children(E, u)
  BY DEF Unassigned
<1>2. v \notin component /\ v \notin UNION components /\ component' = component \cup {v}
  <2>1. v \notin Assigned
    BY DEF Unassigned
  <2> QED
    BY <2>1 DEF Assigned
<1>3. Assigned' = Assigned \cup {v}
  BY DEF Assigned
<1>4. u \in visited /\ u \notin Range(stack)
  BY <1>1 DEF SearchInv, ComponentInv, Range
<1>5. v \in visited
  BY <1>1, <1>4 DEF SearchInv
<1>6. SearchInv(E)'
  BY <1>2, <1>3, <1>5 DEF SearchInv
<1>7. ComponentInv(E)'
  BY <1>1, <1>2 DEF ComponentInv
<1>8. AcyclicInv(E)'
  <2>1. ASSUME ~Cyclic(E)
        PROVE  FALSE
    <3>1. component = {Head(ordered)} /\ ordered # <<>>
      BY <1>1, <2>1 DEF AcyclicInv, ComponentInv
    <3>2. 1 \in 1 .. Len(ordered) /\ ordered[1] = u
      BY <1>1, <3>1, TailFacts DEF SearchInv
    <3>3. v \in UNION components \/ \E m \in 1 .. 1 - 1 : ordered[m] = v
      BY <1>1, <2>1, <3>2 DEF AcyclicInv
    <3> QED
      BY <1>2, <3>3
  <2> QED
    BY <2>1 DEF AcyclicInv
<1> QED
  BY <1>6, <1>7, <1>8

LEMMA CloseComponentSearch ==
  ASSUME NEW E, E = Edges(current), SearchInv(E), ComponentInv(E), AcyclicInv(E),
         CloseComponent
  PROVE  SearchInv(E)' /\ ComponentInv(E)' /\ AcyclicInv(E)'
<1> USE DEF CloseComponent
<1>1. /\ ordered \in Seq(visited) /\ ordered # <<>> /\ Head(ordered) \in component
      /\ components' = components \cup {component} /\ component' = {}
      /\ UNION components' = (UNION components) \cup component
      /\ UNCHANGED <<visited, stack>> /\ ordered' = Tail(ordered)
  <2>1. UNION (components \cup {component}) = (UNION components) \cup component
    OBVIOUS
  <2> QED
    BY <2>1 DEF SearchInv, ComponentInv
<1>2. Assigned' = Assigned /\ Assigned = component \cup UNION components
  BY <1>1 DEF Assigned
<1>3. /\ Len(ordered) \in Nat \ {0} /\ Head(ordered) = ordered[1]
      /\ ordered' \in Seq(visited) /\ Len(ordered') = Len(ordered) - 1
      /\ \A i \in 1 .. Len(ordered) - 1 : ordered'[i] = ordered[i + 1]
      /\ Range(ordered) = Range(ordered') \cup {Head(ordered)}
  BY <1>1, TailFacts
<1>4. SearchInv(E)'
  <2>1. visited' = Range(stack') \cup Range(ordered') \cup Assigned'
    BY <1>1, <1>2, <1>3 DEF SearchInv
  <2>2. component' \subseteq visited' /\ components' \subseteq SUBSET visited'
    BY <1>1 DEF SearchInv
  <2> QED
    BY <1>1, <1>3, <2>1, <2>2 DEF SearchInv
<1>5. ASSUME NEW v \in component, NEW w \in Children(E, v)
      PROVE  w \in Assigned
  <2>1. w \in UNION {Children(Edges(current), u) : u \in component}
    BY <1>5
  <2> QED
    BY <2>1 DEF Unassigned
<1>6. ComponentInv(E)'
  <2>1. {} \notin components' /\ component' \cap UNION components' = {}
    BY <1>1 DEF ComponentInv
  <2>2. \A v \in UNION components' : Children(E, v) \subseteq UNION components'
    BY <1>1, <1>2, <1>5 DEF ComponentInv
  <2>3. ASSUME \A c \in components' : IsSingleton(c), NEW C \in SUBSET UNION components', C # {}
        PROVE  \E v \in C : Children(E, v) \cap C \subseteq {v}
    <3>1. PICK r : component = {r}
      BY <1>1, <2>3 DEF IsSingleton
    <3>2. \A D \in SUBSET UNION components :
            D # {} => \E v \in D : Children(E, v) \cap D \subseteq {v}
      BY <1>1, <2>3 DEF ComponentInv
    <3>3. CASE C \subseteq {r}
      BY <2>3, <3>3
    <3>4. CASE ~(C \subseteq {r})
      <4>1. C \ {r} \in SUBSET UNION components /\ C \ {r} # {}
        BY <1>1, <2>3, <3>1, <3>4
      <4>2. PICK v \in C \ {r} : Children(E, v) \cap (C \ {r}) \subseteq {v}
        BY <3>2, <4>1
      <4>3. r \notin UNION components
        BY <3>1 DEF ComponentInv
      <4>4. Children(E, v) \subseteq UNION components
        BY <4>1, <4>2 DEF ComponentInv
      <4> QED
        BY <4>2, <4>3, <4>4
    <3> QED
      BY <3>3, <3>4
  <2> QED
    BY <1>1, <2>1, <2>2, <2>3 DEF ComponentInv
<1>7. ASSUME ~Cyclic(E)
      PROVE  /\ component = {Head(ordered)}
             /\ \A n \in 1 .. Len(ordered) : \A v \in Children(E, ordered[n]) :
                  v \in UNION components \/ \E m \in 1 .. n - 1 : ordered[m] = v
             /\ \A c \in components : IsSingleton(c)
  BY <1>7 DEF AcyclicInv
<1>8. ASSUME ~Cyclic(E), NEW n \in 1 .. Len(ordered'), NEW v \in Children(E, ordered'[n])
      PROVE  v \in UNION components' \/ \E m \in 1 .. n - 1 : ordered'[m] = v
  <2>1. n + 1 \in 1 .. Len(ordered) /\ ordered'[n] = ordered[n + 1] /\ n \in 1 .. Len(ordered) - 1
    BY <1>3
  <2>2. v \in UNION components \/ \E m \in 1 .. n + 1 - 1 : ordered[m] = v
    BY <1>7, <1>8, <2>1
  <2>3. ASSUME NEW m \in 1 .. n + 1 - 1, ordered[m] = v, v \notin UNION components'
        PROVE  \E k \in 1 .. n - 1 : ordered'[k] = v
    <3>1. m # 1
      BY <1>1, <1>3, <2>3
    <3>2. m - 1 \in 1 .. n - 1 /\ m - 1 \in 1 .. Len(ordered) - 1 /\ m - 1 + 1 = m
      BY <2>1, <2>3, <3>1
    <3> QED
      BY <1>3, <2>3, <3>2
  <2> QED
    BY <1>1, <2>2, <2>3
<1>9. AcyclicInv(E)'
  BY <1>1, <1>7, <1>8 DEF AcyclicInv, IsSingleton
<1> QED
  BY <1>4, <1>6, <1>9

\* A path has a cycle exactly when the search through it finds one.
LEMMA SearchVerdict ==
  ASSUME NEW E, E = Edges(current), SearchInv(E), ComponentInv(E), AcyclicInv(E),
         AllVisited, ordered = <<>>, component = {}
  PROVE  Cyclic(E) <=> {c \in components : Cardinality(c) > 1} \cup SelfCycles(E) # {}
<1> DEFINE found == {c \in components : Cardinality(c) > 1} \cup SelfCycles(E)
<1>1. ASSUME NEW c \in components
      PROVE  c # {} /\ c \subseteq visited /\ IsFiniteSet(c)
  <2>1. c # {} /\ c \in SUBSET visited /\ IsFiniteSet(visited)
    BY DEF SearchInv, ComponentInv
  <2> QED
    BY <2>1, FS_Subset
<1>2. UNION components = visited /\ VerticesOf(E) \subseteq visited
  BY DEF SearchInv, Assigned, AllVisited, Range
<1>3. ASSUME ~Cyclic(E)
      PROVE  found = {}
  <2>1. ASSUME NEW c \in components
        PROVE  ~(Cardinality(c) > 1)
    <3>1. PICK v : c = {v}
      BY <1>3 DEF AcyclicInv, IsSingleton
    <3>2. Cardinality(c) = 1
      BY <3>1, FS_Singleton
    <3> QED
      BY <3>2
  <2>2. ASSUME NEW e \in E, e[1] = e[2]
        PROVE  FALSE
    <3>1. e[1] \in Children(E, e[1])
      BY <2>2 DEF Children
    <3> QED
      BY <1>3, <3>1, CyclicIff
  <2> QED
    BY <2>1, <2>2 DEF SelfCycles
<1>4. ASSUME Cyclic(E)
      PROVE  found # {}
  <2> SUFFICES ASSUME found = {}
               PROVE  FALSE
    OBVIOUS
  <2>1. ASSUME NEW c \in components
        PROVE  IsSingleton(c)
    <3>1. Cardinality(c) \in Nat /\ ~(Cardinality(c) > 1)
      BY <1>1, <2>1, FS_CardinalityType
    <3>2. Cardinality(c) # 0
      BY <1>1, <2>1, FS_EmptySet
    <3>3. Cardinality(c) = 1
      BY <3>1, <3>2
    <3> QED
      BY <1>1, <2>1, <3>3, FS_Singleton DEF IsSingleton
  <2>2. PICK C \in (SUBSET VerticesOf(E)) \ {{}} : \A v \in C : Children(E, v) \cap C # {}
    BY <1>4 DEF Cyclic
  <2>3. PICK v \in C : Children(E, v) \cap C \subseteq {v}
    BY <1>2, <2>1, <2>2 DEF ComponentInv
  <2>4. v \in Children(E, v)
    BY <2>2, <2>3
  <2>5. PICK e \in E : e[1] = v /\ e[2] = v
    BY <2>4 DEF Children
  <2> QED
    BY <2>5 DEF SelfCycles
<1> QED
  BY <1>3, <1>4

LEMMA EdgesFrame ==
  ASSUME deps' = deps, NEW path
  PROVE  Edges(path)' = Edges(path)
  BY DEF Edges

LEMMA AnalyzerInitInv ==
  ASSUME AnalyzerInit
  PROVE  VerdictInv
<1> USE DEF AnalyzerInit
<1>1. AnalyzerInv
  BY EmptySearch DEF AnalyzerInv
<1>2. Checked = {}
  BY DEF Checked, Paths
<1>3. None \notin Paths
  BY NoneAssumption DEF Paths, AnalyzedFlows, DefinedFlows
<1> QED
  BY <1>1, <1>2, <1>3 DEF VerdictInv, Paths

\* While a path is searched, the verdict does not change.
LEMMA SearchStep ==
  ASSUME VerdictInv, current # None, UNCHANGED <<deps, todo, current, cycles>>,
         NEW E, E = Edges(current), SearchInv(E)', ComponentInv(E)', AcyclicInv(E)'
  PROVE  VerdictInv'
<1>1. \A path : Edges(path)' = Edges(path)
  BY EdgesFrame
<1>2. E = Edges(current)'
  BY <1>1
<1>3. AnalyzerInv'
  BY <1>2 DEF AnalyzerInv, SearchInv, ComponentInv, AcyclicInv
<1>4. Checked' = Checked
  BY DEF Checked
<1> QED
  BY <1>1, <1>3, <1>4 DEF VerdictInv

LEMMA StartVerdict ==
  ASSUME VerdictInv, NEW path \in todo, Start(path)
  PROVE  VerdictInv'
<1> USE DEF Start, searchVars
<1>1. \A p : Edges(p)' = Edges(p)
  BY EdgesFrame
<1>2. /\ visited' = {} /\ stack' = <<>> /\ ordered' = <<>>
      /\ component' = {} /\ components' = {}
  BY DEF VerdictInv, AnalyzerInv
<1>3. AnalyzerInv'
  <2>1. PICK E : E = Edges(current)'
    OBVIOUS
  <2>2. SearchInv(E)' /\ ComponentInv(E)' /\ AcyclicInv(E)'
    BY <1>2, EmptySearchNext
  <2> QED
    BY <1>2, <2>1, <2>2 DEF AnalyzerInv, SearchInv, ComponentInv, AcyclicInv
<1>4. path \in Paths /\ current' = path /\ todo' = todo \ {path} /\ current = None
  BY DEF VerdictInv
<1>5. Checked' = Checked
  BY <1>4 DEF Checked, VerdictInv
<1> QED
  BY <1>1, <1>3, <1>4, <1>5 DEF VerdictInv

LEMMA CollectVerdict ==
  ASSUME VerdictInv, Collect
  PROVE  VerdictInv'
<1> USE DEF Collect
<1>1. \A p : Edges(p)' = Edges(p)
  BY EdgesFrame
<1>2. current # None /\ current \in Paths /\ current \notin todo
  BY DEF VerdictInv, AllVisited
<1>3. AnalyzerInv'
  <2>1. /\ visited' = {} /\ stack' = <<>> /\ ordered' = <<>>
        /\ component' = {} /\ components' = {}
    BY DEF AllVisited
  <2>2. PICK E : E = Edges(current)'
    OBVIOUS
  <2>3. SearchInv(E)' /\ ComponentInv(E)' /\ AcyclicInv(E)'
    BY <2>1, EmptySearchNext
  <2> QED
    BY <2>1, <2>2, <2>3 DEF AnalyzerInv, SearchInv, ComponentInv, AcyclicInv
<1>4. Checked' = Checked \cup {current}
  BY <1>2 DEF Checked, VerdictInv
<1>5. PICK E : E = Edges(current)
  OBVIOUS
<1>6. Cyclic(E) <=> {c \in components : Cardinality(c) > 1} \cup SelfCycles(E) # {}
  BY <1>5, SearchVerdict DEF VerdictInv, AnalyzerInv
<1>7. cycles' = cycles \cup ({c \in components : Cardinality(c) > 1} \cup SelfCycles(E))
  BY <1>5
<1>8. cycles' = {} <=> \A path \in Checked' : ~Cyclic(Edges(path))
  BY <1>4, <1>5, <1>6, <1>7 DEF VerdictInv
<1> QED
  BY <1>1, <1>2, <1>3, <1>8 DEF VerdictInv

LEMMA AnalyzerStep ==
  ASSUME VerdictInv, AnalyzerNext
  PROVE  VerdictInv'
<1>1. PICK E : E = Edges(current)
  OBVIOUS
<1>2. SearchInv(E) /\ ComponentInv(E) /\ AcyclicInv(E)
  BY <1>1 DEF VerdictInv, AnalyzerInv
<1>3. ASSUME NEW path \in todo, Start(path)
      PROVE  VerdictInv'
  BY <1>3, StartVerdict
<1>4. ASSUME NEW v \in Keys, VisitVertex(v)
      PROVE  VerdictInv'
  <2>1. SearchInv(E)' /\ ComponentInv(E)' /\ AcyclicInv(E)'
    BY <1>1, <1>2, <1>4, VisitVertexSearch
  <2> QED
    BY <1>1, <1>4, <2>1, SearchStep DEF VisitVertex
<1>5. ASSUME LeaveVertex
      PROVE  VerdictInv'
  <2>1. SearchInv(E)' /\ ComponentInv(E)' /\ AcyclicInv(E)'
    BY <1>1, <1>2, <1>5, LeaveVertexSearch
  <2>2. current # None
    BY <1>5 DEF LeaveVertex, VerdictInv, AnalyzerInv
  <2> QED
    BY <1>1, <1>5, <2>1, <2>2, SearchStep DEF LeaveVertex
<1>6. ASSUME AssignRoot
      PROVE  VerdictInv'
  <2>1. SearchInv(E)' /\ ComponentInv(E)' /\ AcyclicInv(E)'
    BY <1>1, <1>2, <1>6, AssignRootSearch
  <2> QED
    BY <1>1, <1>6, <2>1, SearchStep DEF AssignRoot, AllVisited
<1>7. ASSUME NEW v \in Keys, AssignChild(v)
      PROVE  VerdictInv'
  <2>1. SearchInv(E)' /\ ComponentInv(E)' /\ AcyclicInv(E)'
    BY <1>1, <1>2, <1>7, AssignChildSearch
  <2>2. current # None
    BY <1>7 DEF AssignChild, Unassigned, VerdictInv, AnalyzerInv
  <2> QED
    BY <1>1, <1>7, <2>1, <2>2, SearchStep DEF AssignChild
<1>8. ASSUME CloseComponent
      PROVE  VerdictInv'
  <2>1. SearchInv(E)' /\ ComponentInv(E)' /\ AcyclicInv(E)'
    BY <1>1, <1>2, <1>8, CloseComponentSearch
  <2>2. current # None
    BY <1>8 DEF CloseComponent, VerdictInv, AnalyzerInv
  <2> QED
    BY <1>1, <1>8, <2>1, <2>2, SearchStep DEF CloseComponent
<1>9. ASSUME Collect
      PROVE  VerdictInv'
  BY <1>9, CollectVerdict
<1> QED
  BY <1>3, <1>4, <1>5, <1>6, <1>7, <1>8, <1>9 DEF AnalyzerNext

LEMMA VerdictFrame ==
  ASSUME VerdictInv, UNCHANGED analyzerVars
  PROVE  VerdictInv'
<1> USE DEF analyzerVars, searchVars
<1>1. \A p : Edges(p)' = Edges(p)
  BY EdgesFrame
<1>2. Edges(current)' = Edges(current)
  BY <1>1
<1>3. PICK E : E = Edges(current)
  OBVIOUS
<1>4. SearchInv(E)' /\ ComponentInv(E)' /\ AcyclicInv(E)'
  <2>1. SearchInv(E) /\ ComponentInv(E) /\ AcyclicInv(E)
    BY <1>3 DEF VerdictInv, AnalyzerInv
  <2>2. SearchInv(E)'
    BY <2>1 DEF SearchInv, Assigned
  <2>3. ComponentInv(E)' /\ AcyclicInv(E)'
    BY <2>1 DEF ComponentInv, AcyclicInv
  <2> QED
    BY <2>2, <2>3
<1>5. AnalyzerInv'
  <2>1. E = Edges(current)'
    BY <1>2, <1>3
  <2>2. current' = None => visited' = {} /\ stack' = <<>> /\ ordered' = <<>>
                           /\ component' = {} /\ components' = {}
    BY DEF VerdictInv, AnalyzerInv
  <2> QED
    BY <1>4, <2>1, <2>2 DEF AnalyzerInv, SearchInv, ComponentInv, AcyclicInv
<1>6. Checked' = Checked
  BY DEF Checked
<1> QED
  BY <1>1, <1>5, <1>6 DEF VerdictInv

LEMMA VerdictGives ==
  ASSUME VerdictInv
  PROVE  VerdictExact
<1>1. ASSUME Analyzed
      PROVE  Checked = Paths
  BY <1>1 DEF Analyzed, Checked, VerdictInv
<1> QED
  BY <1>1 DEF VerdictExact, VerdictInv, Paths

(***************************************************************************)
(* The types of the cycle check.                                           *)
(***************************************************************************)

DepsOK ==
  /\ \A d \in deps : d.uid \in Nat /\ d.parent \in Keys /\ d.child \in Keys
  /\ \A d \in GroupDependencies(deps) : d.arg \in Args

AnalyzerTypes == DepsOK /\ visited \subseteq Keys /\ cycles \subseteq SUBSET Keys

LEMMA AnalyzerTypesStep ==
  ASSUME VerdictInv, AnalyzerTypes, AnalyzerNext
  PROVE  AnalyzerTypes'
<1>1. deps' = deps
  BY DEF AnalyzerNext, Start, VisitVertex, LeaveVertex, AssignRoot, AssignChild, CloseComponent, Collect
<1>2. DepsOK'
  BY <1>1 DEF AnalyzerTypes, DepsOK
<1>3. ASSUME NEW v \in Keys, VisitVertex(v)
      PROVE  AnalyzerTypes'
  BY <1>2, <1>3 DEF VisitVertex, AnalyzerTypes
<1>4. ASSUME Collect
      PROVE  AnalyzerTypes'
  <2>1. \A c \in components : c \in SUBSET Keys
    BY DEF VerdictInv, AnalyzerInv, SearchInv, AnalyzerTypes
  <2>2. \A e \in Edges(current) : e[1] \in Keys
    BY DEF AnalyzerTypes, DepsOK, Edges
  <2>3. SelfCycles(Edges(current)) \subseteq SUBSET Keys
    BY <2>2 DEF SelfCycles
  <2> QED
    BY <1>2, <1>4, <2>1, <2>3 DEF Collect, AnalyzerTypes
<1>5. CASE UNCHANGED <<visited, cycles>>
  BY <1>2, <1>5 DEF AnalyzerTypes
<1> QED
  BY <1>3, <1>4, <1>5 DEF AnalyzerNext, Start, searchVars, LeaveVertex, AssignRoot, AssignChild,
                          CloseComponent

LEMMA AnalyzerTypesGive ==
  ASSUME VerdictInv, AnalyzerTypes
  PROVE  AnalyzerOK
  BY DEF VerdictInv, AnalyzerInv, SearchInv, AnalyzerTypes, DepsOK, AnalyzerOK, Paths

(***************************************************************************)
(* Reachability and the scope of a flow.                                   *)
(***************************************************************************)

LEMMA ReachHas ==
  ASSUME NEW E, NEW S
  PROVE  S \subseteq Reach(E, S)
  BY DEF Reach

LEMMA ReachClosed ==
  ASSUME NEW E, NEW S, NEW e \in E, e[1] \in Reach(E, S)
  PROVE  e[2] \in Reach(E, S)
<1>1. e[2] \in {x[2] : x \in E}
  OBVIOUS
<1> QED
  BY <1>1 DEF Reach

LEMMA ReachLeast ==
  ASSUME NEW E, NEW S, NEW C, S \subseteq C, \A e \in E : e[1] \in C => e[2] \in C
  PROVE  Reach(E, S) \subseteq C
<1> DEFINE all == S \cup {e[2] : e \in E}
           D == C \cap all
<1>1. D \in SUBSET all /\ S \subseteq D
  OBVIOUS
<1>2. \A e \in E : e[1] \in D => e[2] \in D
  OBVIOUS
<1> QED
  BY <1>1, <1>2 DEF Reach

LEMMA GroupedTypes ==
  ASSUME DepsOK
  PROVE  \A d \in GroupDependencies(deps) :
           d.uid \in Nat /\ d.parent \in Keys /\ d.child \in Keys /\ d.arg \in Args
<1>1. \A d \in Implied(deps) : d.uid = 0 /\ d.parent = Default /\ d.child \in Keys
  <2> DEFINE roots == ({d.parent : d \in deps} \cup Definitions) \ (FlowKeys \cup {d.child : d \in deps})
             dep(k) == [uid |-> 0, parent |-> Default, child |-> k, labels |-> {}, arg |-> ""]
  <2>1. roots \subseteq Keys
    BY FlowsAssumption DEF DepsOK
  <2>2. Implied(deps) \subseteq {dep(k) : k \in roots}
    BY DEF Implied
  <2>3. \A k : dep(k).uid = 0 /\ dep(k).parent = Default /\ dep(k).child = k
    OBVIOUS
  <2> HIDE DEF roots, dep
  <2> QED
    BY <2>1, <2>2, <2>3
<1> QED
  BY <1>1, FlowsAssumption DEF GroupDependencies, DepsOK

\* The loop over the dependencies of a block has a next one as long as some are left.
LEMMA NextIsPending ==
  ASSUME DepsOK, NEW i, Pending(i) # {}
  PROVE  /\ NextDependency(i) \in Pending(i)
         /\ \A e \in Pending(i) : NextDependency(i).uid <= e.uid
<1> DEFINE Uids == {d.uid : d \in Pending(i)}
<1>1. \A d \in Pending(i) : d \in GroupDependencies(deps)
  BY DEF Pending, ChildDependencies
<1>2. Uids \in SUBSET Nat /\ Uids # {}
  BY <1>1, GroupedTypes
<1> HIDE DEF Uids
<1>3. PICK m \in Uids : \A n \in Uids : m <= n
  BY <1>2, LeastNatural
<1>4. PICK d \in Pending(i) : m = d.uid
  BY DEF Uids
<1>5. \A e \in Pending(i) : d.uid <= e.uid
  BY <1>3, <1>4 DEF Uids
<1> QED
  BY <1>5 DEF NextDependency

LEMMA ContextTypes ==
  ASSUME DepsOK, NEW d \in GroupDependencies(deps), NEW v \in Contexts, NEW r \in Replicas
  PROVE  PrepareContext(d, v, r) \in Contexts /\ PrepareContext(d, v, r) # Top
<1>1. <<d.arg, v, r>> \in Args \X Contexts \X Replicas
  BY GroupedTypes
<1> QED
  BY <1>1, ContextsAssumption DEF PrepareContext

\* The use of a dependency that block i stands for
Use(i) == <<blocks[i].dep, blocks[i].parentContext>>

\* What a block leads to is in the scope of the flow, if the block is.
LEMMA ScopeStep ==
  ASSUME NEW i, NEW d \in ChildDependencies(i), NEW r, Context(i) \in Contexts,
         i # 0 => Use(i) \in Scope(pc = "destruct", r) /\ blocks[i].replica = r
  PROVE  <<d, Context(i)>> \in Scope(pc = "destruct", r)
<1>1. PICK b : b = (pc = "destruct")
  OBVIOUS
<1> DEFINE from(u) == <<u[1].parent, u[2]>>
           to(u) == <<u[1].child, PrepareContext(u[1], u[2], r)>>
           arcs == {<<from(u), to(u)>> : u \in Usable(b)}
           reached == Reach(arcs, {<<request.flow, Top>>})
<1>2. /\ d \in GroupDependencies(deps) /\ d.parent = RawKey(i)
      /\ CanDependencyBelongToFlow(d, request.flow, b) /\ ~Skipped(d, i)
  BY <1>1 DEF ChildDependencies
<1>3. Context(i) = Top \/ ~Owned(d, DefinedFlows)
  BY <1>2 DEF Skipped, Owned, RawKey, DefinedFlows, Context
<1>4. PICK u : u = <<d, Context(i)>>
  OBVIOUS
<1>5. u \in Usable(b)
  BY <1>2, <1>3, <1>4 DEF Usable
<1>6. from(u) \in reached
  <2>1. CASE i = 0
    <3>1. from(u) = <<request.flow, Top>>
      BY <1>2, <1>4, <2>1 DEF RawKey, Context
    <3> QED
      BY <3>1, ReachHas
  <2>2. CASE i # 0
    <3>1. PICK w : w = Use(i)
      OBVIOUS
    <3>2. w \in Scope(b, r)
      BY <1>1, <2>2, <3>1
    <3>3. w \in Usable(b) /\ from(w) \in reached
      BY <3>2 DEF Scope
    <3>4. <<from(w), to(w)>> \in arcs
      BY <3>3
    <3>5. to(w) \in reached
      <4> HIDE DEF arcs, from, to
      <4>1. PICK e \in arcs : e = <<from(w), to(w)>>
        BY <3>4
      <4>2. e[1] = from(w) /\ e[2] = to(w)
        BY <4>1
      <4> QED
        BY <3>3, <4>2, ReachClosed
    <3>6. to(w) = from(u)
      BY <1>2, <1>4, <2>2, <3>1 DEF Use, RawKey, Context
    <3> QED
      BY <3>5, <3>6
  <2> QED
    BY <2>1, <2>2
<1>7. u \in Scope(b, r)
  BY <1>5, <1>6 DEF Scope
<1> QED
  BY <1>1, <1>4, <1>7

\* A set that has the flow and is closed under the usable dependencies has all that
\* the scope starts from.
LEMMA ScopeLeast ==
  ASSUME NEW b, NEW r, NEW C, <<request.flow, Top>> \in C,
         \A u \in Usable(b) :
           <<u[1].parent, u[2]>> \in C => <<u[1].child, PrepareContext(u[1], u[2], r)>> \in C,
         NEW u \in Scope(b, r)
  PROVE  u \in Usable(b) /\ <<u[1].parent, u[2]>> \in C
<1> DEFINE from(w) == <<w[1].parent, w[2]>>
           to(w) == <<w[1].child, PrepareContext(w[1], w[2], r)>>
           arcs == {<<from(w), to(w)>> : w \in Usable(b)}
<1>1. \A e \in arcs : e[1] \in C => e[2] \in C
  OBVIOUS
<1>2. u \in Usable(b) /\ from(u) \in Reach(arcs, {<<request.flow, Top>>})
  BY DEF Scope
<1>3. {<<request.flow, Top>>} \subseteq C
  OBVIOUS
<1> HIDE DEF arcs
<1> QED
  BY <1>1, <1>2, <1>3, ReachLeast

LEMMA ScopeTypes ==
  ASSUME NEW b, NEW r, NEW u \in Scope(b, r)
  PROVE  /\ u \in Usable(b) /\ u[1] \in GroupDependencies(deps) /\ u[2] \in Contexts
         /\ u = <<u[1], u[2]>>
  BY DEF Scope, Usable

\* Only the flow itself has the arguments Top.
LEMMA TopIsFlow ==
  ASSUME DepsOK, NEW b, NEW r \in Replicas, NEW u \in Scope(b, r), u[2] = Top
  PROVE  u[1].parent = request.flow
<1>1. PICK C : C = {<<request.flow, Top>>} \cup (Keys \X (Contexts \ {Top}))
  OBVIOUS
<1>2. ASSUME NEW w \in Usable(b)
      PROVE  <<w[1].child, PrepareContext(w[1], w[2], r)>> \in C
  <2>1. w[1] \in GroupDependencies(deps) /\ w[2] \in Contexts
    BY DEF Usable
  <2>2. w[1].child \in Keys
    BY <2>1, GroupedTypes
  <2> QED
    BY <1>1, <2>1, <2>2, ContextTypes
<1>3. <<request.flow, Top>> \in C
  BY <1>1
<1>4. <<u[1].parent, u[2]>> \in C
  BY <1>2, <1>3, ScopeLeast
<1> QED
  BY <1>1, <1>4

(***************************************************************************)
(* Types and stages.                                                       *)
(***************************************************************************)

\* The replicas the fill at hand goes through
FillList ==
  IF pc = "construct" THEN request.construct
  ELSE IF pc = "destruct" THEN request.destruct ELSE request.all

BlockSet ==
  [parent : Nat, dep : GroupDependencies(deps), parentContext : Contexts, replica : Replicas,
   key : {NameOf(u, r) : u \in GroupDependencies(deps) \X Contexts, r \in Replicas}]

ShapeInv ==
  /\ left \in Seq(Replicas) /\ blocks \in Seq(BlockSet) /\ queue \in Seq(0 .. Len(blocks))
  /\ \A i \in 1 .. Len(blocks) : blocks[i].parent \in 0 .. i - 1
  /\ toMerge \subseteq Keys /\ merging \subseteq 1 .. Len(blocks)

\* Blocks are merged between two walks; a replica comes once in the list of a fill.
ControlInv ==
  /\ pc \in Fills \cup {"analyze", "done", "error", "fatal"}
  /\ request \in Requests \cup {None}
  /\ toMerge \cup merging # {} => pc \in Fills /\ left # <<>> /\ queue = <<>>
  /\ pc = "analyze" =>
       blocks = <<>> /\ left = <<>> /\ queue = <<>> /\ graphs = [deploy |-> <<>>, all |-> <<>>]
  /\ pc \in Fills \cup {"done"} => Analyzed /\ cycles = {} /\ request \in Requests
  /\ pc \in Fills => IsInjective(left) /\ Range(left) \subseteq Range(FillList)

StageInv == ShapeInv /\ ControlInv

LEMMA RequestFacts ==
  ASSUME NEW r \in Requests
  PROVE  /\ r.flow \in AnalyzedFlows
         /\ r.construct \in Seq(Replicas) /\ r.destruct \in Seq(Replicas) /\ r.all \in Seq(Replicas)
         /\ IsInjective(r.construct) /\ IsInjective(r.destruct) /\ IsInjective(r.all)
         /\ r.construct = <<>> \/ r.destruct = <<>>
         /\ Range(r.destruct) \subseteq Range(r.all)
  BY RequestsAssumption

LEMMA EmptyFacts ==
  ASSUME NEW S
  PROVE  <<>> \in Seq(S) /\ Len(<<>>) = 0 /\ DOMAIN <<>> = {} /\ Range(<<>>) = {} /\ IsInjective(<<>>)
  BY DEF Range, IsInjective

LEMMA TailInjective ==
  ASSUME NEW S, NEW s \in Seq(S), s # <<>>, IsInjective(s)
  PROVE  IsInjective(Tail(s)) /\ Head(s) \notin Range(Tail(s))
<1>1. /\ Len(s) \in Nat \ {0} /\ Head(s) = s[1]
      /\ Tail(s) \in Seq(S) /\ Len(Tail(s)) = Len(s) - 1
      /\ \A i \in 1 .. Len(s) - 1 : Tail(s)[i] = s[i + 1]
  BY TailFacts
<1>2. DOMAIN s = 1 .. Len(s) /\ DOMAIN Tail(s) = 1 .. Len(s) - 1
  BY <1>1
<1>3. \A i \in 1 .. Len(s) - 1 : i + 1 \in 1 .. Len(s) /\ i + 1 # 1
  BY <1>1
<1>4. \A i, j \in 1 .. Len(s) : s[i] = s[j] => i = j
  BY <1>2 DEF IsInjective
<1>5. \A i, j \in 1 .. Len(s) - 1 : Tail(s)[i] = Tail(s)[j] => i = j
  <2> SUFFICES ASSUME NEW i \in 1 .. Len(s) - 1, NEW j \in 1 .. Len(s) - 1, Tail(s)[i] = Tail(s)[j]
               PROVE  i = j
    OBVIOUS
  <2>1. i + 1 = j + 1
    BY <1>1, <1>3, <1>4
  <2> QED
    BY <1>1, <2>1
<1>6. \A i \in 1 .. Len(s) - 1 : Tail(s)[i] # s[1]
  BY <1>1, <1>3, <1>4
<1> QED
  BY <1>1, <1>2, <1>5, <1>6 DEF IsInjective, Range

LEMMA InitStage ==
  ASSUME Init
  PROVE  StageInv
  BY EmptyFacts DEF Init, StageInv, ShapeInv, ControlInv, Fills

LEMMA BlockContexts ==
  ASSUME StageInv, DepsOK, NEW i \in 0 .. Len(blocks)
  PROVE  Context(i) \in Contexts /\ (i # 0 => Context(i) # Top)
<1>1. CASE i = 0
  BY <1>1, ContextsAssumption DEF Context
<1>2. CASE i # 0
  <2>1. i \in 1 .. Len(blocks)
    BY <1>2 DEF StageInv, ShapeInv
  <2>2. blocks[i] \in BlockSet
    BY <2>1 DEF StageInv, ShapeInv
  <2>3. /\ blocks[i].dep \in GroupDependencies(deps) /\ blocks[i].parentContext \in Contexts
        /\ blocks[i].replica \in Replicas
    BY <2>2 DEF BlockSet
  <2> QED
    BY <1>2, <2>3, ContextTypes DEF Context
<1> QED
  BY <1>1, <1>2

\* A new block that fits
LEMMA NewBlockFits ==
  ASSUME StageInv, DepsOK, Walking, Pending(Head(queue)) # {}
  PROVE  /\ Head(queue) \in 0 .. Len(blocks) /\ Head(left) \in Replicas
         /\ Context(Head(queue)) \in Contexts
         /\ NextDependency(Head(queue)) \in ChildDependencies(Head(queue))
         /\ NewBlock(Head(queue), NextDependency(Head(queue))) \in BlockSet
<1> DEFINE i == Head(queue)
           d == NextDependency(i)
<1>1. i \in 0 .. Len(blocks) /\ Len(blocks) \in Nat
  BY TailFacts DEF StageInv, ShapeInv, ControlInv, Walking
<1>2. Head(left) \in Replicas
  BY TailFacts DEF StageInv, ShapeInv, ControlInv, Walking
<1>3. d \in ChildDependencies(i)
  BY NextIsPending DEF Pending
<1>4. d \in GroupDependencies(deps)
  BY <1>3 DEF ChildDependencies
<1>5. i \in Nat /\ Context(i) \in Contexts
  BY <1>1, BlockContexts
<1>6. <<d, Context(i)>> \in GroupDependencies(deps) \X Contexts
  BY <1>4, <1>5
<1> QED
  BY <1>1, <1>2, <1>3, <1>4, <1>5, <1>6 DEF NewBlock, BlockSet

LEMMA FollowStage ==
  ASSUME StageInv, DepsOK, Follow
  PROVE  StageInv'
<1> DEFINE i == Head(queue)
           d == NextDependency(i)
<1>1. UNCHANGED <<analyzerVars, request, left, toMerge, merging, graphs>>
  BY DEF Follow
<1>2. BlockSet' = BlockSet /\ Analyzed' = Analyzed /\ cycles' = cycles
  BY <1>1 DEF BlockSet, Analyzed, analyzerVars
<1>3. Walking /\ pc \in Fills /\ queue # <<>>
  BY DEF Follow, Walking
<1>4. CASE Refused(d) \/ Undefined(d)
  <2>1. pc' \in {"error", "fatal"} /\ blocks' = blocks /\ queue' = queue
    BY <1>4 DEF Follow
  <2>2. ShapeInv'
    BY <1>1, <1>2, <1>3, <2>1 DEF StageInv, ShapeInv, ControlInv, Fills
  <2>3. ControlInv'
    BY <1>1, <1>2, <1>3, <2>1 DEF StageInv, ShapeInv, ControlInv, Fills
  <2> QED
    BY <2>2, <2>3 DEF StageInv
<1>5. CASE ~(Refused(d) \/ Undefined(d))
  <2>1. pc' = pc /\ blocks' = Append(blocks, NewBlock(i, d)) /\ queue' = Append(queue, Len(blocks) + 1)
    BY <1>5 DEF Follow, Position
  <2>2. /\ i \in 0 .. Len(blocks) /\ NewBlock(i, d) \in BlockSet /\ NewBlock(i, d).parent = i
        /\ blocks \in Seq(BlockSet) /\ Len(blocks) \in Nat /\ queue \in Seq(0 .. Len(blocks))
    <3>1. blocks \in Seq(BlockSet) /\ queue \in Seq(0 .. Len(blocks))
      BY DEF StageInv, ShapeInv
    <3>2. Len(blocks) \in Nat /\ i \in 0 .. Len(blocks)
      BY <1>3, <3>1
    <3>3. NewBlock(i, d) \in BlockSet
      BY <1>3, NewBlockFits DEF Follow
    <3>4. NewBlock(i, d).parent = i
      BY DEF NewBlock
    <3> QED
      BY <3>1, <3>2, <3>3, <3>4
  <2>3. /\ blocks' \in Seq(BlockSet) /\ Len(blocks') = Len(blocks) + 1
        /\ \A j \in 1 .. Len(blocks) : blocks'[j] = blocks[j]
        /\ blocks'[Len(blocks) + 1] = NewBlock(i, d)
    BY <2>1, <2>2
  <2>4. queue' \in Seq(0 .. Len(blocks'))
    <3>1. queue \in Seq(0 .. Len(blocks')) /\ Len(blocks) + 1 \in 0 .. Len(blocks')
      BY <2>2, <2>3, SeqGrows
    <3> QED
      BY <2>1, <3>1
  <2>5. ASSUME NEW j \in 1 .. Len(blocks')
        PROVE  blocks'[j].parent \in 0 .. j - 1
    <3>1. CASE j = Len(blocks) + 1
      BY <2>2, <2>3, <3>1
    <3>2. CASE j # Len(blocks) + 1
      <4>1. j \in 1 .. Len(blocks)
        BY <2>2, <2>3, <3>2
      <4> QED
        BY <2>3, <4>1 DEF StageInv, ShapeInv
    <3> QED
      BY <3>1, <3>2
  <2>6. FillList' = FillList
    BY <1>1, <2>1 DEF FillList
  <2>7. toMerge = {} /\ merging = {}
    BY <1>3 DEF StageInv, ShapeInv, ControlInv
  <2>8. ShapeInv'
    BY <1>1, <1>2, <1>3, <2>1, <2>3, <2>4, <2>5, <2>6, <2>7 DEF StageInv, ShapeInv, ControlInv, Fills
  <2>9. ControlInv'
    BY <1>1, <1>2, <1>3, <2>1, <2>3, <2>4, <2>5, <2>6, <2>7 DEF StageInv, ShapeInv, ControlInv, Fills
  <2> QED
    BY <2>8, <2>9 DEF StageInv
<1> QED
  BY <1>4, <1>5

LEMMA NextBlockStage ==
  ASSUME StageInv, DepsOK, NextBlock
  PROVE  StageInv'
<1>1. UNCHANGED <<analyzerVars, pc, request, left, blocks, merging, graphs>>
  BY DEF NextBlock
<1>2. BlockSet' = BlockSet /\ Analyzed' = Analyzed /\ cycles' = cycles /\ FillList' = FillList
  BY <1>1 DEF BlockSet, Analyzed, analyzerVars, FillList
<1>3. pc \in Fills /\ left # <<>> /\ queue # <<>> /\ merging = {} /\ queue' = Tail(queue)
  BY DEF NextBlock, Walking, StageInv, ShapeInv, ControlInv
<1>4. queue' \in Seq(0 .. Len(blocks))
  BY <1>3 DEF StageInv, ShapeInv, ControlInv
<1>5. toMerge' \subseteq Keys /\ (toMerge' # {} => queue' = <<>>)
  <2>1. \A i \in 1 .. Len(blocks) : blocks[i].dep.child \in Keys
    <3>1. \A i \in 1 .. Len(blocks) : blocks[i] \in BlockSet
      BY DEF StageInv, ShapeInv
    <3> QED
      BY <3>1, GroupedTypes DEF BlockSet
  <2>2. DOMAIN blocks = 1 .. Len(blocks)
    BY DEF StageInv, ShapeInv
  <2> QED
    BY <2>1, <2>2 DEF NextBlock
<1>6. ShapeInv'
  BY <1>1, <1>2, <1>3, <1>4, <1>5 DEF StageInv, ShapeInv, ControlInv
<1>7. ControlInv'
  BY <1>1, <1>2, <1>3, <1>4, <1>5 DEF StageInv, ShapeInv, ControlInv
<1> QED
  BY <1>6, <1>7 DEF StageInv

LEMMA MergeStage ==
  ASSUME StageInv,
         (\E k \in Keys : MergeEntry(k)) \/ (\E i \in merging : Merge(i))
  PROVE  StageInv'
<1>1. UNCHANGED <<analyzerVars, pc, request, left, blocks, queue>>
  BY DEF MergeEntry, Merge
<1>2. BlockSet' = BlockSet /\ Analyzed' = Analyzed /\ cycles' = cycles /\ FillList' = FillList
  BY <1>1 DEF BlockSet, Analyzed, analyzerVars, FillList
<1>3. pc \in Fills /\ left # <<>> /\ queue = <<>>
  BY DEF MergeEntry, Merge, StageInv, ShapeInv, ControlInv
<1>4. toMerge' \subseteq toMerge /\ merging' \subseteq 1 .. Len(blocks)
  <2>1. DOMAIN blocks = 1 .. Len(blocks) /\ merging \subseteq 1 .. Len(blocks)
    BY DEF StageInv, ShapeInv
  <2> QED
    BY <2>1 DEF MergeEntry, Merge
<1>5. pc # "analyze"
  BY <1>3 DEF Fills
<1>6. ShapeInv'
  BY <1>1, <1>2, <1>3, <1>4, <1>5 DEF StageInv, ShapeInv, ControlInv
<1>7. ControlInv'
  BY <1>1, <1>2, <1>3, <1>4, <1>5 DEF StageInv, ShapeInv, ControlInv
<1> QED
  BY <1>6, <1>7 DEF StageInv

LEMMA NextReplicaStage ==
  ASSUME StageInv, NextReplica
  PROVE  StageInv'
<1>1. UNCHANGED <<analyzerVars, pc, request, blocks, toMerge, merging, graphs>>
  BY DEF NextReplica
<1>2. BlockSet' = BlockSet /\ Analyzed' = Analyzed /\ cycles' = cycles /\ FillList' = FillList
  BY <1>1 DEF BlockSet, Analyzed, analyzerVars, FillList
<1>3. /\ pc \in Fills /\ pc # "analyze" /\ left # <<>> /\ toMerge = {} /\ merging = {}
      /\ left' = Tail(left) /\ queue' = <<0>>
  BY DEF NextReplica, Fills
<1>4. left' \in Seq(Replicas) /\ IsInjective(left') /\ Range(left') \subseteq Range(FillList)
  <2>1. left \in Seq(Replicas) /\ IsInjective(left) /\ Range(left) \subseteq Range(FillList)
    BY <1>3 DEF StageInv, ShapeInv, ControlInv
  <2>2. left' \in Seq(Replicas) /\ Range(left') \subseteq Range(left)
    BY <1>3, <2>1, TailFacts
  <2> QED
    BY <1>3, <2>1, <2>2, TailInjective
<1>5. queue' \in Seq(0 .. Len(blocks))
  BY <1>3 DEF StageInv, ShapeInv, ControlInv
<1>6. ShapeInv'
  BY <1>1, <1>2, <1>3, <1>4, <1>5 DEF StageInv, ShapeInv, ControlInv
<1>7. ControlInv'
  BY <1>1, <1>2, <1>3, <1>4, <1>5 DEF StageInv, ShapeInv, ControlInv
<1> QED
  BY <1>6, <1>7 DEF StageInv

LEMMA NextFillStage ==
  ASSUME StageInv, NextFill
  PROVE  StageInv'
<1>1. UNCHANGED <<analyzerVars, request, toMerge, merging, graphs>>
  BY DEF NextFill
<1>2. Analyzed' = Analyzed /\ cycles' = cycles
  BY <1>1 DEF Analyzed, analyzerVars
<1>3. /\ pc \in Fills /\ left = <<>> /\ toMerge = {} /\ merging = {}
      /\ blocks' = <<>> /\ queue' = <<0>> /\ request \in Requests
  BY DEF NextFill, StageInv, ShapeInv, ControlInv
<1>4. /\ pc' \in {"destruct", "survey", "done"}
      /\ pc' \in Fills => left' = FillList'
      /\ pc' = "done" => left' = <<>>
  BY <1>1 DEF NextFill, Fills, FillList
<1>5. pc' \in Fills => left' \in Seq(Replicas) /\ IsInjective(left')
  BY <1>1, <1>3, <1>4, RequestFacts DEF FillList
<1>6. left' \in Seq(Replicas)
  BY <1>4, <1>5, EmptyFacts DEF Fills
<1>7. blocks' \in Seq(BlockSet') /\ DOMAIN blocks' = {} /\ queue' \in Seq(0 .. Len(blocks'))
  BY <1>3
<1>8. ShapeInv'
  BY <1>1, <1>2, <1>3, <1>4, <1>5, <1>6, <1>7 DEF StageInv, ShapeInv, ControlInv, Fills
<1>9. ControlInv'
  BY <1>1, <1>2, <1>3, <1>4, <1>5, <1>6, <1>7 DEF StageInv, ShapeInv, ControlInv, Fills
<1> QED
  BY <1>8, <1>9 DEF StageInv

LEMMA NextStage ==
  ASSUME StageInv, DepsOK, Next
  PROVE  StageInv'
<1>1. CASE Analyze \/ Reject
  <2>1. pc = "analyze" /\ UNCHANGED <<request, left, blocks, queue, toMerge, merging, graphs>>
    BY <1>1 DEF Analyze, Reject, buildVars
  <2>2. blocks' = <<>> /\ toMerge \cup merging = {}
    BY <2>1 DEF StageInv, ShapeInv, ControlInv, Fills
  <2>3. blocks' \in Seq(BlockSet') /\ DOMAIN blocks' = {} /\ Len(blocks') = 0 /\ Len(blocks) = 0
    BY <2>1, <2>2 DEF StageInv, ShapeInv, ControlInv
  <2>4. pc' \in {"analyze", "fatal"}
    BY <1>1 DEF Analyze, Reject, buildVars
  <2>5. ShapeInv'
    BY <2>1, <2>2, <2>3, <2>4 DEF StageInv, ShapeInv, ControlInv, Fills
  <2>6. ControlInv'
    BY <2>1, <2>2, <2>3, <2>4 DEF StageInv, ShapeInv, ControlInv, Fills
  <2> QED
    BY <2>5, <2>6 DEF StageInv
<1>2. ASSUME NEW r \in Requests, Accept(r)
      PROVE  StageInv'
  <2>1. /\ pc = "analyze" /\ pc' = "construct" /\ request' = r /\ left' = r.construct
        /\ queue' = <<0>> /\ Analyzed' /\ cycles' = {}
        /\ UNCHANGED <<blocks, toMerge, merging>>
    BY <1>2 DEF Accept, Analyzed, analyzerVars
  <2>2. blocks' = <<>> /\ toMerge \cup merging = {}
    BY <2>1 DEF StageInv, ShapeInv, ControlInv, Fills
  <2>3. blocks' \in Seq(BlockSet') /\ DOMAIN blocks' = {} /\ queue' \in Seq(0 .. Len(blocks'))
    BY <2>1, <2>2
  <2>4. left' \in Seq(Replicas) /\ IsInjective(left') /\ left' = FillList'
    BY <2>1, RequestFacts DEF FillList
  <2>5. ShapeInv'
    BY <2>1, <2>2, <2>3, <2>4 DEF StageInv, ShapeInv, ControlInv, Fills
  <2>6. ControlInv'
    BY <2>1, <2>2, <2>3, <2>4 DEF StageInv, ShapeInv, ControlInv, Fills
  <2> QED
    BY <2>5, <2>6 DEF StageInv
<1> QED
  BY <1>1, <1>2, FollowStage, NextBlockStage, MergeStage, NextReplicaStage, NextFillStage DEF Next, Fill

LEMMA StageFrame ==
  ASSUME StageInv, UNCHANGED vars
  PROVE  StageInv'
<1> USE DEF vars, analyzerVars, buildVars
<1>1. BlockSet' = BlockSet /\ Analyzed' = Analyzed /\ FillList' = FillList
  BY DEF BlockSet, Analyzed, FillList
<1>2. ShapeInv'
  BY <1>1 DEF StageInv, ShapeInv
<1>3. ControlInv'
  BY <1>1 DEF StageInv, ControlInv
<1> QED
  BY <1>2, <1>3 DEF StageInv

LEMMA StageGives ==
  ASSUME VerdictInv, AnalyzerTypes, StageInv
  PROVE  TypeOK
<1>1. DOMAIN blocks = 1 .. Len(blocks)
  BY DEF StageInv, ShapeInv
<1>2. \A i \in DOMAIN blocks : blocks[i] \in BlockSet /\ blocks[i].parent \in 0 .. i - 1
  BY DEF StageInv, ShapeInv
<1>3. \A i \in DOMAIN blocks :
        /\ blocks[i].dep \in GroupDependencies(deps) /\ blocks[i].replica \in Replicas
        /\ blocks[i].parentContext \in Contexts
  BY <1>2 DEF BlockSet
<1> QED
  BY <1>1, <1>2, <1>3, AnalyzerTypesGive DEF TypeOK, StageInv, ShapeInv, ControlInv

(***************************************************************************)
(* The walk.                                                               *)
(***************************************************************************)

\* Every block comes from a dependency in the scope of the flow, and the walks
\* of different replicas are apart.
BlocksInv ==
  pc \in Fills =>
    \A i \in 1 .. Len(blocks) :
      /\ \A p \in 0 .. i - 1 : p = blocks[i].parent =>
           blocks[i].dep \in ChildDependencies(p) /\ blocks[i].parentContext = Context(p)
      /\ Use(i) \in Scope(pc = "destruct", blocks[i].replica)
      /\ ~Undefined(blocks[i].dep)
      /\ blocks[i].key = NameOf(Use(i), blocks[i].replica)
      /\ blocks[i].replica \in Range(FillList)
      /\ blocks[i].parent # 0 => blocks[blocks[i].parent].replica = blocks[i].replica
      /\ left # <<>> => blocks[i].replica \notin Range(Tail(left))

\* The dependencies of a block are followed as long as it is in the queue, and
\* when a replica is left its walk has been through the whole scope.
WalkInv ==
  pc \in Fills =>
    /\ left # <<>> => \A n \in 1 .. Len(queue) :
                        queue[n] # 0 => blocks[queue[n]].replica = Head(left)
    /\ left # <<>> => \A i \in 0 .. Len(blocks) :
                        (i # 0 => blocks[i].replica = Head(left)) =>
                          i \in Range(queue) \/ Pending(i) = {}
    /\ \A r \in Range(FillList) \ Range(left) : \A u \in Scope(pc = "destruct", r) :
         \E i \in 1 .. Len(blocks) : Use(i) = u /\ blocks[i].replica = r

LEMMA ScopeFrame ==
  ASSUME deps' = deps, request' = request, NEW b, NEW r
  PROVE  Scope(b, r)' = Scope(b, r) /\ Usable(b)' = Usable(b)
<1>1. Usable(b)' = Usable(b)
  BY DEF Usable
<1> QED
  BY <1>1 DEF Scope

\* Blocks are only added: what was said of the old ones stays.
LEMMA BlocksGrow ==
  ASSUME UNCHANGED <<deps, request, pc>>,
         Len(blocks) \in Nat, DOMAIN blocks = 1 .. Len(blocks),
         1 .. Len(blocks) \subseteq DOMAIN blocks',
         \A i \in 1 .. Len(blocks) : blocks'[i] = blocks[i],
         NEW i \in 0 .. Len(blocks)
  PROVE  /\ RawKey(i)' = RawKey(i)
         /\ ChildDependencies(i)' = ChildDependencies(i)
         /\ Context(i)' = Context(i) /\ (i # 0 => Use(i)' = Use(i))
         /\ left' = left => Pending(i)' \subseteq Pending(i)
<1>1. RawKey(i)' = RawKey(i)
  BY DEF RawKey
<1>2. \A d : Skipped(d, i)' = Skipped(d, i)
  BY <1>1 DEF Skipped
<1>3. ChildDependencies(i)' = ChildDependencies(i)
  BY <1>1, <1>2 DEF ChildDependencies
<1>4. left' = left => Pending(i)' \subseteq Pending(i)
  BY <1>3 DEF Pending
<1>5. i # 0 => blocks'[i] = blocks[i]
  OBVIOUS
<1>6. Context(i)' = Context(i)
  BY <1>5 DEF Context, PrepareContext
<1>7. i # 0 => Use(i)' = Use(i)
  BY <1>5 DEF Use
<1> QED
  BY <1>1, <1>3, <1>4, <1>6, <1>7

LEMMA FollowWalk ==
  ASSUME StageInv, DepsOK, BlocksInv, WalkInv, Follow
  PROVE  BlocksInv' /\ WalkInv'
<1> DEFINE i == Head(queue)
           d == NextDependency(i)
<1>1. UNCHANGED <<analyzerVars, request, left, toMerge, merging, graphs>> /\ deps' = deps
  BY DEF Follow, analyzerVars
<1>2. Walking /\ pc \in Fills /\ left # <<>> /\ queue # <<>> /\ Pending(i) # {}
  BY DEF Follow, Walking
<1>3. CASE Refused(d) \/ Undefined(d)
  <2>1. pc' \in {"error", "fatal"}
    BY <1>3 DEF Follow
  <2> QED
    BY <2>1 DEF BlocksInv, WalkInv, Fills
<1>4. CASE ~(Refused(d) \/ Undefined(d))
  <2>1. /\ pc' = pc /\ blocks' = Append(blocks, NewBlock(i, d))
        /\ queue' = Append(queue, Len(blocks) + 1)
    BY <1>4 DEF Follow, Position
  <2>2. /\ i \in 0 .. Len(blocks) /\ d \in ChildDependencies(i) /\ Head(left) \in Replicas
        /\ blocks \in Seq(BlockSet) /\ Len(blocks) \in Nat /\ DOMAIN blocks = 1 .. Len(blocks)
        /\ queue \in Seq(0 .. Len(blocks)) /\ left \in Seq(Replicas)
        /\ IsInjective(left) /\ Range(left) \subseteq Range(FillList)
        /\ \A j \in 1 .. Len(blocks) : blocks[j].parent \in 0 .. j - 1
    BY <1>2, NewBlockFits DEF StageInv, ShapeInv, ControlInv
  <2>3. /\ Len(blocks') = Len(blocks) + 1 /\ DOMAIN blocks' = 1 .. Len(blocks) + 1
        /\ \A j \in 1 .. Len(blocks) : blocks'[j] = blocks[j]
        /\ blocks'[Len(blocks) + 1] = NewBlock(i, d)
    BY <2>1, <2>2
  <2>4. \A j : j \in 1 .. Len(blocks') <=> j \in 1 .. Len(blocks) \/ j = Len(blocks) + 1
    BY <2>2, <2>3
  <2>5. ASSUME NEW j \in 0 .. Len(blocks)
        PROVE  /\ ChildDependencies(j)' = ChildDependencies(j)
               /\ Context(j)' = Context(j) /\ (j # 0 => Use(j)' = Use(j))
               /\ Pending(j)' \subseteq Pending(j)
    <3>1. 1 .. Len(blocks) \subseteq DOMAIN blocks'
      BY <2>2, <2>3
    <3> QED
      BY <1>1, <2>1, <2>2, <2>3, <2>5, <3>1, BlocksGrow
  <2>6. (\A r : Scope(pc = "destruct", r)' = Scope(pc = "destruct", r)) /\ FillList' = FillList
    BY <1>1, <2>1, ScopeFrame DEF FillList
  <2>7. Head(left) \in Range(left) /\ Head(left) \notin Range(Tail(left))
    BY <1>2, <2>2, TailFacts, TailInjective
  <2>8. i # 0 => i \in 1 .. Len(blocks) /\ blocks[i].replica = Head(left)
    <3>1. 1 \in 1 .. Len(queue) /\ i = queue[1]
      BY <1>2, <2>2, TailFacts
    <3> QED
      BY <1>2, <2>2, <3>1 DEF WalkInv
  <2>9. <<d, Context(i)>> \in Scope(pc = "destruct", Head(left))
    <3>1. Context(i) \in Contexts
      BY <2>2, BlockContexts
    <3> QED
      BY <1>2, <2>2, <2>8, <3>1, ScopeStep DEF BlocksInv
  <2>10. /\ NewBlock(i, d).parent = i /\ NewBlock(i, d).dep = d
         /\ NewBlock(i, d).parentContext = Context(i)
         /\ NewBlock(i, d).replica = Head(left)
         /\ NewBlock(i, d).key = NameOf(<<d, Context(i)>>, Head(left))
    BY DEF NewBlock
  <2>11. ASSUME NEW j \in 1 .. Len(blocks')
         PROVE  /\ \A p \in 0 .. j - 1 : p = blocks'[j].parent =>
                     blocks'[j].dep \in ChildDependencies(p)' /\ blocks'[j].parentContext = Context(p)'
                /\ Use(j)' \in Scope(pc = "destruct", blocks[j].replica)'
                /\ ~Undefined(blocks'[j].dep)
                /\ blocks'[j].key = NameOf(Use(j)', blocks'[j].replica)
                /\ blocks'[j].replica \in Range(FillList')
                /\ blocks'[j].parent # 0 => blocks'[blocks'[j].parent].replica = blocks'[j].replica
                /\ blocks'[j].replica \notin Range(Tail(left'))
    <3>1. CASE j \in 1 .. Len(blocks)
      <4>1. blocks[j].parent \in 0 .. j - 1 /\ \A p \in 0 .. j - 1 : p \in 0 .. Len(blocks)
        BY <2>2, <3>1
      <4>2. /\ blocks'[j] = blocks[j] /\ blocks[j].parent \in 0 .. Len(blocks)
            /\ Use(j)' = Use(j)
        BY <2>3, <3>1, <4>1 DEF Use
      <4>3. blocks[j].parent # 0 => blocks[j].parent \in 1 .. Len(blocks)
        BY <2>2, <4>2
      <4>4. ASSUME NEW p \in 0 .. j - 1, p = blocks[j].parent
            PROVE  blocks[j].dep \in ChildDependencies(p)' /\ blocks[j].parentContext = Context(p)'
        <5>1. blocks[j].dep \in ChildDependencies(p) /\ blocks[j].parentContext = Context(p)
          BY <1>2, <3>1, <4>4 DEF BlocksInv
        <5> QED
          BY <2>5, <4>1, <5>1
      <4>5. Use(j) \in Scope(pc = "destruct", blocks[j].replica)
        BY <1>2, <3>1 DEF BlocksInv
      <4>6. Use(j)' \in Scope(pc = "destruct", blocks[j].replica)'
        BY <1>1, <2>1, <4>2, <4>5, ScopeFrame
      <4> QED
        BY <1>1, <1>2, <2>3, <2>6, <3>1, <4>2, <4>3, <4>4, <4>6 DEF BlocksInv
    <3>2. CASE j = Len(blocks) + 1
      <4>1. \A p \in 0 .. j - 1 : p = i => d \in ChildDependencies(p)' /\ Context(i) = Context(p)'
        BY <2>2, <2>5
      <4>2. blocks'[j] = NewBlock(i, d) /\ Use(j)' = <<d, Context(i)>> /\ blocks'[j].replica = Head(left)
        BY <2>3, <2>10, <3>2 DEF Use
      <4>3. Use(j)' \in Scope(pc = "destruct", blocks[j].replica)'
        BY <1>1, <2>1, <2>9, <4>2, ScopeFrame
      <4> QED
        BY <1>1, <1>4, <2>2, <2>3, <2>6, <2>7, <2>8, <2>10, <3>2, <4>1, <4>2, <4>3
    <3> QED
      BY <2>4, <3>1, <3>2
  <2>12. BlocksInv'
    BY <1>1, <2>11 DEF BlocksInv, Undefined, HasDefinition, NameOf, PrepareContext
  <2>13. /\ Len(queue') = Len(queue) + 1 /\ Len(queue) \in Nat
         /\ \A n \in 1 .. Len(queue) : queue'[n] = queue[n] /\ queue[n] \in 0 .. Len(blocks)
         /\ queue'[Len(queue) + 1] = Len(blocks) + 1
         /\ Range(queue') = Range(queue) \cup {Len(blocks) + 1}
    <3>1. \A n \in 1 .. Len(queue) : queue[n] \in 0 .. Len(blocks)
      BY <2>2
    <3>2. /\ Len(queue') = Len(queue) + 1 /\ Len(queue) \in Nat
          /\ DOMAIN queue = 1 .. Len(queue) /\ DOMAIN queue' = 1 .. Len(queue) + 1
          /\ \A n \in 1 .. Len(queue) : queue'[n] = queue[n]
          /\ queue'[Len(queue) + 1] = Len(blocks) + 1
      BY <2>1, <2>2
    <3>3. Range(queue') = Range(queue) \cup {queue'[Len(queue) + 1]}
      BY <3>2, RangeOneMore
    <3> QED
      BY <3>1, <3>2, <3>3
  <2>14. ASSUME NEW n \in 1 .. Len(queue'), queue'[n] # 0
         PROVE  blocks'[queue'[n]].replica = Head(left')
    <3>1. CASE n = Len(queue) + 1
      BY <1>1, <2>3, <2>10, <2>13, <3>1
    <3>2. CASE n # Len(queue) + 1
      <4>1. n \in 1 .. Len(queue)
        BY <2>13, <3>2
      <4>2. queue'[n] = queue[n] /\ queue[n] \in 1 .. Len(blocks)
        BY <2>2, <2>13, <2>14, <4>1
      <4> QED
        BY <1>1, <1>2, <2>3, <2>14, <4>1, <4>2 DEF WalkInv
    <3> QED
      BY <3>1, <3>2
  <2>15. ASSUME NEW j \in 0 .. Len(blocks'), j # 0 => blocks'[j].replica = Head(left')
         PROVE  j \in Range(queue') \/ Pending(j)' = {}
    <3>1. CASE j = Len(blocks) + 1
      BY <2>13, <3>1
    <3>2. CASE j # Len(blocks) + 1
      <4>1. j \in 0 .. Len(blocks) /\ (j # 0 => j \in 1 .. Len(blocks))
        BY <2>2, <2>3, <3>2
      <4>2. j # 0 => blocks[j].replica = Head(left)
        BY <1>1, <2>3, <2>15, <4>1
      <4>3. j \in Range(queue) \/ Pending(j) = {}
        BY <1>2, <4>1, <4>2 DEF WalkInv
      <4> QED
        BY <2>5, <2>13, <4>1, <4>3
    <3> QED
      BY <3>1, <3>2
  <2>16. ASSUME NEW r \in Range(FillList) \ Range(left), NEW u \in Scope(pc = "destruct", r)
         PROVE  \E j \in 1 .. Len(blocks') : Use(j)' = u /\ blocks'[j].replica = r
    <3>1. PICK j \in 1 .. Len(blocks) : Use(j) = u /\ blocks[j].replica = r
      BY <1>2 DEF WalkInv
    <3>2. Use(j)' = Use(j)
      BY <2>3 DEF Use
    <3> QED
      BY <2>3, <2>4, <3>1, <3>2
  <2>17. WalkInv'
    BY <1>1, <2>6, <2>14, <2>15, <2>16 DEF WalkInv
  <2> QED
    BY <2>12, <2>17
<1> QED
  BY <1>3, <1>4

LEMMA WalkFrame ==
  ASSUME BlocksInv, UNCHANGED <<deps, request, pc, blocks, left>>
  PROVE  /\ BlocksInv'
         /\ \A i : Pending(i)' = Pending(i) /\ Use(i)' = Use(i)
         /\ (\A r : Scope(pc = "destruct", r)' = Scope(pc = "destruct", r)) /\ FillList' = FillList
<1>1. (\A r : Scope(pc = "destruct", r)' = Scope(pc = "destruct", r)) /\ FillList' = FillList
  BY ScopeFrame DEF FillList
<1>2. \A i : RawKey(i)' = RawKey(i)
  BY DEF RawKey
<1>3. \A i, d : Skipped(d, i)' = Skipped(d, i)
  BY <1>2 DEF Skipped
<1>4. \A i : ChildDependencies(i)' = ChildDependencies(i)
  BY <1>2, <1>3 DEF ChildDependencies
<1>5. \A i : Pending(i)' = Pending(i)
  BY <1>4 DEF Pending
<1>6. \A i : Use(i)' = Use(i) /\ Context(i)' = Context(i)
  BY DEF Use, Context, PrepareContext
<1>7. BlocksInv'
  <2>1. ASSUME pc \in Fills, NEW i \in 1 .. Len(blocks)
        PROVE  \A p \in 0 .. i - 1 : p = blocks'[i].parent =>
                 blocks'[i].dep \in ChildDependencies(p)' /\ blocks'[i].parentContext = Context(p)'
    BY <1>4, <1>6, <2>1 DEF BlocksInv
  <2>2. ASSUME pc \in Fills, NEW i \in 1 .. Len(blocks)
        PROVE  Use(i)' \in Scope(pc = "destruct", blocks[i].replica)'
    BY <1>1, <1>6, <2>2 DEF BlocksInv
  <2>3. ASSUME pc \in Fills, NEW i \in 1 .. Len(blocks)
        PROVE  /\ ~Undefined(blocks'[i].dep)
               /\ blocks'[i].key = NameOf(Use(i)', blocks'[i].replica)
               /\ blocks'[i].replica \in Range(FillList')
               /\ blocks'[i].parent # 0 => blocks'[blocks'[i].parent].replica = blocks'[i].replica
               /\ left' # <<>> => blocks'[i].replica \notin Range(Tail(left'))
    BY <1>1, <1>6, <2>3 DEF BlocksInv
  <2> QED
    BY <2>1, <2>2, <2>3 DEF BlocksInv
<1> QED
  BY <1>1, <1>5, <1>6, <1>7

LEMMA SameWalk ==
  ASSUME BlocksInv, WalkInv, UNCHANGED <<deps, request, pc, blocks, left, queue>>
  PROVE  BlocksInv' /\ WalkInv'
<1>1. /\ BlocksInv' /\ (\A i : Pending(i)' = Pending(i) /\ Use(i)' = Use(i))
      /\ (\A r : Scope(pc = "destruct", r)' = Scope(pc = "destruct", r)) /\ FillList' = FillList
  BY WalkFrame
<1> QED
  BY <1>1 DEF WalkInv

LEMMA NextBlockWalk ==
  ASSUME StageInv, BlocksInv, WalkInv, NextBlock
  PROVE  BlocksInv' /\ WalkInv'
<1>1. /\ UNCHANGED <<deps, request, pc, blocks, left>> /\ pc \in Fills /\ left # <<>>
      /\ queue # <<>> /\ queue' = Tail(queue) /\ Pending(Head(queue)) = {}
  BY DEF NextBlock, Walking, analyzerVars
<1>2. /\ BlocksInv' /\ (\A i : Pending(i)' = Pending(i) /\ Use(i)' = Use(i))
      /\ (\A r : Scope(pc = "destruct", r)' = Scope(pc = "destruct", r)) /\ FillList' = FillList
  BY <1>1, WalkFrame
<1>3. /\ Len(queue) \in Nat \ {0} /\ Len(queue') = Len(queue) - 1
      /\ \A n \in 1 .. Len(queue) - 1 : queue'[n] = queue[n + 1]
      /\ Range(queue) = Range(queue') \cup {Head(queue)}
  BY <1>1, TailFacts DEF StageInv, ShapeInv
<1>4. ASSUME NEW n \in 1 .. Len(queue'), queue'[n] # 0
      PROVE  blocks'[queue'[n]].replica = Head(left')
  <2>1. n \in 1 .. Len(queue) - 1 /\ n + 1 \in 1 .. Len(queue)
    BY <1>3
  <2> QED
    BY <1>1, <1>3, <1>4, <2>1 DEF WalkInv
<1>5. ASSUME NEW i \in 0 .. Len(blocks'), i # 0 => blocks'[i].replica = Head(left')
      PROVE  i \in Range(queue') \/ Pending(i)' = {}
  <2>1. i \in Range(queue) \/ Pending(i) = {}
    BY <1>1, <1>5 DEF WalkInv
  <2> QED
    BY <1>1, <1>2, <1>3, <2>1
<1>6. WalkInv'
  BY <1>1, <1>2, <1>4, <1>5 DEF WalkInv
<1> QED
  BY <1>2, <1>6

\* When the queue is empty, the walk of a replica has been through the scope.
LEMMA WalkedScope ==
  ASSUME StageInv, DepsOK, BlocksInv, WalkInv, pc \in Fills, left # <<>>, queue = <<>>,
         NEW u \in Scope(pc = "destruct", Head(left))
  PROVE  \E i \in 1 .. Len(blocks) : Use(i) = u /\ blocks[i].replica = Head(left)
<1> DEFINE mine == {i \in 1 .. Len(blocks) : blocks[i].replica = Head(left)}
           C == {<<request.flow, Top>>} \cup {<<blocks[i].dep.child, Context(i)>> : i \in mine}
<1>1. /\ DOMAIN blocks = 1 .. Len(blocks) /\ Len(blocks) \in Nat
      /\ \A i \in 1 .. Len(blocks) : blocks[i].parent \in 0 .. i - 1
  BY DEF StageInv, ShapeInv
<1>2. ASSUME NEW i \in mine \cup {0}, NEW e \in ChildDependencies(i)
      PROVE  \E j \in mine : Use(j) = <<e, Context(i)>>
  <2>1. Range(queue) = {}
    BY EmptyFacts
  <2>2. i \in 0 .. Len(blocks) /\ (i # 0 => blocks[i].replica = Head(left))
    BY <1>1
  <2>3. Pending(i) = {}
    BY <2>1, <2>2 DEF WalkInv
  <2>4. PICK j \in mine : blocks[j].dep = e /\ blocks[j].parent = i
    BY <1>1, <1>2, <2>3 DEF Pending
  <2>5. blocks[j].parentContext = Context(i)
    BY <1>1, <2>4 DEF BlocksInv
  <2> QED
    BY <2>4, <2>5 DEF Use
<1>3. ASSUME NEW w \in Usable(pc = "destruct"), <<w[1].parent, w[2]>> \in C
      PROVE  \E j \in mine : Use(j) = w
  <2>1. /\ w[1] \in GroupDependencies(deps) /\ w = <<w[1], w[2]>>
        /\ CanDependencyBelongToFlow(w[1], request.flow, pc = "destruct")
        /\ w[2] = Top \/ ~Owned(w[1], DefinedFlows)
    BY DEF Usable
  <2>2. CASE w[1].parent = request.flow /\ w[2] = Top
    <3>1. w[1] \in ChildDependencies(0)
      BY <2>1, <2>2 DEF ChildDependencies, RawKey, Skipped
    <3>2. w[2] = Context(0)
      BY <2>2 DEF Context
    <3> QED
      BY <1>2, <2>1, <3>1, <3>2
  <2>3. CASE ~(w[1].parent = request.flow /\ w[2] = Top)
    <3>1. PICK i \in mine : <<w[1].parent, w[2]>> = <<blocks[i].dep.child, Context(i)>>
      BY <1>3, <2>3
    <3>2. w[1].parent = blocks[i].dep.child /\ w[2] = Context(i)
      BY <3>1
    <3>3. i # 0 /\ i \in 0 .. Len(blocks)
      BY <1>1
    <3>4. ~Owned(w[1], DefinedFlows)
      BY <2>1, <3>2, <3>3, BlockContexts
    <3>5. w[1] \in ChildDependencies(i)
      BY <2>1, <3>2, <3>3, <3>4 DEF ChildDependencies, RawKey, Skipped
    <3> QED
      BY <1>2, <2>1, <3>2, <3>5
  <2> QED
    BY <2>2, <2>3
<1>4. ASSUME NEW w \in Usable(pc = "destruct"), <<w[1].parent, w[2]>> \in C
      PROVE  <<w[1].child, PrepareContext(w[1], w[2], Head(left))>> \in C
  <2>1. PICK j \in mine : Use(j) = w
    BY <1>3, <1>4
  <2>2. j # 0 /\ w[1] = blocks[j].dep /\ w[2] = blocks[j].parentContext
    BY <1>1, <2>1 DEF Use
  <2>3. Context(j) = PrepareContext(w[1], w[2], Head(left))
    BY <2>2 DEF Context
  <2> QED
    BY <2>2, <2>3
<1>5. <<request.flow, Top>> \in C
  OBVIOUS
<1>6. PICK b : b = (pc = "destruct")
  OBVIOUS
<1> HIDE DEF C
<1>7. u \in Usable(b) /\ <<u[1].parent, u[2]>> \in C
  BY <1>4, <1>5, <1>6, ScopeLeast
<1> QED
  BY <1>3, <1>6, <1>7

LEMMA NextReplicaWalk ==
  ASSUME StageInv, DepsOK, BlocksInv, WalkInv, NextReplica
  PROVE  BlocksInv' /\ WalkInv'
<1>1. /\ UNCHANGED <<deps, request, pc, blocks>> /\ pc \in Fills /\ left # <<>>
      /\ queue = <<>> /\ left' = Tail(left) /\ queue' = <<0>>
  BY DEF NextReplica, analyzerVars
<1>2. /\ left \in Seq(Replicas) /\ IsInjective(left) /\ Range(left) = Range(left') \cup {Head(left)}
      /\ left' \in Seq(Replicas) /\ IsInjective(left') /\ Head(left) \notin Range(left')
      /\ Range(left) \subseteq Range(FillList)
  <2>1. left \in Seq(Replicas) /\ IsInjective(left) /\ Range(left) \subseteq Range(FillList)
    BY <1>1 DEF StageInv, ShapeInv, ControlInv
  <2> QED
    BY <1>1, <2>1, TailFacts, TailInjective
<1>3. left' # <<>> => Head(left') \in Range(left') /\ Range(Tail(left')) \subseteq Range(left')
  BY <1>2, TailFacts
<1>4. (\A r : Scope(pc = "destruct", r)' = Scope(pc = "destruct", r)) /\ FillList' = FillList
  BY <1>1, ScopeFrame DEF FillList
<1>5. /\ Len(blocks) \in Nat /\ DOMAIN blocks = 1 .. Len(blocks)
      /\ \A i \in 1 .. Len(blocks) : blocks[i].parent \in 0 .. i - 1
  BY DEF StageInv, ShapeInv
<1>6. ASSUME NEW i \in 0 .. Len(blocks)
      PROVE  ChildDependencies(i)' = ChildDependencies(i) /\ Context(i)' = Context(i)
  BY <1>1, <1>5, <1>6, BlocksGrow
<1>7. \A i \in 1 .. Len(blocks) : blocks[i].replica \notin Range(left')
  BY <1>1 DEF BlocksInv
<1>8. BlocksInv'
  <2>1. ASSUME NEW i \in 1 .. Len(blocks), NEW p \in 0 .. i - 1, p = blocks[i].parent
        PROVE  blocks[i].dep \in ChildDependencies(p)' /\ blocks[i].parentContext = Context(p)'
    <3>1. p \in 0 .. Len(blocks)
      BY <1>5
    <3> QED
      BY <1>1, <1>6, <2>1, <3>1 DEF BlocksInv
  <2>2. ASSUME NEW i \in 1 .. Len(blocks)
        PROVE  /\ Use(i)' = Use(i)
               /\ Use(i) \in Scope(pc = "destruct", blocks[i].replica)'
               /\ ~Undefined(blocks[i].dep)
               /\ blocks[i].key = NameOf(Use(i), blocks[i].replica)
               /\ blocks[i].replica \in Range(FillList')
               /\ blocks[i].parent # 0 => blocks[blocks[i].parent].replica = blocks[i].replica
               /\ left' # <<>> => blocks[i].replica \notin Range(Tail(left'))
    <3>1. Use(i) \in Scope(pc = "destruct", blocks[i].replica)
      BY <1>1 DEF BlocksInv
    <3>2. Use(i) \in Scope(pc = "destruct", blocks[i].replica)'
      BY <1>1, <3>1, ScopeFrame
    <3>3. Use(i)' = Use(i)
      BY <1>1 DEF Use
    <3> QED
      BY <1>1, <1>3, <1>4, <1>7, <3>2, <3>3 DEF BlocksInv
  <2> QED
    BY <1>1, <2>1, <2>2 DEF BlocksInv, Undefined, HasDefinition, NameOf, PrepareContext
<1>9. ASSUME left' # <<>>, NEW i \in 0 .. Len(blocks), i # 0 => blocks[i].replica = Head(left')
      PROVE  i \in Range(queue')
  <2>1. i = 0
    BY <1>3, <1>5, <1>7, <1>9
  <2> QED
    BY <1>1, <2>1 DEF Range
<1>10. \A n \in 1 .. Len(queue') : queue'[n] = 0
  BY <1>1
<1>11. ASSUME NEW r \in Range(FillList) \ Range(left'), NEW u \in Scope(pc = "destruct", r)
       PROVE  \E i \in 1 .. Len(blocks) : Use(i)' = u /\ blocks[i].replica = r
  <2>1. r = Head(left) => \E i \in 1 .. Len(blocks) : Use(i) = u /\ blocks[i].replica = r
    BY <1>1, WalkedScope
  <2>2. r # Head(left) => \E i \in 1 .. Len(blocks) : Use(i) = u /\ blocks[i].replica = r
    BY <1>1, <1>2 DEF WalkInv
  <2>3. \A i : Use(i)' = Use(i)
    BY <1>1 DEF Use
  <2>4. \E i \in 1 .. Len(blocks) : Use(i) = u /\ blocks[i].replica = r
    BY <2>1, <2>2
  <2> QED
    BY <2>3, <2>4
<1>12. WalkInv'
  BY <1>1, <1>4, <1>9, <1>10, <1>11 DEF WalkInv
<1> QED
  BY <1>8, <1>12

\* At the start of a fill there are no blocks, and all replicas are left.
LEMMA FreshWalk ==
  ASSUME blocks' = <<>>, queue' = << 0 >>, pc' \in Fills => left' = FillList'
  PROVE  BlocksInv' /\ WalkInv'
<1>1. Len(blocks') = 0 /\ Len(queue') = 1 /\ queue'[1] = 0 /\ 0 \in Range(queue')
  BY DEF Range
<1>2. BlocksInv'
  BY <1>1 DEF BlocksInv
<1>3. WalkInv'
  BY <1>1 DEF WalkInv
<1> QED
  BY <1>2, <1>3

LEMMA NextWalk ==
  ASSUME StageInv, DepsOK, BlocksInv, WalkInv, Next
  PROVE  BlocksInv' /\ WalkInv'
<1>1. CASE Analyze \/ Reject
  <2>1. pc' \notin Fills
    BY <1>1 DEF Analyze, Reject, buildVars, Fills
  <2> QED
    BY <2>1 DEF BlocksInv, WalkInv
<1>2. ASSUME NEW r \in Requests, Accept(r)
      PROVE  BlocksInv' /\ WalkInv'
  <2>1. blocks' = <<>> /\ queue' = <<0>> /\ left' = FillList'
    BY <1>2 DEF Accept, StageInv, ControlInv, FillList
  <2> QED
    BY <2>1, FreshWalk
<1>3. ASSUME NextFill
      PROVE  BlocksInv' /\ WalkInv'
  <2>1. blocks' = <<>> /\ queue' = <<0>> /\ (pc' \in Fills => left' = FillList')
    BY <1>3 DEF NextFill, FillList, Fills
  <2> QED
    BY <2>1, FreshWalk
<1>4. ASSUME (\E k \in Keys : MergeEntry(k)) \/ (\E i \in merging : Merge(i))
      PROVE  BlocksInv' /\ WalkInv'
  BY <1>4, SameWalk DEF MergeEntry, Merge, analyzerVars
<1> QED
  BY <1>1, <1>2, <1>3, <1>4, FollowWalk, NextBlockWalk, NextReplicaWalk DEF Next, Fill

(***************************************************************************)
(* The merge.                                                              *)
(***************************************************************************)

LEMMA ResourceFields ==
  ASSUME NEW i
  PROVE  /\ Resource(i).block = i
         /\ Resource(i).requires =
              IF blocks[i].parent = 0 THEN {} ELSE {blocks[blocks[i].parent].key}
         /\ Resource(i).requiredBy = {blocks[j].key : j \in Dependents(i)}
         /\ Resource(i).usedIn = {blocks[i].replica}
         /\ Resource(i).existing = ~HasDefinition(blocks[i].dep.child)
         /\ Resource(i).meta = MetaOf(i)
  BY DEF Resource

LEMMA MetaOfFacts ==
  ASSUME NEW i
  PROVE  /\ blocks[i].parent = 0 => DOMAIN MetaOf(i) = {}
         /\ blocks[i].parent # 0 =>
              /\ DOMAIN MetaOf(i) = {blocks[i].dep.parent}
              /\ MetaOf(i)[blocks[i].dep.parent] = blocks[i].dep.uid
<1>1. CASE blocks[i].parent = 0
  <2>1. MetaOf(i) = <<>>
    BY <1>1 DEF MetaOf
  <2> QED
    BY <1>1, <2>1, EmptyFacts
<1>2. CASE blocks[i].parent # 0
  <2>1. MetaOf(i) = [p \in {blocks[i].dep.parent} |-> blocks[i].dep.uid]
    BY <1>2 DEF MetaOf
  <2> QED
    BY <1>2, <2>1
<1> QED
  BY <1>1, <1>2

LEMMA MergedFields ==
  ASSUME NEW old, NEW new
  PROVE  /\ Merged(old, new).block = old.block
         /\ Merged(old, new).requires = old.requires \cup new.requires
         /\ Merged(old, new).requiredBy = old.requiredBy \cup new.requiredBy
         /\ Merged(old, new).usedIn = old.usedIn \cup new.usedIn
         /\ Merged(old, new).existing = old.existing
         /\ Merged(old, new).meta = Overlay(new.meta, old.meta)
  BY DEF Merged

\* A graph that says at least as much as another
Extends(g, h) ==
  \A k \in DOMAIN g :
    /\ k \in DOMAIN h
    /\ h[k].block = g[k].block /\ h[k].existing = g[k].existing
    /\ g[k].requires \subseteq h[k].requires /\ g[k].requiredBy \subseteq h[k].requiredBy
    /\ g[k].usedIn \subseteq h[k].usedIn
    /\ DOMAIN g[k].meta \subseteq DOMAIN h[k].meta

\* The graph h is g with one more block, i, merged: node is the resource of the
\* block, and key is its name.
OneMore(g, h, i, key, node) ==
  /\ DOMAIN h = DOMAIN g \cup {key}
  /\ \A k \in DOMAIN g : k # key => h[k] = g[k]
  /\ Extends(g, h)
  /\ key \notin DOMAIN g => h[key] = node
  /\ key \in DOMAIN g /\ g[key].block = i => h = g
  /\ key \in DOMAIN g /\ g[key].block # i =>
       /\ h[key].requires = g[key].requires \cup node.requires
       /\ h[key].requiredBy = g[key].requiredBy \cup node.requiredBy
       /\ h[key].usedIn = g[key].usedIn \cup node.usedIn
       /\ h[key].meta = Overlay(node.meta, g[key].meta)

LEMMA MergeBlockFacts ==
  ASSUME NEW g, NEW i
  PROVE  OneMore(g, MergeBlock(g, i), i, blocks[i].key, Resource(i))
<1>1. PICK key : key = blocks[i].key
  OBVIOUS
<1>2. PICK h : h = MergeBlock(g, i)
  OBVIOUS
<1>3. PICK node : node = Resource(i)
  OBVIOUS
<1>4. CASE key \notin DOMAIN g
  <2>1. h = Overlay([k \in {key} |-> node], g)
    BY <1>1, <1>2, <1>3, <1>4 DEF MergeBlock
  <2>2. /\ DOMAIN h = DOMAIN g \cup {key} /\ h[key] = node
        /\ \A k \in DOMAIN g : h[k] = g[k]
    BY <1>4, <2>1 DEF Overlay
  <2>3. OneMore(g, h, i, key, node)
    BY <1>4, <2>2 DEF Extends, OneMore
  <2> QED
    BY <1>1, <1>2, <1>3, <2>3
<1>5. CASE key \in DOMAIN g /\ g[key].block = i
  <2>1. h = g
    BY <1>1, <1>2, <1>5 DEF MergeBlock
  <2>2. OneMore(g, h, i, key, node)
    BY <1>5, <2>1 DEF Extends, OneMore
  <2> QED
    BY <1>1, <1>2, <1>3, <2>2
<1>6. CASE key \in DOMAIN g /\ g[key].block # i
  <2>1. h = [g EXCEPT ![key] = Merged(@, node)]
    BY <1>1, <1>2, <1>3, <1>6 DEF MergeBlock
  <2>2. /\ DOMAIN h = DOMAIN g /\ h[key] = Merged(g[key], node)
        /\ \A k \in DOMAIN g : k # key => h[k] = g[k]
    BY <1>6, <2>1
  <2>3. /\ h[key].block = g[key].block /\ h[key].existing = g[key].existing
        /\ h[key].requires = g[key].requires \cup node.requires
        /\ h[key].requiredBy = g[key].requiredBy \cup node.requiredBy
        /\ h[key].usedIn = g[key].usedIn \cup node.usedIn
        /\ h[key].meta = Overlay(node.meta, g[key].meta)
    BY <1>6, <2>2, MergedFields
  <2>4. DOMAIN g[key].meta \subseteq DOMAIN h[key].meta
    BY <2>3 DEF Overlay
  <2>5. OneMore(g, h, i, key, node)
    BY <1>6, <2>2, <2>3, <2>4 DEF Extends, OneMore
  <2> QED
    BY <1>1, <1>2, <1>3, <2>5
<1> QED
  BY <1>4, <1>5, <1>6

\* The graph g has what block i says.
Known(g, i) ==
  /\ blocks[i].key \in DOMAIN g
  /\ blocks[i].replica \in g[blocks[i].key].usedIn
  /\ blocks[i].parent # 0 =>
       /\ blocks[blocks[i].parent].key \in g[blocks[i].key].requires
       /\ blocks[i].dep.parent \in DOMAIN g[blocks[i].key].meta
  /\ \A j \in 1 .. Len(blocks) :
       blocks[j].parent = i => blocks[j].key \in g[blocks[i].key].requiredBy

\* Block i says that k has the metadata m under the parent p.
GivesMeta(i, k, p, m) ==
  blocks[i].key = k /\ blocks[i].parent # 0 /\ blocks[i].dep.parent = p /\ blocks[i].dep.uid = m

\* What g says of k comes from a block.
Sound(g, k) ==
  /\ \A r \in g[k].usedIn : \E i \in 1 .. Len(blocks) : blocks[i].key = k /\ blocks[i].replica = r
  /\ \A p \in g[k].requires : \E i \in 1 .. Len(blocks) :
       blocks[i].key = k /\ blocks[i].parent # 0 /\ blocks[blocks[i].parent].key = p
  /\ \A c \in g[k].requiredBy : \E j \in 1 .. Len(blocks) :
       blocks[j].key = c /\ blocks[j].parent # 0 /\ blocks[blocks[j].parent].key = k
  /\ \A p \in DOMAIN g[k].meta : \E i \in 1 .. Len(blocks) : GivesMeta(i, k, p, g[k].meta[p])
  /\ \E i \in 1 .. Len(blocks) :
       /\ i = g[k].block /\ blocks[i].key = k
       /\ g[k].existing = ~HasDefinition(blocks[i].dep.child)
       /\ Known(g, i)
       /\ left # <<>> /\ queue # <<>> => blocks[i].replica # Head(left)

\* The blocks that have been merged: those of earlier replicas all the time, and
\* during the merge those whose key has had its turn.
HasBeenMerged(i) ==
  \/ left = <<>>
  \/ blocks[i].replica # Head(left)
  \/ queue = <<>> /\ blocks[i].dep.child \notin toMerge /\ i \notin merging

\* The graph that is filled holds what the blocks that have been merged say, and
\* no more. The graphs that are to be filled are empty.
GraphInv ==
  pc \in Fills /\ FillList # <<>> =>
    \A g \in {graphs[Target]} :
      /\ \A i \in 1 .. Len(blocks) : HasBeenMerged(i) => Known(g, i)
      /\ \A k \in DOMAIN g : Sound(g, k)

LEMMA KnownExtends ==
  ASSUME NEW g, NEW h, NEW i, Known(g, i), Extends(g, h)
  PROVE  Known(h, i)
  BY DEF Known, Extends

LEMMA MergedIsKnown ==
  ASSUME NEW g, NEW i \in 1 .. Len(blocks), \A k \in DOMAIN g : Sound(g, k),
         DOMAIN blocks = 1 .. Len(blocks), NEW h, h = MergeBlock(g, i)
  PROVE  Known(h, i)
<1>1. PICK key : key = blocks[i].key
  OBVIOUS
<1>2. PICK node : node = Resource(i)
  OBVIOUS
<1>3. OneMore(g, h, i, key, node)
  BY <1>1, <1>2, MergeBlockFacts
<1>4. /\ DOMAIN h = DOMAIN g \cup {key}
      /\ key \notin DOMAIN g => h[key] = node
      /\ key \in DOMAIN g /\ g[key].block = i => h = g
      /\ key \in DOMAIN g /\ g[key].block # i =>
           /\ h[key].requires = g[key].requires \cup node.requires
           /\ h[key].requiredBy = g[key].requiredBy \cup node.requiredBy
           /\ h[key].usedIn = g[key].usedIn \cup node.usedIn
           /\ h[key].meta = Overlay(node.meta, g[key].meta)
  BY <1>3 DEF OneMore
<1>5. /\ blocks[i].replica \in node.usedIn
      /\ blocks[i].parent # 0 =>
           blocks[blocks[i].parent].key \in node.requires /\ blocks[i].dep.parent \in DOMAIN node.meta
      /\ \A j \in 1 .. Len(blocks) : blocks[j].parent = i => blocks[j].key \in node.requiredBy
  <2>1. /\ node.usedIn = {blocks[i].replica}
        /\ node.requires = IF blocks[i].parent = 0 THEN {} ELSE {blocks[blocks[i].parent].key}
        /\ node.requiredBy = {blocks[j].key : j \in Dependents(i)}
        /\ node.meta = MetaOf(i)
    BY <1>2, ResourceFields
  <2> QED
    BY <2>1, MetaOfFacts DEF Dependents
<1>6. CASE key \in DOMAIN g /\ g[key].block = i
  BY <1>4, <1>6 DEF Sound
<1>7. CASE key \notin DOMAIN g
  BY <1>1, <1>4, <1>5, <1>7 DEF Known
<1>8. CASE key \in DOMAIN g /\ g[key].block # i
  <2>1. DOMAIN node.meta \subseteq DOMAIN h[key].meta
    BY <1>4, <1>8 DEF Overlay
  <2> QED
    BY <1>1, <1>4, <1>5, <1>8, <2>1 DEF Known
<1> QED
  BY <1>6, <1>7, <1>8

LEMMA MergedIsSound ==
  ASSUME NEW g, NEW i \in 1 .. Len(blocks), \A k \in DOMAIN g : Sound(g, k),
         DOMAIN blocks = 1 .. Len(blocks), queue = <<>>,
         NEW h, h = MergeBlock(g, i), NEW k \in DOMAIN h
  PROVE  Sound(h, k)
<1>1. PICK key : key = blocks[i].key
  OBVIOUS
<1>2. PICK node : node = Resource(i)
  OBVIOUS
<1>3. OneMore(g, h, i, key, node)
  BY <1>1, <1>2, MergeBlockFacts
<1>4. /\ DOMAIN h = DOMAIN g \cup {key}
      /\ \A c \in DOMAIN g : c # key => h[c] = g[c]
      /\ Extends(g, h)
      /\ key \notin DOMAIN g => h[key] = node
      /\ key \in DOMAIN g /\ g[key].block = i => h = g
      /\ key \in DOMAIN g /\ g[key].block # i =>
           /\ h[key].requires = g[key].requires \cup node.requires
           /\ h[key].requiredBy = g[key].requiredBy \cup node.requiredBy
           /\ h[key].usedIn = g[key].usedIn \cup node.usedIn
           /\ h[key].meta = Overlay(node.meta, g[key].meta)
  BY <1>3 DEF OneMore
<1>5. /\ node.usedIn = {blocks[i].replica} /\ node.block = i
      /\ node.requires = IF blocks[i].parent = 0 THEN {} ELSE {blocks[blocks[i].parent].key}
      /\ node.requiredBy = {blocks[j].key : j \in Dependents(i)}
      /\ node.meta = MetaOf(i)
      /\ node.existing = ~HasDefinition(blocks[i].dep.child)
  BY <1>2, ResourceFields
<1>6. ASSUME NEW c \in node.requiredBy
      PROVE  \E j \in 1 .. Len(blocks) :
               blocks[j].key = c /\ blocks[j].parent # 0 /\ blocks[blocks[j].parent].key = key
  <2>1. PICK j \in Dependents(i) : c = blocks[j].key
    BY <1>5, <1>6
  <2>2. j \in 1 .. Len(blocks) /\ blocks[j].parent = i /\ i # 0
    BY DEF Dependents
  <2> QED
    BY <1>1, <2>1, <2>2
<1>7. ASSUME NEW r \in h[k].usedIn
      PROVE  \E j \in 1 .. Len(blocks) : blocks[j].key = k /\ blocks[j].replica = r
  <2>1. CASE k \in DOMAIN g /\ r \in g[k].usedIn
    BY <2>1 DEF Sound
  <2>2. CASE ~(k \in DOMAIN g /\ r \in g[k].usedIn)
    <3>1. k = key /\ r = blocks[i].replica
      BY <1>4, <1>5, <1>7, <2>2
    <3> QED
      BY <1>1, <3>1
  <2> QED
    BY <2>1, <2>2
<1>8. ASSUME NEW p \in h[k].requires
      PROVE  \E j \in 1 .. Len(blocks) :
               blocks[j].key = k /\ blocks[j].parent # 0 /\ blocks[blocks[j].parent].key = p
  <2>1. CASE k \in DOMAIN g /\ p \in g[k].requires
    BY <2>1 DEF Sound
  <2>2. CASE ~(k \in DOMAIN g /\ p \in g[k].requires)
    <3>1. k = key /\ p \in node.requires
      BY <1>4, <1>8, <2>2
    <3> QED
      BY <1>1, <1>5, <3>1
  <2> QED
    BY <2>1, <2>2
<1>9. ASSUME NEW c \in h[k].requiredBy
      PROVE  \E j \in 1 .. Len(blocks) :
               blocks[j].key = c /\ blocks[j].parent # 0 /\ blocks[blocks[j].parent].key = k
  <2>1. CASE k \in DOMAIN g /\ c \in g[k].requiredBy
    BY <2>1 DEF Sound
  <2>2. CASE ~(k \in DOMAIN g /\ c \in g[k].requiredBy)
    <3>1. k = key /\ c \in node.requiredBy
      BY <1>4, <1>9, <2>2
    <3> QED
      BY <1>6, <3>1
  <2> QED
    BY <2>1, <2>2
<1>10. \E j \in 1 .. Len(blocks) :
         /\ j = h[k].block /\ blocks[j].key = k
         /\ h[k].existing = ~HasDefinition(blocks[j].dep.child)
         /\ Known(h, j)
  <2>1. CASE k \in DOMAIN g
    <3>1. PICK j \in 1 .. Len(blocks) :
            /\ j = g[k].block /\ blocks[j].key = k
            /\ g[k].existing = ~HasDefinition(blocks[j].dep.child)
            /\ Known(g, j)
      BY <2>1 DEF Sound
    <3>2. Known(h, j)
      BY <1>4, <3>1, KnownExtends
    <3> QED
      BY <1>4, <2>1, <3>1, <3>2 DEF Extends
  <2>2. CASE k \notin DOMAIN g
    <3>1. k = key /\ h[k] = node
      BY <1>4, <2>2
    <3>2. Known(h, i)
      BY MergedIsKnown
    <3> QED
      BY <1>1, <1>5, <3>1, <3>2
  <2> QED
    BY <2>1, <2>2
<1>11. ASSUME NEW p \in DOMAIN node.meta
       PROVE  GivesMeta(i, key, p, node.meta[p])
  <2>m. node.meta = MetaOf(i) /\ p \in DOMAIN MetaOf(i)
    BY <1>5, <1>11
  <2>1. blocks[i].parent # 0
    BY ONLY <2>m, MetaOfFacts
  <2>d. DOMAIN MetaOf(i) = {blocks[i].dep.parent} /\ MetaOf(i)[blocks[i].dep.parent] = blocks[i].dep.uid
    BY ONLY <2>1, MetaOfFacts
  <2>2. p = blocks[i].dep.parent /\ node.meta[p] = blocks[i].dep.uid
    BY ONLY <2>m, <2>d
  <2> QED
    BY <1>1, <2>1, <2>2 DEF GivesMeta
<1>12. ASSUME NEW p \in DOMAIN h[k].meta
       PROVE  \E j \in 1 .. Len(blocks) : GivesMeta(j, k, p, h[k].meta[p])
  <2>1. CASE k \in DOMAIN g /\ p \in DOMAIN g[k].meta /\ h[k].meta[p] = g[k].meta[p]
    <3>1. PICK j \in 1 .. Len(blocks) : GivesMeta(j, k, p, g[k].meta[p])
      BY <2>1 DEF Sound
    <3> QED
      BY <2>1, <3>1
  <2>2. CASE k = key /\ p \in DOMAIN node.meta /\ h[k].meta[p] = node.meta[p]
    BY <1>11, <2>2
  <2>3. CASE k = key /\ key \in DOMAIN g /\ g[key].block # i
    <3>1. h[key].meta = Overlay(node.meta, g[key].meta)
      BY <1>4, <2>3
    <3>2. /\ p \in DOMAIN node.meta \cup DOMAIN g[key].meta
          /\ h[key].meta[p] = IF p \in DOMAIN node.meta THEN node.meta[p] ELSE g[key].meta[p]
      BY <1>12, <2>3, <3>1 DEF Overlay
    <3> QED
      BY <2>1, <2>2, <2>3, <3>2
  <2>4. CASE k \in DOMAIN g /\ h[k] = g[k]
    BY <1>12, <2>1, <2>4
  <2>5. CASE k = key /\ h[k] = node
    BY <1>12, <2>2, <2>5
  <2> QED
    BY <1>4, <2>3, <2>4, <2>5
<1> QED
  BY <1>4, <1>7, <1>8, <1>9, <1>10, <1>12 DEF Sound

\* A graph is empty until a fill with replicas to go through gets to it.
FreshInv ==
  /\ DOMAIN graphs = {"deploy", "all"}
  /\ pc \in {"construct", "destruct"} => DOMAIN graphs.all = {}
  /\ pc = "construct" /\ request.construct = <<>> => DOMAIN graphs.deploy = {}

\* What is known of a graph is not touched by the rest of the state.
LEMMA KnownFrame ==
  ASSUME UNCHANGED blocks, NEW g, NEW i
  PROVE  Known(g, i)' = Known(g, i)
  BY DEF Known

\* ... and what it says stays sound, as long as the walk of a replica that has
\* been merged does not begin again.
LEMMA SoundFrame ==
  ASSUME UNCHANGED blocks, NEW g, NEW k, Sound(g, k),
         \A i \in 1 .. Len(blocks) :
           (left # <<>> /\ queue # <<>> => blocks[i].replica # Head(left)) =>
             (left' # <<>> /\ queue' # <<>> => blocks[i].replica # Head(left'))
  PROVE  Sound(g, k)'
<1>1. \A i : Known(g, i)' = Known(g, i)
  BY KnownFrame
<1>2. \A i, c, p, m : GivesMeta(i, c, p, m)' = GivesMeta(i, c, p, m)
  BY DEF GivesMeta
<1> QED
  BY <1>1, <1>2 DEF Sound

LEMMA FollowGraph ==
  ASSUME StageInv, DepsOK, BlocksInv, WalkInv, GraphInv, Follow
  PROVE  GraphInv'
<1> DEFINE i == Head(queue)
           d == NextDependency(i)
<1>1. UNCHANGED <<request, left, toMerge, merging, graphs>>
  BY DEF Follow
<1>2. Walking /\ pc \in Fills /\ left # <<>> /\ queue # <<>> /\ Pending(i) # {}
  BY DEF Follow, Walking
<1>3. CASE Refused(d) \/ Undefined(d)
  <2>1. pc' \in {"error", "fatal"}
    BY <1>3 DEF Follow
  <2> QED
    BY <2>1 DEF GraphInv, Fills
<1>4. CASE ~(Refused(d) \/ Undefined(d))
  <2>1. /\ pc' = pc /\ blocks' = Append(blocks, NewBlock(i, d))
        /\ queue' = Append(queue, Len(blocks) + 1)
    BY <1>4 DEF Follow, Position
  <2>2. /\ i \in 0 .. Len(blocks) /\ blocks \in Seq(BlockSet) /\ Len(blocks) \in Nat
        /\ queue \in Seq(0 .. Len(blocks))
        /\ \A j \in 1 .. Len(blocks) : blocks[j].parent \in 0 .. j - 1
    BY <1>2, NewBlockFits DEF StageInv, ShapeInv
  <2>3. /\ Len(blocks') = Len(blocks) + 1
        /\ \A j \in 1 .. Len(blocks) : blocks'[j] = blocks[j]
        /\ blocks'[Len(blocks) + 1] = NewBlock(i, d)
        /\ queue' # <<>>
    BY <2>1, <2>2
  <2>4. NewBlock(i, d).parent = i /\ NewBlock(i, d).replica = Head(left)
    BY DEF NewBlock
  <2>5. \A j : j \in 1 .. Len(blocks') <=> j \in 1 .. Len(blocks) \/ j = Len(blocks) + 1
    BY <2>2, <2>3
  <2>6. i # 0 => blocks[i].replica = Head(left)
    <3>1. 1 \in 1 .. Len(queue) /\ i = queue[1]
      BY <1>2, <2>2, TailFacts
    <3> QED
      BY <1>2, <3>1 DEF WalkInv
  <2>7. \A j \in 1 .. Len(blocks) : blocks[j].parent # 0 => blocks[j].parent \in 1 .. Len(blocks)
    BY <2>2
  <2>8. ASSUME NEW g, NEW j \in 1 .. Len(blocks), blocks[j].replica # Head(left), Known(g, j)
        PROVE  Known(g, j)'
    <3>1. blocks'[j] = blocks[j]
      BY <2>3
    <3>2. blocks[j].parent # 0 => blocks'[blocks[j].parent] = blocks[blocks[j].parent]
      BY <2>3, <2>7
    <3>3. \A m \in 1 .. Len(blocks') : blocks'[m].parent = j => m \in 1 .. Len(blocks)
      BY <2>2, <2>3, <2>4, <2>5, <2>6, <2>8
    <3> QED
      BY <2>3, <2>8, <3>1, <3>2, <3>3 DEF Known
  <2>9. ASSUME NEW g, NEW k, Sound(g, k)
        PROVE  Sound(g, k)'
    <3>1. ASSUME NEW p
          PROVE  (\E j \in 1 .. Len(blocks) :
                    blocks[j].key = k /\ blocks[j].parent # 0 /\ blocks[blocks[j].parent].key = p) =>
                 (\E j \in 1 .. Len(blocks') :
                    blocks'[j].key = k /\ blocks'[j].parent # 0 /\ blocks'[blocks'[j].parent].key = p)
      BY <2>3, <2>5, <2>7
    <3>2. ASSUME NEW c
          PROVE  (\E j \in 1 .. Len(blocks) :
                    blocks[j].key = c /\ blocks[j].parent # 0 /\ blocks[blocks[j].parent].key = k) =>
                 (\E j \in 1 .. Len(blocks') :
                    blocks'[j].key = c /\ blocks'[j].parent # 0 /\ blocks'[blocks'[j].parent].key = k)
      BY <2>3, <2>5, <2>7
    <3>3. ASSUME NEW r
          PROVE  (\E j \in 1 .. Len(blocks) : blocks[j].key = k /\ blocks[j].replica = r) =>
                 (\E j \in 1 .. Len(blocks') : blocks'[j].key = k /\ blocks'[j].replica = r)
      BY <2>3, <2>5
    <3>4. PICK j \in 1 .. Len(blocks) :
            /\ j = g[k].block /\ blocks[j].key = k
            /\ g[k].existing = ~HasDefinition(blocks[j].dep.child)
            /\ Known(g, j) /\ blocks[j].replica # Head(left)
      BY <1>2, <2>9 DEF Sound
    <3>5. Known(g, j)' /\ j \in 1 .. Len(blocks') /\ blocks'[j] = blocks[j]
      BY <2>3, <2>5, <2>8, <3>4
    <3>6. \A r \in g[k].usedIn :
            \E m \in 1 .. Len(blocks') : blocks'[m].key = k /\ blocks'[m].replica = r
      BY <2>9, <3>3 DEF Sound
    <3>7. \A p \in g[k].requires : \E m \in 1 .. Len(blocks') :
            blocks'[m].key = k /\ blocks'[m].parent # 0 /\ blocks'[blocks'[m].parent].key = p
      BY <2>9, <3>1 DEF Sound
    <3>8. \A c \in g[k].requiredBy : \E m \in 1 .. Len(blocks') :
            blocks'[m].key = c /\ blocks'[m].parent # 0 /\ blocks'[blocks'[m].parent].key = k
      BY <2>9, <3>2 DEF Sound
    <3>9. \E m \in 1 .. Len(blocks') :
            /\ m = g[k].block /\ blocks'[m].key = k
            /\ g[k].existing = ~HasDefinition(blocks'[m].dep.child)
            /\ Known(g, m)'
            /\ left' # <<>> /\ queue' # <<>> => blocks'[m].replica # Head(left')
      BY <1>1, <3>4, <3>5 DEF HasDefinition
    <3>10. \A p \in DOMAIN g[k].meta : \E m \in 1 .. Len(blocks') : GivesMeta(m, k, p, g[k].meta[p])'
      <4>1. ASSUME NEW p \in DOMAIN g[k].meta
            PROVE  \E m \in 1 .. Len(blocks') : GivesMeta(m, k, p, g[k].meta[p])'
        <5>1. PICK m \in 1 .. Len(blocks) : GivesMeta(m, k, p, g[k].meta[p])
          BY <2>9 DEF Sound
        <5>2. m \in 1 .. Len(blocks') /\ blocks'[m] = blocks[m]
          BY <2>3, <2>5
        <5> QED
          BY <5>1, <5>2 DEF GivesMeta
      <4> QED
        BY <4>1
    <3> QED
      BY <3>6, <3>7, <3>8, <3>9, <3>10 DEF Sound, HasDefinition
  <2>10. Target' = Target /\ FillList' = FillList
    BY <1>1, <2>1 DEF Target, FillList
  <2>11. ASSUME NEW j \in 1 .. Len(blocks'), HasBeenMerged(j)'
         PROVE  j \in 1 .. Len(blocks) /\ blocks[j].replica # Head(left)
    BY <1>1, <1>2, <2>3, <2>4, <2>5, <2>11 DEF HasBeenMerged
  <2>12. \A j \in 1 .. Len(blocks) : blocks[j].replica # Head(left) => HasBeenMerged(j)
    BY DEF HasBeenMerged
  <2> QED
    BY <1>1, <1>2, <2>1, <2>8, <2>9, <2>10, <2>11, <2>12 DEF GraphInv
<1> QED
  BY <1>3, <1>4

LEMMA NextBlockGraph ==
  ASSUME StageInv, GraphInv, NextBlock
  PROVE  GraphInv'
<1>1. /\ UNCHANGED <<pc, request, left, blocks, merging, graphs>>
      /\ pc \in Fills /\ left # <<>> /\ queue # <<>>
      /\ toMerge' = IF queue' = <<>> THEN {blocks[i].dep.child : i \in DOMAIN blocks} ELSE {}
  BY DEF NextBlock, Walking
<1>2. Target' = Target /\ FillList' = FillList /\ DOMAIN blocks = 1 .. Len(blocks)
  BY <1>1 DEF Target, FillList, StageInv, ShapeInv
<1>3. ASSUME NEW i \in 1 .. Len(blocks), HasBeenMerged(i)'
      PROVE  HasBeenMerged(i)
  BY <1>1, <1>2, <1>3 DEF HasBeenMerged
<1>4. \A g, i : Known(g, i)' = Known(g, i)
  BY <1>1, KnownFrame
<1>5. ASSUME NEW g, NEW k, Sound(g, k)
      PROVE  Sound(g, k)'
  BY <1>1, <1>5, SoundFrame
<1> QED
  BY <1>1, <1>2, <1>3, <1>4, <1>5 DEF GraphInv

LEMMA MergeEntryGraph ==
  ASSUME StageInv, GraphInv, NEW k, MergeEntry(k)
  PROVE  GraphInv'
<1>1. /\ UNCHANGED <<pc, request, left, blocks, queue, graphs>>
      /\ merging = {} /\ toMerge' = toMerge \ {k}
      /\ merging' = {i \in DOMAIN blocks : blocks[i].dep.child = k}
  BY DEF MergeEntry
<1>2. Target' = Target /\ FillList' = FillList /\ DOMAIN blocks = 1 .. Len(blocks)
  BY <1>1 DEF Target, FillList, StageInv, ShapeInv
<1>3. ASSUME NEW i \in 1 .. Len(blocks), HasBeenMerged(i)'
      PROVE  HasBeenMerged(i)
  BY <1>1, <1>2, <1>3 DEF HasBeenMerged
<1>4. \A g, i : Known(g, i)' = Known(g, i)
  BY <1>1, KnownFrame
<1>5. ASSUME NEW g, NEW c, Sound(g, c)
      PROVE  Sound(g, c)'
  BY <1>1, <1>5, SoundFrame
<1> QED
  BY <1>1, <1>2, <1>3, <1>4, <1>5 DEF GraphInv

LEMMA MergeGraph ==
  ASSUME StageInv, FreshInv, GraphInv, NEW i \in merging, Merge(i)
  PROVE  GraphInv'
<1>1. /\ UNCHANGED <<pc, request, left, blocks, queue, toMerge>>
      /\ graphs' = [graphs EXCEPT ![Target] = MergeBlock(@, i)]
      /\ merging' = merging \ {i}
  BY DEF Merge
<1>2. /\ Target' = Target /\ FillList' = FillList /\ DOMAIN blocks = 1 .. Len(blocks)
      /\ i \in 1 .. Len(blocks) /\ pc \in Fills /\ left # <<>> /\ queue = <<>>
      /\ Target \in DOMAIN graphs
  BY <1>1 DEF Target, FillList, StageInv, ShapeInv, ControlInv, FreshInv
<1>3. PICK g : g = graphs[Target]
  OBVIOUS
<1>4. PICK h : h = MergeBlock(g, i)
  OBVIOUS
<1>5. graphs'[Target'] = h
  BY <1>1, <1>2, <1>3, <1>4
<1>6. SUFFICES ASSUME FillList # <<>>
               PROVE  /\ \A j \in 1 .. Len(blocks) : HasBeenMerged(j)' => Known(h, j)'
                      /\ \A k \in DOMAIN h : Sound(h, k)'
  BY <1>1, <1>2, <1>5 DEF GraphInv
<1>7. /\ \A j \in 1 .. Len(blocks) : HasBeenMerged(j) => Known(g, j)
      /\ \A k \in DOMAIN g : Sound(g, k)
  BY <1>2, <1>3, <1>6 DEF GraphInv
<1>8. Extends(g, h)
  BY <1>4, MergeBlockFacts DEF OneMore
<1>9. ASSUME NEW j \in 1 .. Len(blocks), HasBeenMerged(j)'
      PROVE  Known(h, j)'
  <2>1. CASE j = i
    <3>1. Known(h, i)
      BY <1>2, <1>4, <1>7, MergedIsKnown
    <3> QED
      BY <1>1, <2>1, <3>1, KnownFrame
  <2>2. CASE j # i
    <3>1. HasBeenMerged(j)
      BY <1>1, <1>9, <2>2 DEF HasBeenMerged
    <3>2. Known(h, j)
      BY <1>7, <1>8, <3>1, KnownExtends
    <3> QED
      BY <1>1, <3>2, KnownFrame
  <2> QED
    BY <2>1, <2>2
<1>10. ASSUME NEW k \in DOMAIN h
       PROVE  Sound(h, k)'
  <2>1. Sound(h, k)
    BY <1>2, <1>4, <1>7, MergedIsSound
  <2> QED
    BY <1>1, <1>2, <2>1, SoundFrame
<1> QED
  BY <1>9, <1>10

LEMMA NextReplicaGraph ==
  ASSUME StageInv, BlocksInv, GraphInv, NextReplica
  PROVE  GraphInv'
<1>1. /\ UNCHANGED <<pc, request, blocks, graphs>> /\ pc \in Fills /\ left # <<>>
      /\ queue = <<>> /\ toMerge = {} /\ merging = {} /\ left' = Tail(left)
  BY DEF NextReplica
<1>2. Target' = Target /\ FillList' = FillList
  BY <1>1 DEF Target, FillList
<1>3. \A i \in 1 .. Len(blocks) : HasBeenMerged(i)
  BY <1>1 DEF HasBeenMerged
<1>4. \A g, i : Known(g, i)' = Known(g, i)
  BY <1>1, KnownFrame
<1>5. ASSUME NEW i \in 1 .. Len(blocks), left' # <<>>
      PROVE  blocks[i].replica # Head(left')
  <2>1. left' \in Seq(Replicas)
    BY <1>1, TailFacts DEF StageInv, ShapeInv
  <2>2. Head(left') \in Range(left')
    BY <1>5, <2>1, TailFacts
  <2> QED
    BY <1>1, <2>2 DEF BlocksInv
<1>6. ASSUME NEW g, NEW k, Sound(g, k)
      PROVE  Sound(g, k)'
  BY <1>1, <1>5, <1>6, SoundFrame
<1> QED
  BY <1>1, <1>2, <1>3, <1>4, <1>6 DEF GraphInv

\* At the start of a fill with replicas to go through, its graph is empty.
LEMMA FreshGraph ==
  ASSUME blocks' = <<>>, pc' \in Fills /\ FillList' # <<>> => DOMAIN graphs'[Target'] = {}
  PROVE  GraphInv'
<1>1. Len(blocks') = 0
  OBVIOUS
<1> QED
  BY <1>1 DEF GraphInv

LEMMA NextGraph ==
  ASSUME StageInv, DepsOK, BlocksInv, WalkInv, FreshInv, GraphInv, Next
  PROVE  FreshInv' /\ GraphInv'
<1>1. CASE Analyze \/ Reject
  <2>1. pc' \notin Fills /\ pc' \in {"analyze", "fatal"} /\ graphs' = graphs
    BY <1>1 DEF Analyze, Reject, buildVars, Fills
  <2> QED
    BY <2>1 DEF GraphInv, FreshInv
<1>2. ASSUME NEW r \in Requests, Accept(r)
      PROVE  FreshInv' /\ GraphInv'
  <2>1. /\ blocks' = <<>> /\ pc' = "construct" /\ DOMAIN graphs' = {"deploy", "all"}
        /\ DOMAIN graphs'.all = {} /\ DOMAIN graphs'.deploy = {}
    BY <1>2, EmptyFacts DEF Accept, StageInv, ControlInv
  <2>2. DOMAIN graphs'[Target'] = {}
    BY <2>1 DEF Target
  <2> QED
    BY <2>1, <2>2, FreshGraph DEF FreshInv
<1>3. ASSUME NextFill
      PROVE  FreshInv' /\ GraphInv'
  <2>1. /\ pc \in Fills /\ blocks' = <<>> /\ UNCHANGED <<request, graphs>> /\ request \in Requests
    BY <1>3 DEF NextFill, StageInv, ControlInv
  <2>2. \/ pc = "construct" /\ pc' = "destruct"
        \/ pc = "destruct" /\ pc' = "survey"
        \/ pc' = "done"
    BY <1>3 DEF NextFill
  <2>3. FreshInv'
    BY <2>1, <2>2 DEF FreshInv
  <2>4. pc' \in Fills /\ FillList' # <<>> => DOMAIN graphs'[Target'] = {}
    <3>1. CASE pc = "construct" /\ pc' = "destruct"
      <4>1. FillList' = request.destruct /\ Target' = "deploy"
        BY <2>1, <3>1 DEF FillList, Target
      <4>2. request.destruct # <<>> => request.construct = <<>>
        BY <2>1, RequestFacts
      <4> QED
        BY <2>1, <3>1, <4>1, <4>2 DEF FreshInv
    <3>2. CASE pc = "destruct" /\ pc' = "survey"
      BY <2>1, <3>2 DEF FreshInv, Target
    <3>3. CASE pc' = "done"
      BY <3>3 DEF Fills
    <3> QED
      BY <2>2, <3>1, <3>2, <3>3
  <2> QED
    BY <2>1, <2>3, <2>4, FreshGraph
<1>4. ASSUME NEW i \in merging, Merge(i)
      PROVE  FreshInv' /\ GraphInv'
  <2>1. UNCHANGED <<pc, request>> /\ graphs' = [graphs EXCEPT ![Target] = MergeBlock(@, i)]
    BY <1>4 DEF Merge
  <2>2. pc \in Fills /\ left # <<>> /\ Range(left) \subseteq Range(FillList) /\ left \in Seq(Replicas)
    BY <1>4 DEF Merge, StageInv, ShapeInv, ControlInv
  <2>3. pc = "construct" => request.construct # <<>>
    BY <2>2, TailFacts, EmptyFacts DEF FillList
  <2>4. pc \in {"construct", "destruct"} => Target # "all" /\ graphs'.all = graphs.all
    BY <2>1 DEF Target
  <2>5. FreshInv'
    BY <2>1, <2>3, <2>4 DEF FreshInv
  <2> QED
    BY <1>4, <2>5, MergeGraph
<1>5. ASSUME Follow \/ NextBlock \/ (\E k \in Keys : MergeEntry(k)) \/ NextReplica
      PROVE  FreshInv'
  <2>1. UNCHANGED <<request, graphs>> /\ pc' \in {pc, "error", "fatal"}
    BY <1>5 DEF Follow, NextBlock, MergeEntry, NextReplica
  <2> QED
    BY <2>1 DEF FreshInv
<1> QED
  BY <1>1, <1>2, <1>3, <1>4, <1>5, FollowGraph, NextBlockGraph, MergeEntryGraph, NextReplicaGraph
     DEF Next, Fill

LEMMA GraphFrame ==
  ASSUME FreshInv, GraphInv, UNCHANGED vars
  PROVE  FreshInv' /\ GraphInv'
<1> USE DEF vars, buildVars
<1>1. Target' = Target /\ FillList' = FillList /\ \A i : HasBeenMerged(i)' = HasBeenMerged(i)
  BY DEF Target, FillList, HasBeenMerged
<1>2. \A g, i : Known(g, i)' = Known(g, i)
  BY KnownFrame
<1>3. \A g, k : Sound(g, k) => Sound(g, k)'
  BY SoundFrame
<1> QED
  BY <1>1, <1>2, <1>3 DEF GraphInv, FreshInv

(***************************************************************************)
(* The graphs that have been filled.                                       *)
(***************************************************************************)

\* The uses of dependencies on one path, replica by replica
Uses(b) == [r \in Replicas |-> Scope(b, r)]

\* The graph g has what the uses of S need in the replicas of R, and no more.
Built(g, S, R) ==
  /\ \A r \in R : \A u \in S[r] :
       /\ NameOf(u, r) \in DOMAIN g /\ r \in g[NameOf(u, r)].usedIn
       /\ u[2] # Top => u[1].parent \in DOMAIN g[NameOf(u, r)].meta
  /\ \A k \in DOMAIN g :
       /\ g[k].usedIn # {}
       /\ \A r \in g[k].usedIn : r \in R /\ \E u \in S[r] : NameOf(u, r) = k
       /\ \A p \in g[k].requires : p \in DOMAIN g /\ k \in g[p].requiredBy
       /\ \A c \in g[k].requiredBy :
            /\ c \in DOMAIN g /\ k \in g[c].requires
            /\ \E r \in R : \E u, w \in S[r] :
                 /\ NameOf(u, r) = k /\ NameOf(w, r) = c
                 /\ w[1].parent = u[1].child /\ ~Undefined(u[1])
       /\ \E r \in R : \E u \in S[r] :
            NameOf(u, r) = k /\ g[k].existing = ~HasDefinition(u[1].child)
       /\ \A p \in DOMAIN g[k].meta : \E r \in R : \E u \in S[r] :
            NameOf(u, r) = k /\ u[2] # Top /\ u[1].parent = p /\ u[1].uid = g[k].meta[p]

BuiltInv ==
  /\ pc = "destruct" /\ request.destruct = <<>> =>
       Built(graphs.deploy, Uses(FALSE), Range(request.construct))
  /\ pc \in {"survey", "done"} =>
       Built(graphs.deploy, Uses(request.destruct # <<>>),
             Range(request.construct) \cup Range(request.destruct))
  /\ pc = "done" /\ request.destruct # <<>> =>
       Built(graphs.all, Uses(FALSE), Range(request.all))

LEMMA BuiltEmpty ==
  ASSUME NEW g, NEW S, DOMAIN g = {}
  PROVE  Built(g, S, {})
  BY DEF Built

LEMMA UsesFrame ==
  ASSUME deps' = deps, request' = request, NEW b
  PROVE  Uses(b)' = Uses(b)
<1>1. \A r : Scope(b, r)' = Scope(b, r)
  BY ScopeFrame
<1> QED
  BY <1>1 DEF Uses

\* What the walk has found out about block i
LEMMA BlockFacts ==
  ASSUME StageInv, DepsOK, BlocksInv, pc \in Fills, NEW i \in 1 .. Len(blocks)
  PROVE  /\ Use(i) \in Scope(pc = "destruct", blocks[i].replica) /\ ~Undefined(Use(i)[1])
         /\ blocks[i].replica \in Range(FillList)
         /\ blocks[i].key = NameOf(Use(i), blocks[i].replica)
         /\ Use(i)[1] = blocks[i].dep
         /\ Use(i)[2] # Top <=> blocks[i].parent # 0
         /\ blocks[i].parent # 0 =>
              /\ blocks[i].parent \in 1 .. Len(blocks)
              /\ blocks[blocks[i].parent].replica = blocks[i].replica
              /\ blocks[i].dep.parent = blocks[blocks[i].parent].dep.child
<1>1. PICK p \in 0 .. i - 1 : p = blocks[i].parent
  BY DEF StageInv, ShapeInv
<1>2. blocks[i].dep \in ChildDependencies(p) /\ blocks[i].parentContext = Context(p)
  BY <1>1 DEF BlocksInv
<1>3. Len(blocks) \in Nat /\ p \in 0 .. Len(blocks) /\ (p # 0 => p \in 1 .. Len(blocks))
  BY <1>1 DEF StageInv, ShapeInv
<1>4. Use(i)[1] = blocks[i].dep /\ Use(i)[2] = Context(p)
  BY <1>2 DEF Use
<1>5. Context(p) # Top <=> p # 0
  <2>1. p = 0 => Context(p) = Top
    BY DEF Context
  <2> QED
    BY <1>3, <2>1, BlockContexts
<1>6. p # 0 => blocks[i].dep.parent = blocks[p].dep.child
  BY <1>2 DEF ChildDependencies, RawKey
<1> QED
  BY <1>1, <1>3, <1>4, <1>5, <1>6 DEF BlocksInv

\* When no replica is left, all blocks have been merged.
LEMMA FillResult ==
  ASSUME StageInv, DepsOK, BlocksInv, WalkInv, GraphInv, pc \in Fills, left = <<>>, FillList # <<>>,
         Range(FillList) \subseteq Replicas
  PROVE  Built(graphs[Target], Uses(pc = "destruct"), Range(FillList))
<1>1. PICK g : g = graphs[Target]
  OBVIOUS
<1>2. PICK b \in BOOLEAN : b = (pc = "destruct")
  OBVIOUS
<1>3. PICK R : R = Range(FillList)
  OBVIOUS
<1>4. PICK S : S = Uses(b)
  OBVIOUS
<1>5. \A r \in R : S[r] = Scope(b, r)
  BY <1>3, <1>4 DEF Uses
<1>6. /\ \A i \in 1 .. Len(blocks) : Known(g, i)
      /\ \A k \in DOMAIN g : Sound(g, k)
  BY <1>1 DEF GraphInv, HasBeenMerged
<1>7. \A i \in 1 .. Len(blocks) :
        /\ blocks[i].replica \in R /\ Use(i) \in S[blocks[i].replica] /\ ~Undefined(Use(i)[1])
        /\ blocks[i].key = NameOf(Use(i), blocks[i].replica)
        /\ Use(i)[1] = blocks[i].dep
        /\ Use(i)[2] # Top <=> blocks[i].parent # 0
        /\ blocks[i].parent # 0 =>
             /\ blocks[i].parent \in 1 .. Len(blocks)
             /\ blocks[blocks[i].parent].replica = blocks[i].replica
             /\ blocks[i].dep.parent = blocks[blocks[i].parent].dep.child
  BY <1>2, <1>3, <1>5, BlockFacts
<1>8. \A r \in R : \A u \in S[r] :
        \E i \in 1 .. Len(blocks) : Use(i) = u /\ blocks[i].replica = r
  BY <1>2, <1>3, <1>5, EmptyFacts DEF WalkInv
<1>9. ASSUME NEW r \in R, NEW u \in S[r]
      PROVE  /\ NameOf(u, r) \in DOMAIN g /\ r \in g[NameOf(u, r)].usedIn
             /\ u[2] # Top => u[1].parent \in DOMAIN g[NameOf(u, r)].meta
  <2>1. PICK i \in 1 .. Len(blocks) : Use(i) = u /\ blocks[i].replica = r
    BY <1>8
  <2>2. blocks[i].key = NameOf(u, r) /\ u[1] = blocks[i].dep /\ (u[2] # Top => blocks[i].parent # 0)
    BY <1>7, <2>1
  <2>3. Known(g, i)
    BY <1>6
  <2> QED
    BY <2>1, <2>2, <2>3 DEF Known
<1>10. ASSUME NEW k \in DOMAIN g
       PROVE  g[k].usedIn # {} /\ \E r \in R : \E u \in S[r] :
                NameOf(u, r) = k /\ g[k].existing = ~HasDefinition(u[1].child)
  <2>1. PICK i \in 1 .. Len(blocks) :
          blocks[i].key = k /\ g[k].existing = ~HasDefinition(blocks[i].dep.child) /\ Known(g, i)
    BY <1>6 DEF Sound
  <2>2. blocks[i].replica \in g[k].usedIn
    BY <2>1 DEF Known
  <2> QED
    BY <1>7, <2>1, <2>2
<1>11. ASSUME NEW k \in DOMAIN g, NEW r \in g[k].usedIn
       PROVE  r \in R /\ \E u \in S[r] : NameOf(u, r) = k
  <2>1. PICK i \in 1 .. Len(blocks) : blocks[i].key = k /\ blocks[i].replica = r
    BY <1>6 DEF Sound
  <2> QED
    BY <1>7, <2>1
<1>12. ASSUME NEW k \in DOMAIN g, NEW p \in g[k].requires
       PROVE  p \in DOMAIN g /\ k \in g[p].requiredBy
  <2>1. PICK i \in 1 .. Len(blocks) :
          blocks[i].key = k /\ blocks[i].parent # 0 /\ blocks[blocks[i].parent].key = p
    BY <1>6 DEF Sound
  <2>2. PICK j \in 1 .. Len(blocks) : j = blocks[i].parent
    BY <1>7, <2>1
  <2> QED
    BY <1>6, <2>1, <2>2 DEF Known
<1>13. ASSUME NEW k \in DOMAIN g, NEW c \in g[k].requiredBy
       PROVE  /\ c \in DOMAIN g /\ k \in g[c].requires
              /\ \E r \in R : \E u, w \in S[r] :
                   /\ NameOf(u, r) = k /\ NameOf(w, r) = c
                   /\ w[1].parent = u[1].child /\ ~Undefined(u[1])
  <2>1. PICK j \in 1 .. Len(blocks) :
          blocks[j].key = c /\ blocks[j].parent # 0 /\ blocks[blocks[j].parent].key = k
    BY <1>6 DEF Sound
  <2>2. PICK i \in 1 .. Len(blocks) : i = blocks[j].parent
    BY <1>7, <2>1
  <2>3. c \in DOMAIN g /\ k \in g[c].requires
    BY <1>6, <2>1 DEF Known
  <2>4. PICK r \in R : r = blocks[j].replica
    BY <1>7
  <2>5. /\ Use(i) \in S[r] /\ Use(j) \in S[r]
        /\ NameOf(Use(i), r) = k /\ NameOf(Use(j), r) = c
        /\ Use(j)[1].parent = Use(i)[1].child /\ ~Undefined(Use(i)[1])
    BY <1>7, <2>1, <2>2, <2>4
  <2> QED
    BY <2>3, <2>5
<1>14. ASSUME NEW k \in DOMAIN g, NEW p \in DOMAIN g[k].meta
       PROVE  \E r \in R : \E u \in S[r] :
                NameOf(u, r) = k /\ u[2] # Top /\ u[1].parent = p /\ u[1].uid = g[k].meta[p]
  <2>1. PICK i \in 1 .. Len(blocks) : GivesMeta(i, k, p, g[k].meta[p])
    BY <1>6 DEF Sound
  <2> QED
    BY <1>7, <2>1 DEF GivesMeta
<1>15. Built(g, S, R)
  BY <1>9, <1>10, <1>11, <1>12, <1>13, <1>14 DEF Built
<1> QED
  BY <1>1, <1>2, <1>3, <1>4, <1>15

LEMMA NextBuilt ==
  ASSUME StageInv, DepsOK, BlocksInv, WalkInv, FreshInv, GraphInv, BuiltInv, Next
  PROVE  BuiltInv'
<1>1. CASE Analyze \/ Reject \/ \E r \in Requests : Accept(r)
  <2>1. pc' \in {"analyze", "fatal", "construct"}
    BY <1>1 DEF Analyze, Reject, Accept, buildVars
  <2> QED
    BY <2>1 DEF BuiltInv
<1>2. ASSUME NextFill
      PROVE  BuiltInv'
  <2>1. /\ UNCHANGED <<deps, request, graphs>> /\ pc \in Fills /\ left = <<>> /\ request \in Requests
    BY <1>2 DEF NextFill, analyzerVars, StageInv, ControlInv
  <2>2. \A b : Uses(b)' = Uses(b)
    BY <2>1, UsesFrame
  <2>3. /\ Range(request.construct) = {} \/ Range(request.destruct) = {}
        /\ Range(FillList) \subseteq Replicas
    BY <2>1, RequestFacts, SeqFacts, EmptyFacts DEF FillList
  <2>4. CASE pc = "construct" /\ pc' = "destruct"
    <3>1. Built(graphs.deploy, Uses(FALSE), Range(request.construct))
      <4>1. CASE request.construct = <<>>
        BY <2>4, <4>1, EmptyFacts, BuiltEmpty DEF FreshInv
      <4>2. CASE request.construct # <<>>
        <5>1. FillList = request.construct /\ Target = "deploy" /\ ~(pc = "destruct")
          BY <2>4 DEF FillList, Target
        <5>2. Built(graphs[Target], Uses(pc = "destruct"), Range(FillList))
          BY <2>1, <4>2, <5>1, <2>3, FillResult
        <5> QED
          BY <5>1, <5>2
      <4> QED
        BY <4>1, <4>2
    <3> QED
      BY <2>1, <2>2, <2>4, <3>1 DEF BuiltInv
  <2>5. CASE pc = "destruct" /\ request.destruct # <<>> /\ pc' = "survey"
    <3>1. FillList = request.destruct /\ Target = "deploy" /\ (pc = "destruct") = TRUE
      BY <2>5 DEF FillList, Target
    <3>2. Built(graphs[Target], Uses(pc = "destruct"), Range(FillList))
      BY <2>1, <2>5, <3>1, <2>3, FillResult
    <3>3. Range(request.construct) \cup Range(request.destruct) = Range(request.destruct)
      BY <2>1, <2>5, RequestFacts, EmptyFacts
    <3>4. Built(graphs.deploy, Uses(TRUE), Range(request.construct) \cup Range(request.destruct))
      BY <3>1, <3>2, <3>3
    <3>5. (request.destruct # <<>>) = TRUE
      BY <2>5
    <3> QED
      BY <2>1, <2>2, <2>5, <3>4, <3>5 DEF BuiltInv
  <2>6. CASE pc = "destruct" /\ request.destruct = <<>> /\ pc' = "done"
    <3>1. Built(graphs.deploy, Uses(FALSE), Range(request.construct))
      BY <2>6 DEF BuiltInv
    <3>2. Range(request.construct) \cup Range(request.destruct) = Range(request.construct)
      BY <2>6, EmptyFacts
    <3>3. (request.destruct # <<>>) = FALSE
      BY <2>6
    <3> QED
      BY <2>1, <2>2, <2>6, <3>1, <3>2, <3>3 DEF BuiltInv
  <2>7. CASE pc = "survey" /\ pc' = "done"
    <3>1. FillList = request.all /\ Target = "all" /\ (pc = "destruct") = FALSE
      BY <2>7 DEF FillList, Target
    <3>2. ASSUME request.destruct # <<>>
          PROVE  Built(graphs.all, Uses(FALSE), Range(request.all))
      <4>1. request.all # <<>>
        <5>1. Range(request.destruct) # {}
          BY <2>1, <3>2, RequestFacts, TailFacts
        <5> QED
          BY <2>1, <5>1, RequestFacts, EmptyFacts
      <4>2. Built(graphs[Target], Uses(pc = "destruct"), Range(FillList))
        BY <2>1, <3>1, <4>1, <2>3, FillResult
      <4> QED
        BY <3>1, <4>2
    <3> QED
      BY <2>1, <2>2, <2>7, <3>2 DEF BuiltInv
  <2> QED
    BY <1>2, <2>4, <2>5, <2>6, <2>7 DEF NextFill
<1>3. ASSUME NEW i \in merging, Merge(i)
      PROVE  BuiltInv'
  <2>1. /\ UNCHANGED <<deps, pc, request>>
        /\ graphs' = [graphs EXCEPT ![Target] = MergeBlock(@, i)]
    BY <1>3 DEF Merge, analyzerVars
  <2>2. /\ pc \in Fills /\ left # <<>> /\ Range(left) \subseteq Range(FillList)
        /\ left \in Seq(Replicas)
    BY <1>3 DEF StageInv, ShapeInv, ControlInv
  <2>3. pc = "destruct" => request.destruct # <<>>
    BY <2>2, TailFacts, EmptyFacts DEF FillList
  <2>4. pc = "survey" => graphs'.deploy = graphs.deploy
    BY <2>1 DEF Target, FreshInv
  <2>5. \A b : Uses(b)' = Uses(b)
    BY <2>1, UsesFrame
  <2> QED
    BY <2>1, <2>2, <2>3, <2>4, <2>5 DEF BuiltInv, Fills
<1>4. ASSUME Follow \/ NextBlock \/ (\E k \in Keys : MergeEntry(k)) \/ NextReplica
      PROVE  BuiltInv'
  <2>1. UNCHANGED <<deps, request, graphs>> /\ pc' \in {pc, "error", "fatal"}
    BY <1>4 DEF Follow, NextBlock, MergeEntry, NextReplica, analyzerVars
  <2>2. \A b : Uses(b)' = Uses(b)
    BY <2>1, UsesFrame
  <2> QED
    BY <2>1, <2>2 DEF BuiltInv
<1> QED
  BY <1>1, <1>2, <1>3, <1>4 DEF Next, Fill

LEMMA BuiltFrame ==
  ASSUME BuiltInv, UNCHANGED vars
  PROVE  BuiltInv'
<1> USE DEF vars, buildVars, analyzerVars
<1>1. \A b : Uses(b)' = Uses(b)
  BY UsesFrame
<1> QED
  BY <1>1 DEF BuiltInv

(***************************************************************************)
(* What the graphs hold.                                                   *)
(***************************************************************************)

LEMMA InNeeds ==
  ASSUME NEW b, NEW S, NEW k
  PROVE  /\ k \in Needs(b, S) <=> \E r \in S : \E u \in Scope(b, r) : NameOf(u, r) = k
         /\ k \in Makes(b, S) <=>
              \E r \in S : \E u \in Scope(b, r) : HasDefinition(u[1].child) /\ NameOf(u, r) = k
         /\ k \in Expects(b, S) <=>
              \E r \in S : \E u \in Scope(b, r) : ~HasDefinition(u[1].child) /\ NameOf(u, r) = k
  BY DEF Needs, Makes, Expects

\* The names of the graph, and the replicas it knows of, are those that are needed.
LEMMA BuiltNames ==
  ASSUME NEW g, NEW S, NEW R, Built(g, S, R)
  PROVE  /\ \A k : k \in DOMAIN g <=> \E r \in R : \E u \in S[r] : NameOf(u, r) = k
         /\ \A k \in DOMAIN g : \A r :
              r \in g[k].usedIn <=> r \in R /\ \E u \in S[r] : NameOf(u, r) = k
<1>1. ASSUME NEW r \in R, NEW u \in S[r]
      PROVE  NameOf(u, r) \in DOMAIN g /\ r \in g[NameOf(u, r)].usedIn
  BY DEF Built
<1>2. ASSUME NEW k \in DOMAIN g
      PROVE  g[k].usedIn # {}
  BY DEF Built
<1>3. ASSUME NEW k \in DOMAIN g, NEW r \in g[k].usedIn
      PROVE  r \in R /\ \E u \in S[r] : NameOf(u, r) = k
  BY DEF Built
<1> QED
  BY <1>1, <1>2, <1>3

\* The same, in terms of what the dependencies need and make.
LEMMA BuiltNeeds ==
  ASSUME NEW g, NEW b, NEW R \in SUBSET Replicas, Built(g, Uses(b), R)
  PROVE  /\ \A k : k \in DOMAIN g <=> k \in Needs(b, R)
         /\ \A k \in DOMAIN g : \A r : r \in g[k].usedIn <=> r \in R /\ k \in Needs(b, {r})
         /\ \A k \in DOMAIN g : IF g[k].existing THEN k \in Expects(b, R) ELSE k \in Makes(b, R)
<1>1. PICK S : S = Uses(b)
  OBVIOUS
<1>2. Built(g, S, R) /\ \A r \in R : S[r] = Scope(b, r)
  BY <1>1 DEF Uses
<1>3. ASSUME NEW k
      PROVE  k \in DOMAIN g <=> k \in Needs(b, R)
  <2>1. k \in DOMAIN g <=> \E r \in R : \E u \in Scope(b, r) : NameOf(u, r) = k
    BY <1>2, BuiltNames
  <2> QED
    BY <2>1, InNeeds
<1>4. ASSUME NEW k \in DOMAIN g, NEW r
      PROVE  r \in g[k].usedIn <=> r \in R /\ k \in Needs(b, {r})
  <2>1. r \in g[k].usedIn <=> r \in R /\ \E u \in Scope(b, r) : NameOf(u, r) = k
    BY <1>2, BuiltNames
  <2>2. k \in Needs(b, {r}) <=> \E u \in Scope(b, r) : NameOf(u, r) = k
    BY InNeeds
  <2> QED
    BY <2>1, <2>2
<1>5. ASSUME NEW k \in DOMAIN g
      PROVE  IF g[k].existing THEN k \in Expects(b, R) ELSE k \in Makes(b, R)
  <2>1. PICK r \in R : \E u \in S[r] :
          NameOf(u, r) = k /\ g[k].existing = ~HasDefinition(u[1].child)
    BY <1>2 DEF Built
  <2>2. PICK u \in Scope(b, r) : NameOf(u, r) = k /\ g[k].existing = ~HasDefinition(u[1].child)
    BY <1>2, <2>1
  <2> QED
    BY <2>2, InNeeds
<1> QED
  BY <1>3, <1>4, <1>5

LEMMA BuiltKnows ==
  ASSUME NEW g, NEW b, NEW R \in SUBSET Replicas, Built(g, Uses(b), R), NEW k
  PROVE  KnowsWhoNeeds(g, b, R, k)
<1>1. PICK needing : needing = {r \in R : k \in Needs(b, {r})}
  OBVIOUS
<1>2. k \in DOMAIN g <=> k \in Needs(b, R)
  BY BuiltNeeds
<1>3. k \in Needs(b, R) <=> \E r \in R : k \in Needs(b, {r})
  BY DEF Needs
<1>4. k \in DOMAIN g => g[k].usedIn = needing
  <2>1. ASSUME k \in DOMAIN g, NEW r
        PROVE  r \in g[k].usedIn <=> r \in needing
    BY <1>1, <2>1, BuiltNeeds
  <2> QED
    BY <2>1
<1>5. k \in DOMAIN g <=> needing # {}
  BY <1>1, <1>2, <1>3
<1> QED
  BY <1>1, <1>4, <1>5 DEF KnowsWhoNeeds

\* Where the lists of a request come from
LEMMA ListedReplicas ==
  ASSUME NEW r \in Requests
  PROVE  /\ Range(r.construct) \in SUBSET Replicas /\ Range(r.destruct) \in SUBSET Replicas
         /\ Range(r.all) \in SUBSET Replicas
         /\ Range(r.construct) \cup Range(r.destruct) \in SUBSET Replicas
         /\ r.destruct # <<>> => Range(r.construct) = {}
  BY RequestFacts, SeqFacts, EmptyFacts

LEMMA BuiltUse ==
  ASSUME StageInv, BuiltInv
  PROVE  UsedWhereNeeded
<1> SUFFICES ASSUME pc = "done"
             PROVE  UsedWhereNeeded
  BY DEF UsedWhereNeeded
<1>1. PICK f : f = FALSE
  OBVIOUS
<1>2. Listed \in SUBSET Replicas /\ Range(request.all) \in SUBSET Replicas
  BY ListedReplicas DEF Listed, StageInv, ControlInv
<1>3. Built(graphs.deploy, Uses(Destructs), Listed)
  BY DEF BuiltInv, Listed, Destructs
<1>4. Destructs => Built(graphs.all, Uses(f), Range(request.all))
  BY <1>1 DEF BuiltInv, Destructs
<1>5. \A k : KnowsWhoNeeds(graphs.deploy, Destructs, Listed, k)
  BY <1>2, <1>3, BuiltKnows, Zenon
<1>6. \A k : Destructs => KnowsWhoNeeds(graphs.all, f, Range(request.all), k)
  BY <1>2, <1>4, BuiltKnows, Zenon
<1> QED
  BY <1>1, <1>5, <1>6 DEF UsedWhereNeeded

LEMMA BuiltMirror ==
  ASSUME BuiltInv
  PROVE  Mirrored
<1> SUFFICES ASSUME pc = "done"
             PROVE  Mirrored
  BY DEF Mirrored
<1>1. Built(graphs.deploy, Uses(Destructs), Listed)
  BY DEF BuiltInv, Listed, Destructs
<1> QED
  BY <1>1 DEF Built, Mirrored

LEMMA BuiltMeta ==
  ASSUME StageInv, BuiltInv
  PROVE  MetadataKept
<1> SUFFICES ASSUME pc = "done", NEW k \in DOMAIN graphs.deploy
             PROVE  /\ DOMAIN graphs.deploy[k].meta = {d.parent : d \in LinksTo(k)}
                    /\ \A p \in DOMAIN graphs.deploy[k].meta :
                         \E d \in LinksTo(k) : d.parent = p /\ d.uid = graphs.deploy[k].meta[p]
  BY DEF MetadataKept
<1>1. PICK g : g = graphs.deploy
  OBVIOUS
<1>2. PICK S : S = Uses(Destructs)
  OBVIOUS
<1>3. Built(g, S, Listed)
  BY <1>1, <1>2 DEF BuiltInv, Listed, Destructs
<1>4. \A r \in Listed : S[r] = Scope(Destructs, r)
  BY <1>2, ListedReplicas DEF Uses, Listed, StageInv, ControlInv
<1>5. \A d : d \in LinksTo(k) <=>
        \E r \in Listed : \E u \in Scope(Destructs, r) : NameOf(u, r) = k /\ u[2] # Top /\ d = u[1]
  BY DEF LinksTo
<1>6. ASSUME NEW d \in LinksTo(k)
      PROVE  d.parent \in DOMAIN g[k].meta
  <2>1. PICK r \in Listed : \E u \in Scope(Destructs, r) : NameOf(u, r) = k /\ u[2] # Top /\ d = u[1]
    BY <1>5
  <2>2. PICK u \in S[r] : NameOf(u, r) = k /\ u[2] # Top /\ d = u[1]
    BY <1>4, <2>1
  <2> QED
    BY <1>3, <2>2 DEF Built
<1>7. ASSUME NEW p \in DOMAIN g[k].meta
      PROVE  \E d \in LinksTo(k) : d.parent = p /\ d.uid = g[k].meta[p]
  <2>1. PICK r \in Listed : \E u \in S[r] :
          NameOf(u, r) = k /\ u[2] # Top /\ u[1].parent = p /\ u[1].uid = g[k].meta[p]
    BY <1>1, <1>3 DEF Built
  <2>2. PICK u \in Scope(Destructs, r) :
          NameOf(u, r) = k /\ u[2] # Top /\ u[1].parent = p /\ u[1].uid = g[k].meta[p]
    BY <1>4, <2>1
  <2> QED
    BY <1>5, <2>2
<1> QED
  BY <1>1, <1>6, <1>7

LEMMA ImpliedFacts ==
  ASSUME NEW d \in Implied(deps)
  PROVE  d.uid = 0 /\ d.parent = Default /\ d.child \notin FlowKeys
<1> DEFINE roots == ({e.parent : e \in deps} \cup Definitions) \ (FlowKeys \cup {e.child : e \in deps})
           dep(k) == [uid |-> 0, parent |-> Default, child |-> k, labels |-> {}, arg |-> ""]
<1>1. Implied(deps) \subseteq {dep(k) : k \in roots}
  BY DEF Implied
<1>2. \A k : dep(k).uid = 0 /\ dep(k).parent = Default /\ dep(k).child = k
  OBVIOUS
<1>3. \A k \in roots : k \notin FlowKeys
  OBVIOUS
<1> HIDE DEF roots, dep
<1> QED
  BY <1>1, <1>2, <1>3

\* What the graph follows from one resource to the next is an edge of the graph
\* that the cycle check has seen.
LEMMA SeenByCheck ==
  ASSUME ImplicitFlowUnused, deps \in DependencyLists, DepsOK, NEW b \in BOOLEAN,
         NEW r \in Replicas, NEW u \in Scope(b, r), NEW s \in Replicas, NEW w \in Scope(b, s),
         w[1].parent = u[1].child, ~Undefined(u[1])
  PROVE  w[1].child \in Children(Edges(<<request.flow, b>>), u[1].child)
<1>1. PICK d \in GroupDependencies(deps) : d = u[1]
  BY ScopeTypes
<1>2. PICK e \in GroupDependencies(deps) : e = w[1]
  BY ScopeTypes
<1>3. /\ CanDependencyBelongToFlow(e, request.flow, b)
      /\ e.parent = request.flow \/ ~Owned(e, DefinedFlows)
  BY <1>2, ScopeTypes, TopIsFlow DEF Usable
<1>4. d.child = Default => Default \in Definitions
  BY <1>1, FlowsAssumption, KeysAssumption DEF Undefined, HasDefinition
<1>5. d \in Implied(deps) => d.child # Default
  BY ImpliedFacts, FlowsAssumption
<1>6. e \in Implied(deps) => e.parent = Default
  BY ImpliedFacts
<1>7. e \in deps
  BY <1>1, <1>2, <1>4, <1>5, <1>6 DEF GroupDependencies, ImplicitFlowUnused
<1>8. ~(e.parent # request.flow /\ Owned(e, AnalyzedFlows))
  BY <1>1, <1>2, <1>3, <1>4, FlowsAssumption DEF Owned, AnalyzedFlows, DefinedFlows
<1>9. <<e.parent, e.child>> \in Edges(<<request.flow, b>>)
  BY <1>3, <1>7, <1>8 DEF Edges
<1> QED
  BY <1>1, <1>2, <1>9 DEF Children

LEMMA BuiltDeployable ==
  ASSUME ImplicitFlowUnused, deps \in DependencyLists, DepsOK, VerdictInv, StageInv, BuiltInv
  PROVE  DeployableGraph
<1> DEFINE ofOneKey == {k \in DOMAIN graphs.deploy : \A d, e \in LeadingTo(k) : d.child = e.child}
<1>1. PICK g : g = graphs.deploy
  OBVIOUS
<1>2. PICK O : O = ofOneKey
  OBVIOUS
<1> SUFFICES ASSUME pc = "done", Cyclic(EdgesOf(g) \cap (O \X O))
             PROVE  FALSE
  BY <1>1, <1>2 DEF DeployableGraph
<1>3. PICK b \in BOOLEAN : b = Destructs
  BY DEF Destructs
<1>4. PICK R : R = Listed
  OBVIOUS
<1>5. PICK S : S = Uses(b)
  OBVIOUS
<1>6. Built(g, S, R)
  BY <1>1, <1>3, <1>4, <1>5 DEF BuiltInv, Listed, Destructs
<1>7. R \subseteq Replicas /\ \A r \in R : S[r] = Scope(b, r)
  BY <1>4, <1>5, ListedReplicas DEF Uses, Listed, StageInv, ControlInv
<1>8. PICK C : /\ C # {}
               /\ \A k \in C : k \in O /\ k \in DOMAIN g /\ \E c \in C : c \in g[k].requiredBy
  <2>1. PICK E : E = EdgesOf(g) \cap (O \X O)
    OBVIOUS
  <2>2. PICK C : C # {} /\ \A k \in C : Children(E, k) \cap C # {}
    BY <2>1 DEF Cyclic
  <2>3. ASSUME NEW k \in C
        PROVE  k \in O /\ k \in DOMAIN g /\ \E c \in C : c \in g[k].requiredBy
    <3>1. PICK e \in E : e[1] = k /\ e[2] \in C
      BY <2>2, Zenon DEF Children
    <3> QED
      BY <2>1, <3>1 DEF EdgesOf
  <2> QED
    BY <2>2, <2>3
<1>9. ASSUME NEW k \in O, NEW r \in R, NEW u \in S[r], NEW s \in R, NEW w \in S[s],
             NameOf(u, r) = k, NameOf(w, s) = k
      PROVE  u[1].child = w[1].child
  <2>1. \A t \in R : \A x \in S[t] : NameOf(x, t) = k => x[1] \in LeadingTo(k)
    BY <1>3, <1>4, <1>7 DEF LeadingTo
  <2>2. u[1] \in LeadingTo(k) /\ w[1] \in LeadingTo(k)
    BY <1>9, <2>1
  <2> QED
    BY <1>2, <2>2
<1> DEFINE K == {v \in Keys : \E r \in R : \E u \in S[r] : NameOf(u, r) \in C /\ u[1].child = v}
<1>10. \A r \in R : \A u \in S[r] : u[1].child \in Keys
  BY <1>7, ScopeTypes, GroupedTypes
<1>11. K # {}
  <2>1. PICK k \in C : k \in DOMAIN g
    BY <1>8
  <2>2. PICK r \in R : \E u \in S[r] : NameOf(u, r) = k
    BY <1>6, <2>1 DEF Built
  <2> QED
    BY <1>10, <2>1, <2>2
<1>12. ASSUME NEW v \in K
       PROVE  Children(Edges(<<request.flow, b>>), v) \cap K # {}
  <2>1. PICK r0 \in R : \E u \in S[r0] : NameOf(u, r0) \in C /\ u[1].child = v
    BY <1>12
  <2>2. PICK u0 \in S[r0] : NameOf(u0, r0) \in C /\ u0[1].child = v
    BY <2>1
  <2>3. PICK k \in C : k = NameOf(u0, r0)
    BY <2>2
  <2>4. PICK c \in C : c \in g[k].requiredBy
    BY <1>8
  <2>5. PICK r \in R : \E u, w \in S[r] :
          /\ NameOf(u, r) = k /\ NameOf(w, r) = c
          /\ w[1].parent = u[1].child /\ ~Undefined(u[1])
    BY <1>6, <1>8, <2>4 DEF Built
  <2>6. PICK u \in S[r], w \in S[r] :
          /\ NameOf(u, r) = k /\ NameOf(w, r) = c
          /\ w[1].parent = u[1].child /\ ~Undefined(u[1])
    BY <2>5
  <2>7. u[1].child = v
    BY <1>8, <1>9, <2>2, <2>3, <2>6
  <2>8. w[1].child \in Children(Edges(<<request.flow, b>>), v)
    BY <1>7, <2>6, <2>7, SeenByCheck
  <2>9. w[1].child \in K
    BY <1>10, <2>6
  <2> QED
    BY <2>8, <2>9
<1>13. Cyclic(Edges(<<request.flow, b>>))
  <2> HIDE DEF K
  <2> QED
    BY <1>11, <1>12, CyclicIff
<1>14. <<request.flow, b>> \in Paths /\ Analyzed /\ cycles = {}
  BY RequestFacts DEF StageInv, ControlInv, Paths
<1> QED
  BY <1>13, <1>14, VerdictGives DEF VerdictExact, Paths

LEMMA BuiltDestroys ==
  ASSUME StageInv, BuiltInv
  PROVE  ExclusiveDestroyed
<1>1. PICK f : f = FALSE
  OBVIOUS
<1>2. PICK t : t = TRUE
  OBVIOUS
<1>3. PICK all : all = Range(request.all)
  OBVIOUS
<1>4. PICK gone : gone = Range(request.destruct)
  OBVIOUS
<1>5. PICK g : g = graphs.all
  OBVIOUS
<1>6. PICK h : h = graphs.deploy
  OBVIOUS
<1> SUFFICES ASSUME pc = "done", Destructs, NEW k
             PROVE  /\ k \in Destroyed =>
                         \/ k \in Makes(f, all) /\ k \notin Needs(f, all \ gone)
                         \/ k \in Makes(t, gone)
                    /\ k \in Makes(f, all) /\ k \notin Expects(f, all) /\ k \notin Needs(f, all \ gone) =>
                         k \in Destroyed
                    /\ k \in Makes(t, gone) /\ k \notin Expects(t, gone) => k \in Destroyed
  BY <1>1, <1>2, <1>3, <1>4 DEF ExclusiveDestroyed, Survivors
<1>7. /\ request \in Requests /\ request.destruct # <<>>
      /\ all \in SUBSET Replicas /\ gone \in SUBSET Replicas /\ Range(request.construct) = {}
  BY <1>3, <1>4, ListedReplicas DEF StageInv, ControlInv, Destructs
<1>8. Built(g, Uses(f), all)
  BY <1>1, <1>3, <1>5, <1>7 DEF BuiltInv
<1>9. Built(h, Uses(t), gone)
  <2>1. (request.destruct # <<>>) = TRUE
    BY <1>7
  <2>2. Built(graphs.deploy, Uses(TRUE), Range(request.construct) \cup Range(request.destruct))
    BY <2>1 DEF BuiltInv
  <2>3. Range(request.construct) \cup Range(request.destruct) = gone
    BY <1>4, <1>7
  <2> QED
    BY <1>2, <1>6, <2>2, <2>3
<1>10. k \in Destroyed <=> \/ k \in DOMAIN g /\ g[k].usedIn \subseteq gone /\ ~g[k].existing
                           \/ k \in DOMAIN h /\ h[k].usedIn \subseteq gone /\ ~h[k].existing
  BY <1>4, <1>5, <1>6 DEF Destroyed, CanBeDeleted
<1>11. /\ k \in DOMAIN g <=> k \in Needs(f, all)
       /\ k \in DOMAIN g => \A r : r \in g[k].usedIn <=> r \in all /\ k \in Needs(f, {r})
       /\ k \in DOMAIN g => IF g[k].existing THEN k \in Expects(f, all) ELSE k \in Makes(f, all)
  BY <1>7, <1>8, BuiltNeeds
<1>12. /\ k \in DOMAIN h <=> k \in Needs(t, gone)
       /\ k \in DOMAIN h => \A r : r \in h[k].usedIn <=> r \in gone /\ k \in Needs(t, {r})
       /\ k \in DOMAIN h => IF h[k].existing THEN k \in Expects(t, gone) ELSE k \in Makes(t, gone)
  BY <1>7, <1>9, BuiltNeeds
<1>13. k \in Needs(f, all \ gone) <=> \E r \in all \ gone : k \in Needs(f, {r})
  BY DEF Needs
<1>14. k \in DOMAIN g => (g[k].usedIn \subseteq gone <=> k \notin Needs(f, all \ gone))
  BY <1>11, <1>13
<1>15. k \in DOMAIN h => h[k].usedIn \subseteq gone
  BY <1>12
<1>16. (k \in Makes(f, all) => k \in Needs(f, all)) /\ (k \in Makes(t, gone) => k \in Needs(t, gone))
  BY InNeeds
<1>17. CASE k \in DOMAIN g /\ g[k].existing
  BY <1>10, <1>11, <1>12, <1>14, <1>15, <1>16, <1>17
<1>18. CASE ~(k \in DOMAIN g /\ g[k].existing)
  BY <1>10, <1>11, <1>12, <1>14, <1>15, <1>16, <1>18
<1> QED
  BY <1>17, <1>18

(***************************************************************************)
(* The way from the flow to a block.                                       *)
(***************************************************************************)

\* What NoRepetition calls above
IsAbove(f) ==
  f = [i \in 0 .. Len(blocks) |-> IF i = 0 THEN {} ELSE {RawKey(i)} \cup f[blocks[i].parent]]

AboveInv ==
  \A f : IsAbove(f) =>
    \A i \in 1 .. Len(blocks) : RawKey(i) \notin {request.flow} \cup f[blocks[i].parent]

\* The recursion ends, because parents come before their children.
LEMMA AboveExists ==
  ASSUME StageInv
  PROVE  \E f : IsAbove(f)
<1> DEFINE Body(f, i) == IF i = 0 THEN {} ELSE {RawKey(i)} \cup f[blocks[i].parent]
           Grow(f, n) == [i \in 0 .. n |-> Body(f, i)]
           N == {n \in 0 .. Len(blocks) : ~\E f : f = Grow(f, n)}
<1>1. Len(blocks) \in Nat /\ \A i \in 1 .. Len(blocks) : blocks[i].parent \in 0 .. i - 1
  BY DEF StageInv, ShapeInv
<1>2. ASSUME N # {}
      PROVE  FALSE
  <2>1. N \in SUBSET Nat
    OBVIOUS
  <2>2. PICK n \in N : \A m \in N : n <= m
    <3> HIDE DEF N
    <3> QED
      BY <1>2, <2>1, LeastNatural
  <2>3. n \in 0 .. Len(blocks) /\ ~\E f : f = Grow(f, n)
    OBVIOUS
  <2>4. CASE n = 0
    <3>1. PICK f : f = [i \in 0 .. 0 |-> {}]
      OBVIOUS
    <3>2. f = Grow(f, 0)
      BY <3>1
    <3> QED
      BY <2>3, <2>4, <3>2
  <2>5. CASE n # 0
    <3>1. n - 1 \in 0 .. Len(blocks) /\ n \in Nat /\ n \in 1 .. Len(blocks)
      BY <1>1, <2>3, <2>5
    <3>2. n - 1 \notin N
      BY <2>2, <3>1
    <3>3. PICK f : f = Grow(f, n - 1)
      BY <3>1, <3>2
    <3>4. PICK h : h = Grow(f, n)
      OBVIOUS
    <3>5. \A i \in 0 .. n - 1 : h[i] = f[i]
      <4> HIDE DEF Body
      <4> QED
        BY <3>1, <3>3, <3>4
    <3>6. ASSUME NEW i \in 0 .. n
          PROVE  Body(h, i) = Body(f, i)
      <4>1. i # 0 => blocks[i].parent \in 0 .. n - 1
        BY <1>1, <3>1
      <4> QED
        BY <3>5, <4>1
    <3>7. h = Grow(h, n)
      <4> HIDE DEF Body
      <4> QED
        BY <3>4, <3>6
    <3> QED
      BY <2>3, <3>7
  <2> QED
    BY <2>4, <2>5
<1>3. Len(blocks) \notin N
  BY <1>2
<1>4. Len(blocks) \in 0 .. Len(blocks)
  BY <1>1
<1>5. \E f : f = Grow(f, Len(blocks))
  BY <1>3, <1>4
<1> QED
  BY <1>5 DEF IsAbove

\* A key that comes twice would close a cycle of the graph that has been checked.
LEMMA WalkAbove ==
  ASSUME ImplicitFlowUnused, deps \in DependencyLists, DepsOK, VerdictInv, StageInv, BlocksInv,
         pc \in Fills
  PROVE  AboveInv
<1> SUFFICES ASSUME NEW f, IsAbove(f)
             PROVE  \A i \in 1 .. Len(blocks) : RawKey(i) \notin {request.flow} \cup f[blocks[i].parent]
  BY DEF AboveInv
<1>1. PICK b \in BOOLEAN : b = (pc = "destruct")
  OBVIOUS
<1>2. PICK E : E = Edges(<<request.flow, b>>)
  OBVIOUS
<1>3. Len(blocks) \in Nat /\ \A i \in 1 .. Len(blocks) : blocks[i].parent \in 0 .. i - 1
  BY DEF StageInv, ShapeInv
<1>4. f[0] = {} /\ \A i \in 1 .. Len(blocks) : f[i] = {RawKey(i)} \cup f[blocks[i].parent]
  BY <1>3 DEF IsAbove
<1>5. ASSUME NEW i \in 1 .. Len(blocks), NEW j \in 1 .. Len(blocks),
              blocks[j].dep.parent = blocks[i].dep.child
       PROVE  blocks[j].dep.child \in Children(E, blocks[i].dep.child)
  <2>1. /\ Use(i) \in Scope(b, blocks[i].replica) /\ ~Undefined(Use(i)[1])
        /\ Use(j) \in Scope(b, blocks[j].replica)
        /\ Use(i)[1] = blocks[i].dep /\ Use(j)[1] = blocks[j].dep
    BY <1>1, BlockFacts
  <2>2. blocks[i].replica \in Replicas /\ blocks[j].replica \in Replicas
    <3>1. blocks[i] \in BlockSet /\ blocks[j] \in BlockSet
      BY DEF StageInv, ShapeInv
    <3> QED
      BY <3>1 DEF BlockSet
  <2> QED
    BY <1>2, <1>5, <2>1, <2>2, SeenByCheck
<1>6. ASSUME NEW j \in 1 .. Len(blocks), NEW p \in 0 .. j - 1, p = blocks[j].parent, p # 0
      PROVE  RawKey(j) \in Children(E, RawKey(p))
  <2>1. p \in 1 .. Len(blocks) /\ j # 0
    BY <1>3, <1>6
  <2>2. blocks[j].dep.parent = blocks[p].dep.child
    BY <1>6, BlockFacts
  <2>3. blocks[j].dep.child \in Children(E, blocks[p].dep.child)
    BY <1>6, <1>5, <2>1, <2>2
  <2> QED
    BY <1>6, <2>1, <2>3 DEF RawKey
<1>7. \A p \in 0 .. Len(blocks) : \A k \in f[p] : k = RawKey(p) \/ Children(E, k) \cap f[p] # {}
  <2> DEFINE Linked(j) == \A k \in f[j] : k = RawKey(j) \/ Children(E, k) \cap f[j] # {}
             N == {j \in 0 .. Len(blocks) : ~Linked(j)}
  <2>1. ASSUME N # {}
        PROVE  FALSE
    <3>1. N \in SUBSET Nat
      OBVIOUS
    <3>2. PICK j \in N : \A m \in N : j <= m
      <4> HIDE DEF N
      <4> QED
        BY <2>1, <3>1, LeastNatural
    <3>3. j \in 0 .. Len(blocks) /\ ~Linked(j)
      OBVIOUS
    <3>4. j \in 1 .. Len(blocks)
      BY <1>3, <1>4, <3>3
    <3>5. PICK p \in 0 .. j - 1 : p = blocks[j].parent
      BY <1>3, <3>4
    <3>6. p \in 0 .. Len(blocks) /\ p < j
      BY <1>3, <3>4
    <3>7. Linked(p)
      <4> HIDE DEF Linked
      <4> QED
        BY <3>2, <3>6
    <3>8. f[j] = {RawKey(j)} \cup f[p]
      BY <1>4, <3>4, <3>5
    <3>9. p # 0 => RawKey(j) \in Children(E, RawKey(p))
      BY <1>6, <3>4, <3>5
    <3>10. p = 0 => f[p] = {}
      BY <1>4
    <3> QED
      BY <3>3, <3>7, <3>8, <3>9, <3>10
  <2> QED
    BY <2>1
<1>8. ASSUME NEW C, C # {}, \A k \in C : Children(E, k) \cap C # {}
      PROVE  FALSE
  <2>1. Cyclic(E)
    BY <1>8, CyclicIff
  <2>2. <<request.flow, b>> \in Paths /\ Analyzed /\ cycles = {}
    BY RequestFacts DEF StageInv, ControlInv, Paths
  <2> QED
    BY <1>2, <2>1, <2>2, VerdictGives DEF VerdictExact, Paths
<1>9. ASSUME NEW i \in 1 .. Len(blocks), NEW p \in 0 .. i - 1, p = blocks[i].parent,
             RawKey(i) \in f[p]
      PROVE  FALSE
  <2>1. p \in 0 .. Len(blocks) /\ i \in 0 .. Len(blocks) /\ f[i] = {RawKey(i)} \cup f[p]
    BY <1>3, <1>4, <1>9
  <2>2. p # 0 /\ RawKey(i) \in Children(E, RawKey(p))
    BY <1>4, <1>6, <1>9
  <2>3. PICK C : C = f[i]
    OBVIOUS
  <2>4. ASSUME NEW k \in C
        PROVE  Children(E, k) \cap C # {}
    BY <1>7, <1>9, <2>1, <2>2, <2>3
  <2>5. C # {}
    BY <2>1, <2>3
  <2> QED
    BY <1>8, <2>4, <2>5
<1>10. \A p \in 1 .. Len(blocks) :
        \E r \in 1 .. Len(blocks) : blocks[r].parent = 0 /\ RawKey(r) \in f[p]
  <2> DEFINE Rooted(p) == \E r \in 1 .. Len(blocks) : blocks[r].parent = 0 /\ RawKey(r) \in f[p]
             N == {p \in 1 .. Len(blocks) : ~Rooted(p)}
  <2>1. ASSUME N # {}
        PROVE  FALSE
    <3>1. N \in SUBSET Nat
      OBVIOUS
    <3>2. PICK j \in N : \A m \in N : j <= m
      <4> HIDE DEF N
      <4> QED
        BY <2>1, <3>1, LeastNatural
    <3>3. j \in 1 .. Len(blocks) /\ ~Rooted(j)
      OBVIOUS
    <3>4. f[j] = {RawKey(j)} \cup f[blocks[j].parent]
      BY <1>4, <3>3
    <3>5. PICK p \in 0 .. j - 1 : p = blocks[j].parent
      BY <1>3, <3>3
    <3>6. p # 0
      BY <3>3, <3>4, <3>5
    <3>7. p \in 1 .. Len(blocks) /\ p < j
      BY <1>3, <3>3, <3>6
    <3>8. Rooted(p)
      <4> HIDE DEF Rooted
      <4> QED
        BY <3>2, <3>7
    <3> QED
      BY <3>3, <3>4, <3>5, <3>8
  <2> QED
    BY <2>1
<1>11. ASSUME NEW i \in 1 .. Len(blocks), RawKey(i) = request.flow
       PROVE  FALSE
  <2>1. PICK r \in 1 .. Len(blocks) : blocks[r].parent = 0 /\ RawKey(r) \in f[i]
    BY <1>10
  <2>2. 0 \in 0 .. r - 1 /\ r # 0 /\ i # 0 /\ i \in 0 .. Len(blocks)
    BY <1>3
  <2>3. blocks[r].dep \in ChildDependencies(0)
    BY <2>1, <2>2 DEF BlocksInv
  <2>4. /\ blocks[r].dep.parent = request.flow /\ blocks[i].dep.child = request.flow
        /\ RawKey(r) = blocks[r].dep.child
    BY <1>11, <2>2, <2>3 DEF ChildDependencies, RawKey
  <2>5. RawKey(r) \in Children(E, RawKey(i))
    BY <1>11, <1>5, <2>4
  <2>6. PICK C : C = f[i]
    OBVIOUS
  <2>7. ASSUME NEW k \in C
        PROVE  Children(E, k) \cap C # {}
    BY <1>7, <2>1, <2>2, <2>5, <2>6
  <2>8. C # {}
    BY <2>1, <2>6
  <2> QED
    BY <1>8, <2>7, <2>8
<1> QED
  BY <1>3, <1>9, <1>11

LEMMA AboveGives ==
  ASSUME StageInv, AboveInv
  PROVE  NoRepetition
<1> DEFINE above == CHOOSE f : IsAbove(f)
<1>1. IsAbove(above)
  BY AboveExists
<1>2. DOMAIN blocks = 1 .. Len(blocks)
  BY DEF StageInv, ShapeInv
<1>3. \A i \in DOMAIN blocks : RawKey(i) \notin {request.flow} \cup above[blocks[i].parent]
  BY <1>1, <1>2 DEF AboveInv
<1> QED
  BY <1>3 DEF NoRepetition, IsAbove

LEMMA AboveFrame ==
  ASSUME AboveInv, UNCHANGED <<blocks, request>>
  PROVE  AboveInv'
<1>1. \A i : RawKey(i)' = RawKey(i)
  BY DEF RawKey
<1>2. \A f : IsAbove(f)' = IsAbove(f)
  BY <1>1 DEF IsAbove
<1> QED
  BY <1>1, <1>2 DEF AboveInv

LEMMA NextAbove ==
  ASSUME StageInv, AboveInv, (pc \in Fills => AboveInv)', [Next]_vars
  PROVE  AboveInv'
<1>1. pc' \in Fills \/ blocks' = <<>> \/ UNCHANGED <<blocks, request>>
  <2>1. CASE Analyze \/ Reject \/ UNCHANGED vars
    BY <2>1 DEF Analyze, Reject, vars, buildVars
  <2>2. CASE \E r \in Requests : Accept(r)
    BY <2>2 DEF Accept, Fills
  <2>3. CASE Follow
    <3>1. pc \in Fills /\ UNCHANGED request /\ (pc' = pc \/ UNCHANGED blocks)
      BY <2>3 DEF Follow, Walking
    <3> QED
      BY <3>1
  <2>4. CASE NextBlock \/ (\E k \in Keys : MergeEntry(k)) \/ (\E i \in merging : Merge(i)) \/ NextReplica
    BY <2>4 DEF NextBlock, MergeEntry, Merge, NextReplica
  <2>5. CASE NextFill
    BY <2>5 DEF NextFill
  <2> QED
    BY <2>1, <2>2, <2>3, <2>4, <2>5 DEF Next, Fill
<1>2. CASE pc' \in Fills
  BY <1>2
<1>3. CASE blocks' = <<>>
  <2>1. Len(blocks') = 0
    BY <1>3
  <2> QED
    BY <2>1 DEF AboveInv
<1>4. CASE UNCHANGED <<blocks, request>>
  BY <1>4, AboveFrame
<1> QED
  BY <1>1, <1>2, <1>3, <1>4

(***************************************************************************)
(* The theorems.                                                           *)
(***************************************************************************)

BuildInv ==
  /\ deps \in DependencyLists
  /\ VerdictInv /\ AnalyzerTypes /\ StageInv
  /\ BlocksInv /\ WalkInv /\ FreshInv /\ GraphInv /\ BuiltInv

LEMMA InitBuild ==
  ASSUME Init
  PROVE  BuildInv
<1>1. deps \in DependencyLists /\ AnalyzerTypes
  BY DependenciesAssumption, ArgsAssumption DEF Init, AnalyzerInit, AnalyzerTypes, DepsOK
<1>2. pc = "analyze" /\ graphs = [deploy |-> <<>>, all |-> <<>>]
  BY DEF Init
<1>3. BlocksInv /\ WalkInv /\ FreshInv /\ GraphInv /\ BuiltInv
  BY <1>2 DEF BlocksInv, WalkInv, FreshInv, GraphInv, BuiltInv, Fills
<1>4. VerdictInv
  BY AnalyzerInitInv DEF Init
<1> QED
  BY <1>1, <1>3, <1>4, InitStage DEF BuildInv

LEMMA NextBuild ==
  ASSUME BuildInv, [Next]_vars
  PROVE  BuildInv'
<1>1. CASE UNCHANGED vars
  <2>1. UNCHANGED analyzerVars /\ UNCHANGED <<deps, visited, cycles>>
    BY <1>1 DEF vars, analyzerVars, searchVars
  <2>2. deps' \in DependencyLists /\ AnalyzerTypes'
    BY <2>1 DEF BuildInv, AnalyzerTypes, DepsOK
  <2>3. BlocksInv' /\ WalkInv'
    BY <1>1, SameWalk DEF BuildInv, vars, buildVars, analyzerVars
  <2> QED
    BY <1>1, <2>1, <2>2, <2>3, VerdictFrame, StageFrame, GraphFrame, BuiltFrame DEF BuildInv
<1>2. CASE Next
  <2>1. CASE Analyze
    <3>1. VerdictInv' /\ AnalyzerTypes' /\ deps' = deps
      BY <2>1, AnalyzerStep, AnalyzerTypesStep
         DEF BuildInv, Analyze, AnalyzerNext, Start, VisitVertex, LeaveVertex, AssignRoot,
             AssignChild, CloseComponent, Collect
    <3> QED
      BY <1>2, <3>1, NextStage, NextWalk, NextGraph, NextBuilt DEF BuildInv, AnalyzerTypes
  <2>2. CASE ~Analyze
    <3>1. UNCHANGED analyzerVars
      BY <1>2, <2>2 DEF Next, Reject, Accept, Fill, Follow, NextBlock, MergeEntry, Merge, NextReplica,
                        NextFill
    <3>2. UNCHANGED <<deps, visited, cycles>>
      BY <3>1 DEF analyzerVars, searchVars
    <3>3. deps' \in DependencyLists /\ AnalyzerTypes'
      BY <3>2 DEF BuildInv, AnalyzerTypes, DepsOK
    <3> QED
      BY <1>2, <3>1, <3>3, VerdictFrame, NextStage, NextWalk, NextGraph, NextBuilt
         DEF BuildInv, AnalyzerTypes
  <2> QED
    BY <2>1, <2>2
<1> QED
  BY <1>1, <1>2

LEMMA AlwaysBuild == Spec => []BuildInv
<1>1. Init => BuildInv
  BY InitBuild
<1>2. BuildInv /\ [Next]_vars => BuildInv'
  BY NextBuild
<1> QED
  BY <1>1, <1>2, PTL DEF Spec

LEMMA AlwaysAbove ==
  ASSUME ImplicitFlowUnused
  PROVE  Spec => []AboveInv
<1>1. BuildInv => (pc \in Fills => AboveInv)
  BY WalkAbove DEF BuildInv, AnalyzerTypes
<1>2. Init => AboveInv
  <2> SUFFICES ASSUME Init
               PROVE  Len(blocks) = 0
    BY DEF AboveInv
  <2> QED
    BY DEF Init
<1>3. BuildInv /\ AboveInv /\ (pc \in Fills => AboveInv)' /\ [Next]_vars => AboveInv'
  BY NextAbove DEF BuildInv
<1> QED
  BY <1>1, <1>2, <1>3, AlwaysBuild, PTL DEF Spec

\* Every variable has its type, and the parents of blocks come before them.
THEOREM TypeCorrect == Spec => []TypeOK
<1>1. BuildInv => TypeOK
  BY StageGives DEF BuildInv
<1> QED
  BY <1>1, AlwaysBuild, PTL

\* EnsureNoCycles: whatever the dependencies, detectCycles finds a cycle on a path
\* of a flow exactly if there is one, in whatever order it goes through the maps.
THEOREM VerdictIsExact == Spec => []VerdictExact
<1>1. BuildInv => VerdictExact
  BY VerdictGives DEF BuildInv
<1> QED
  BY <1>1, AlwaysBuild, PTL

\* fillDependencyGraph: the graph has what the scope of the flow needs in the replicas
\* it is filled for, each resource with the replicas that use it, and no more; Requires
\* and RequiredBy say the same; and a resource has metadata for just the parents it is
\* linked to. This takes no assumption on names: one dependency may name several
\* resources, and several keys may have one name.
THEOREM MergeIsComplete == Spec => []MergeLosesNothing
<1>1. BuildInv => MergeLosesNothing
  BY BuiltUse, BuiltMirror, BuiltMeta DEF BuildInv, MergeLosesNothing
<1> QED
  BY <1>1, AlwaysBuild, PTL

\* The walk of fillDependencyGraph meets no key twice on its way down, so that it ends.
THEOREM WalkEnds ==
  ASSUME ImplicitFlowUnused
  PROVE  Spec => []NoRepetition
<1>1. BuildInv /\ AboveInv => NoRepetition
  BY AboveGives DEF BuildInv
<1> QED
  BY <1>1, AlwaysBuild, AlwaysAbove, PTL

\* EnsureNoCycles: as the keys have no cycle, the graph that Deploy follows has none
\* among the resources whose name is that of one key, in whatever replicas and below
\* whatever parents they are met. (For the other names it may: AcyclicGraph.)
THEOREM GraphIsDeployable ==
  ASSUME ImplicitFlowUnused
  PROVE  Spec => []DeployableGraph
<1>1. BuildInv => DeployableGraph
  BY BuiltDeployable DEF BuildInv, AnalyzerTypes
<1> QED
  BY <1>1, AlwaysBuild, PTL

\* getResourceDestructors: what is destroyed was created and is of no surviving replica
\* or of the destruction path, and all that is, save the names of expected resources, is
\* destroyed.
THEOREM DestroysExclusively == Spec => []ExclusiveDestroyed
<1>1. BuildInv => ExclusiveDestroyed
  BY BuiltDestroys DEF BuildInv
<1> QED
  BY <1>1, AlwaysBuild, PTL
=============================================================================
