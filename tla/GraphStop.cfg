SPECIFICATION Spec
CONSTANTS
  n1 = n1
  n2 = n2
  n3 = n3
  n4 = n4
  Nodes = {n1, n2, n3}
  Edges <- Fork
  Full = 1
  Need <- AllFull
  Ask <- AskFull
  OnErrorEdges <- OuterEdge
  Policy <- NoPolicy
  Attempts <- TwiceEach
  Concurrency = 2
  Existing <- FirstTwo
  AllowDeleteExternalResources = FALSE
  PodBacked <- Empty
  AlwaysCreate <- LastTwo
  Preexisting <- First
  Stuck <- Empty
  MayTimeOut <- First
  MaxFaults = 1
  MayStop = TRUE
INVARIANT LimiterBalanced
PROPERTY ExternalUntouched
