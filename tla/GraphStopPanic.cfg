SPECIFICATION Spec
CONSTANTS
  n1 = n1
  n2 = n2
  n3 = n3
  n4 = n4
  Nodes = {n1, n2}
  Edges <- Pair
  Full = 1
  Need <- AllFull
  Ask <- AskFull
  OnErrorEdges <- Empty
  Policy <- NoPolicy
  Attempts <- Once
  Concurrency = 0
  Existing <- Empty
  AllowDeleteExternalResources = FALSE
  PodBacked <- Empty
  AlwaysCreate <- Empty
  Preexisting <- Empty
  Stuck <- Empty
  MayTimeOut <- Empty
  MaxFaults = 0
  MayStop = TRUE
INVARIANT NoSendOnClosed
