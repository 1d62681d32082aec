SPECIFICATION Spec
CONSTANTS
  n1 = n1
  n2 = n2
  n3 = n3
  n4 = n4
  Nodes = {n1, n2, n3}
  Edges <- Join
  Full = 1
  Need <- AllFull
  Ask <- AskFull
  OnErrorEdges <- Empty
  Policy <- IgnoreMixed
  Attempts <- TwiceFirst
  Concurrency = 2
  Existing <- Empty
  AllowDeleteExternalResources = FALSE
  PodBacked <- Second
  AlwaysCreate <- Empty
  Preexisting <- Empty
  Stuck <- Empty
  MayTimeOut <- First
  MaxFaults = 1
  MayStop = FALSE
INVARIANT TypeOK
INVARIANT DependenciesMet
INVARIANT IgnoreAllClosed
INVARIANT NoSendOnClosed
PROPERTY DeploysInOrder
