SPECIFICATION FairSpec
CONSTANTS
  n1 = n1
  n2 = n2
  n3 = n3
  n4 = n4
  Nodes = {n1, n2, n3, n4}
  Edges <- Diamond
  Full = 1
  Need <- AllFull
  Ask <- AskFull
  OnErrorEdges <- Empty
  Policy <- IgnoreAllSecond
  Attempts <- Once
  Concurrency = 1
  Existing <- Empty
  AllowDeleteExternalResources = FALSE
  PodBacked <- Empty
  AlwaysCreate <- Empty
  Preexisting <- Empty
  Stuck <- Second
  MayTimeOut <- Second
  MaxFaults = 0
  MayStop = FALSE
INVARIANT OnceOnly
INVARIANT SuccessMeansReady
PROPERTY DeployTerminates
