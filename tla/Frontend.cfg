SPECIFICATION Spec
CONSTANTS
  Params = {"p"}
  Malformed = Malformed
  Pods = {p1, p2}
  Home = p1
  Commands <- SomeCommands
  HandWritten <- SomeConfigs
  Flows <- SomeFlows
  MaxCommands = 2
  MaxChanges = 1
  MaxFaults = 1
INVARIANT BootstrappedBeforeDeploy
INVARIANT CountAsDocumented
INVARIANT ScheduledLikeInPlace
INVARIANT EveryParameterBound
INVARIANT ParametersReachPods
PROPERTY QueueMoves
CHECK_DEADLOCK FALSE
