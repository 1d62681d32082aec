SPECIFICATION Spec
CONSTANTS
  Params = {"p"}
  Malformed = Malformed
  Pods = {p1, p2}
  Home = p1
  Commands <- LenientCommands
  HandWritten <- NoConfigs
  Flows <- LenientFlows
  MaxCommands = 2
  MaxChanges = 1
  MaxFaults = 1
INVARIANT UndeclaredArgsKept
CHECK_DEADLOCK FALSE
