\* The flow becomes ready, but the timeout of the first attempt comes first.
SPECIFICATION Spec
CONSTANTS
  MaxReplicas = 3
  Resources = {a}
  MaxAttempts = 2
  MaxFaults = 0
  MaxRestarts = 0
INVARIANT
  CreatedFlowIsThere
CHECK_DEADLOCK FALSE
