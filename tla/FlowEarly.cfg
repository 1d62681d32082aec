\* The dependent's first look comes before Create has stored the graph.
SPECIFICATION Spec
CONSTANTS
  MaxReplicas = 2
  Resources = {a}
  MaxAttempts = 1
  MaxFaults = 0
  MaxRestarts = 0
INVARIANT
  DependentNeverEarly
CHECK_DEADLOCK FALSE
