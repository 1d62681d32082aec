\* A flow with one or two attempts in a graph deployed with an absolute or a
\* relative number of replicas; one failure and one crash anywhere.
SPECIFICATION Spec
CONSTANTS
  MaxReplicas = 3
  Resources = {a, b}
  MaxAttempts = 2
  MaxFaults = 1
  MaxRestarts = 1
INVARIANTS
  OneReplica
  DependentAfterFlow
  NoOrphans
PROPERTY
  FlowEnds
CHECK_DEADLOCK FALSE
