SPECIFICATION Spec
CONSTANTS
  Ids <- FourIds
  Requests <- UpAndDown
  MaxTime = 1
  MaxDeployments = 3
  MaxFaults = 1
  MaxStops = 1
INVARIANT TypeOK
INVARIANT DeployedIntact
INVARIANT CountReached
PROPERTY RecordOutlivesResource
CHECK_DEADLOCK FALSE
