\* Two replicas, of which one is destructed, without failures or interruptions.
SPECIFICATION Spec
CONSTANTS
  Ids <- FourIds
  Requests <- UpAndDown
  MaxTime = 1
  MaxDeployments = 2
  MaxFaults = 0
  MaxStops = 0
INVARIANT SharedResourceKept
CHECK_DEADLOCK FALSE
