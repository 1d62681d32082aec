SPECIFICATION Spec
CONSTANTS
  None = None
  t1 = t1
  t2 = t2
  t3 = t3
  Tasks = {t1, t2}
  Age <- InOrder
  Timestamp <- OneSecond
  Version <- LongerVersions
  Invalid <- Nothing
  MaxRuns = 2
  MaxCrashes = 0
  MaxFaults = 0
  MaxWithdrawn = 0
INVARIANT ChronologicalQueue
CHECK_DEADLOCK FALSE
