SPECIFICATION Spec
CONSTANTS
  None = None
  t1 = t1
  t2 = t2
  t3 = t3
  Tasks = {t1, t2}
  Age <- InOrder
  Timestamp <- TwoSeconds
  Version <- Versions
  Invalid <- Nothing
  MaxRuns = 3
  MaxCrashes = 0
  MaxFaults = 0
  MaxWithdrawn = 0
INVARIANT NoTaskLost
CHECK_DEADLOCK FALSE
