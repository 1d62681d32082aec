SPECIFICATION Spec
CONSTANTS
  None = None
  t1 = t1
  t2 = t2
  t3 = t3
  Tasks = {t1, t2, t3}
  Age <- InOrder
  Timestamp <- TwoSeconds
  Version <- Versions
  Invalid <- Unreadable
  MaxRuns = 3
  MaxCrashes = 1
  MaxFaults = 1
  MaxWithdrawn = 1
INVARIANT TypeOK
INVARIANT QueueChronological
INVARIANT OneUnstopped
INVARIANT OneAtATime
INVARIANT DeletedWhenCompleted
CHECK_DEADLOCK FALSE
CONSTRAINT ThreeTasksOrRuns
