\* Every kind, with and without a definition; two workers with two attempts each
\* may own the object, and one thing may go wrong.
SPECIFICATION Spec
CONSTANTS
  Size = 3
  Lists <- PodsAndJobs
  KindNames <- AllKinds
  Workers = {w1, w2}
  Attempts = 2
  AllowDeleteExternalResources = FALSE
  MaxFaults = 1
INVARIANT TypeOK
INVARIANT DoneMeansServed
INVARIANT RaceLeavesObject
INVARIANT HealthyKept
PROPERTY Converges
