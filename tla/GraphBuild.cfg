SPECIFICATION Spec
CONSTANTS
  None = None
  Keys <- AllKeys
  FlowKeys <- Flows
  Default = "flow/DEFAULT"
  Definitions <- Defined
  Construction <- ConstructionSelectors
  Destruction <- DestructionSelectors
  DependencyLists <- SomeDependencies
  Base <- BaseKeys
  Proper <- ProperKeys
  Args <- ArgValues
  Contexts <- Given
  Top = "flow"
  Pass <- Passed
  Replicas <- ReplicaNames
  Name <- Names
  Requests <- ManyRequests
  MaxDependencies = 3
  MaxMissing = 2
INVARIANT TypeOK
INVARIANT VerdictExact
INVARIANT NoRepetition
INVARIANT MergeLosesNothing
INVARIANT DeployableGraph
INVARIANT ExclusiveDestroyed
CHECK_DEADLOCK FALSE
