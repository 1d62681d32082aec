SPECIFICATION Spec
CONSTANTS
  None = None
  Keys <- AllKeys
  FlowKeys <- Flows
  Default = "flow/DEFAULT"
  Definitions <- Defined
  Construction <- ConstructionSelectors
  Destruction <- OnDeleteOnly
  DependencyLists <- SomeDependencies
  Base <- BaseKeys
  Proper <- ProperKeys
  Args <- ArgValues
  Contexts <- Given
  Top = "flow"
  Pass <- Passed
  Replicas <- ReplicaNames
  Name <- Names
  Requests <- ManyRequests
  MaxDependencies = 1
  MaxMissing = 0
INVARIANT DestructionHasPriority
CHECK_DEADLOCK FALSE
