CONSTANTS
  MCSize = 3
  Tasks <- MCTasks
  Ports <- MCPorts
  Workflows <- MCWorkflows
  Nodes = {n1}
  NoNode = none
  MaxAttempts = 2
  MaxTime = 2
  VirtualTime = TRUE
  Faulty = FALSE
SPECIFICATION Spec
INVARIANTS
  OneOwner
  ContractSafeRetry
  SerialFailFast
  NoMissedCompletion
  CausalTimes
PROPERTIES
  EventOrder
  TaskSpec
CHECK_DEADLOCK FALSE
