CONSTANTS
  MCSize = 2
  Tasks <- MCTasks
  Ports <- MCPorts
  Workflows <- MCWorkflows
  Nodes = {n1}
  NoNode = none
  MaxAttempts = 3
  MaxTime = 2
  VirtualTime = FALSE
  Faulty = TRUE
SPECIFICATION FairSpec
PROPERTIES
  RunEnds
CHECK_DEADLOCK FALSE
