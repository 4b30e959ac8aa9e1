CONSTANTS
  MCSize = 2
  Tasks <- MCTasks
  Ports <- MCPorts
  Workflows <- MCWorkflows
  Nodes = {n1, n2}
  NoNode = none
  MaxAttempts = 2
  MaxTime = 2
  VirtualTime = TRUE
  Faulty = TRUE
SPECIFICATION FairSpec
INVARIANTS
  NoInternalError
  NoOrphans
PROPERTIES
  AttemptsEndOnce
  RunEnds
CHECK_DEADLOCK FALSE
