CONSTANTS
  MCSize = 4
  Tasks <- MCTasks
  Ports <- MCPorts
  Workflows <- MCWorkflows
SPECIFICATION TaskFairSpec
INVARIANTS
  ParentsFirst
  NoLostRelease
  FailureContained
  InputsMaterialized
  NoStrandedTask
PROPERTIES
  ResultsFinal
  EventuallyResolved
