CONSTANTS
  Tasks <- MCTasks
  NoTask = 0
  Ports = {"a", "b"}
  Types = {"x", "y"}
  Submissions <- MCWorkflows
  Nodes <- MCNodes
  Resources = {"cpu", "gpu"}
  Scenes <- MCScenes
SPECIFICATION PreflightSpec
INVARIANTS
  IndexInOrder
  LevelsTight
  CyclicIsCyclic
  VerdictIsRight
PROPERTIES
  PreflightEnds
CHECK_DEADLOCK FALSE
