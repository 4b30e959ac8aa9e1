CONSTANTS
  Nodes = {1, 2, 3, 4}
  Links = {1, 2, 3, 4, 5, 6, 7}
  From <- MCFrom
  To <- MCTo
  Networks <- MCNetworks
  Tasks = {1, 2}
  Resources = {"cpu", "memory"}
  Problems <- MCProblems
  Kind <- MCKind
  Safe = {1}
  Capabilities <- MCCapabilities
  Whole = 6
  Optimizers = {"heuristic", "greedy", "exhaustive", "plugin"}
  Horizon = 5
  Lies = {"none", "failed", "energy", "short", "unsent", "unreserved", "twice", "forgotten"}
SPECIFICATION Spec
INVARIANTS
  RoutesAreCheapest
  EarliestIsEarliest
  AcceptedIsExecutable
  BuiltInsAreAccepted
  OptimalIsOptimal
CHECK_DEADLOCK FALSE
