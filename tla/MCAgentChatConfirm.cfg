CONSTANTS
  MaxTurns = 4
  Actions = {"message", "confirm"}
  None = None
SPECIFICATION Spec
INVARIANTS
  ConfirmedIsCompiled
CHECK_DEADLOCK FALSE
