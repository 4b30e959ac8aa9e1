CONSTANTS
  MaxTurns = 4
  Actions = {"message", "confirm", "restart"}
  None = None
SPECIFICATION Spec
INVARIANTS
  CompiledIsAgreed
CHECK_DEADLOCK FALSE
