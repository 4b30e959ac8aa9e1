CONSTANTS
  big = big
  small = small
  Nodes <- MCNodes
  Capacity <- MCCapacity
  Concurrency <- MCConcurrency
  Attempts = {a1, a2, a3}
  MaxStart = 1
  MaxClock = 2
  MaxDuration = 2
  MaxDemand = 1
  NoDispatch = none
SYMMETRY MCSymmetry
SPECIFICATION Spec
INVARIANTS
  CapacityRespected
  BooksAgree
PROPERTIES
  IntervalsStand
  ImplementsPort
CHECK_DEADLOCK FALSE
