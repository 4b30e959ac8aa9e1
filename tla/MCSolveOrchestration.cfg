CONSTANTS
  Problems = {"p1"}
  OtherProblem = "p2"
  Optimizers <- MCOptimizers
  Id <- MCId
  Formulations = {"F"}
  Supports <- MCSupports
  Default <- MCDefault
  Stateful = {"exact"}
  Keys = {"finite", "infinite"}
  Budget = 1
  MaxClock = 1
  MaxEpochs = 2
  NoFormulation = "none"
  NoOptimizer = "no one"
SPECIFICATION Spec
INVARIANTS
  ReturnedIsValidated
  OutcomesOnce
  NoStackTwice
CHECK_DEADLOCK FALSE
