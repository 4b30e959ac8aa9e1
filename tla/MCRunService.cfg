CONSTANTS
  Runs = {r1, r2}
  Readers = {q1}
  Traced = {r1}
  Fragile = {"response"}
  NoOne = NoOne
SPECIFICATION Spec
INVARIANTS
  AnswersAreTrue
  ArchiveIsTrue
PROPERTIES
  EveryRunIsFinalized
CHECK_DEADLOCK FALSE
