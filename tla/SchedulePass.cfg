SPECIFICATION Spec
CONSTANTS
  Id = {s1}
  Driver = {d1, d2}
  Timing <- Recurring
  None = None
  OwnerLimit = 1
  MaxAutomatic = 1
  RetryBase = 1
  RetryMax = 2
  Horizon = 2
  MaxStop = 1
  MaxRevision = 2
  MaxGeneration = 1
SYMMETRY Symmetry
INVARIANTS
  ObligationsAreKept
  OutcomesAreTrue
  FiringsAreExact
  AllowanceIsWhole
PROPERTIES
  CancelIsFinal
CHECK_DEADLOCK FALSE
