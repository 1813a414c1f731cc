SPECIFICATION Spec
CONSTANTS
  Message = {m1, m2}
  Driver = {d1, d2}
  Native = {m1}
  None = None
  MaxPending = 2
  MaxAutomatic = 2
  Attempt = 1
  RetryBase = 1
  RetryMax = 2
  Poll = 1
  Lifetime = 2
  Horizon = 2
  MaxStop = 1
  MaxRecovery = 0
  MaxTurn = 1
SYMMETRY Symmetry
INVARIANTS
  OneSubmitter
  SourceIsTrue
PROPERTIES
  HandsOver
CHECK_DEADLOCK FALSE
