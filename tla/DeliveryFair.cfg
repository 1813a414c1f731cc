SPECIFICATION FairSpec
CONSTANTS
  Message = {m1, m2}
  Driver = {d1}
  Native = {m1}
  None = None
  MaxPending = 1
  MaxAutomatic = 1
  Attempt = 1
  RetryBase = 1
  RetryMax = 2
  Poll = 1
  Lifetime = 2
  Horizon = 3
  MaxStop = 1
  MaxRecovery = 1
  MaxTurn = 1
INVARIANTS
  TypeOK
  AcceptedFits
PROPERTIES
  AcceptedEnds
CHECK_DEADLOCK FALSE
