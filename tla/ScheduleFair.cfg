SPECIFICATION FairSpec
CONSTANTS
  Id = {s1, s2}
  Driver = {d1}
  Timing <- Once
  None = None
  OwnerLimit = 1
  MaxAutomatic = 1
  RetryBase = 1
  RetryMax = 2
  Horizon = 1
  MaxStop = 1
  MaxRevision = 2
  MaxGeneration = 0
INVARIANTS
  QuotaHolds
PROPERTIES
  DueIsHandled
CHECK_DEADLOCK FALSE
