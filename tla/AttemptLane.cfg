SPECIFICATION FairSpec
CONSTANTS
  None = None
  Worker = {w1}
  Recoverer = {}
  Rows = 2
  MaxEpoch = 4
  MaxRefresh = 8
  MaxForeign = 1
  MaxFault = 1
  MaxSweep = 0
  Choice = {"SafeToRetry", "CompletedWithResult"}
INVARIANTS
  FifoInputOrder
  FifoSettlementOrder
PROPERTY
  EventuallySettled
CHECK_DEADLOCK FALSE
