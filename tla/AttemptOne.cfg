SPECIFICATION Spec
CONSTANTS
  None = None
  Worker = {w1, w2}
  Recoverer = {r1}
  Rows = 1
  MaxEpoch = 3
  MaxRefresh = 8
  MaxForeign = 0
  MaxFault = 1
  MaxSweep = 1
  Choice = {"SafeToRetry", "abort"}
SYMMETRY Symmetry
INVARIANTS
  SettlementIsCanonical
  RunsToolOnce
  CompletionIsWhole
  MarkerFollowsHistory
  SettlementEndsTheRun
  HistoryIsFenced
CHECK_DEADLOCK FALSE
