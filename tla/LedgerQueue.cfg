SPECIFICATION Spec
CONSTANTS
  Thread = {t1, t2}
  Submission = {s1, s2}
  Key = {k1, k2}
  Group = {}
  Origin = {"none"}
  Outcome = {"completed", "aborted"}
  Call = {c1}
  None = None
  MaxEpoch <- OneBusyLane
  JoinLimit = 0
SYMMETRY Symmetry
INVARIANTS
  LaneHasOneOwner
  NoOvertaking
  SuspendedAwaitsDecision
PROPERTIES
  DecisionsAreDurable
CHECK_DEADLOCK FALSE
