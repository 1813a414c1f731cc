SPECIFICATION Spec
CONSTANTS
  Thread = {t1}
  Submission = {s1, s2, s3}
  Key = {k1, k2, k3}
  Group = {}
  Origin = {"assignment"}
  Outcome = {"completed"}
  Call = {}
  None = None
  MaxEpoch <- TwoClaims
  JoinLimit = 2
SYMMETRY Symmetry
INVARIANTS
  JoinsAreAnchored
  StopIsComplete
PROPERTIES
  KeepsPromise
CHECK_DEADLOCK FALSE
