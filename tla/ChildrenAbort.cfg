SPECIFICATION Spec
CONSTANTS
  Worker = {w}
  Recoverer = {r}
  None = None
  Event = {"abort"}
  MaxEpoch = 2
  Trouble <- OneCall
INVARIANT
  NeverSettlesAcrossChild
CHECK_DEADLOCK FALSE
