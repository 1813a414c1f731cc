SPECIFICATION Spec
CONSTANTS
  Worker = {w}
  Recoverer = {r}
  None = None
  Event = {"abort", "expiry", "failure"}
  MaxEpoch = 2
  Trouble <- OneOrTwoCalls
INVARIANTS
  LinksAreTrue
  AccountingIsCanonical
  OwesNoChild
  FindsItsChild
  SleepsOnChildren
PROPERTIES
  DecisionsAreFrozen
CHECK_DEADLOCK FALSE
