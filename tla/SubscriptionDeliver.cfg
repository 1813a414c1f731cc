SPECIFICATION Spec
CONSTANTS
  None = None
  Wants <- MCWants
  Sub = {s1}
  Event = {e1}
  Config = {c2}
  Once = {c2}
  Sourced = {c2}
  Driver = {d1, d2}
  Sender = {d1, d2}
  Envelope = {v1, v2}
  BatchSize = 1
  MaxTombstones = 1
  MaxAutomatic = 2
  MaxSequence = 2
  MaxRecovery = 1
  MaxFault = 2
SYMMETRY Symmetry
INVARIANTS
  DeliveryIsTrue
  AllowanceIsWhole
CHECK_DEADLOCK FALSE
