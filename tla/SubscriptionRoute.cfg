SPECIFICATION Spec
CONSTANTS
  None = None
  Wants <- MCWants
  Sub = {s1, s2}
  Event = {e1, e2}
  Config = {c1, c2}
  Once = {c2}
  Sourced = {}
  Driver = {d1, d2}
  Sender = {d1}
  Envelope = {v1}
  BatchSize = 1
  MaxTombstones = 1
  MaxAutomatic = 1
  MaxSequence = 3
  MaxRecovery = 0
  MaxFault = 0
SYMMETRY Symmetry
INVARIANTS
  RoutedToAll
  EvidenceIsKept
PROPERTIES
  SelectedOnce
CHECK_DEADLOCK FALSE
