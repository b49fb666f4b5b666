SPECIFICATION Spec
CONSTANTS
  c1 = c1
  c2 = c2
  p = p
  q = q
  Resources = {p}
  Callers = {c1, c2}
  Gatekeeper = {c1, c2}
  Key <- MCKey
  MaxReflectors = 3
  MaxVersion = 0
  MaxEvents = 3
  MaxCalls = 3
  NoEvent = NoEvent
  NoEntry = NoEntry
  NoSnapshot = NoSnapshot
SYMMETRY MCSymmetry
CHECK_DEADLOCK FALSE
INVARIANTS
  TypeOK
  MissesAtMostOneEvent
  ReadersAreReady
  ReflectorsBoundedByCallers
