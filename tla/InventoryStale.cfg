SPECIFICATION Spec
CONSTANTS
  c1 = c1
  c2 = c2
  p = p
  q = q
  Resources = {p}
  Callers = {c1}
  Gatekeeper = {c1}
  Key <- MCKey
  MaxReflectors = 1
  MaxVersion = 1
  MaxEvents = 2
  MaxCalls = 3
  NoEvent = NoEvent
  NoEntry = NoEntry
  NoSnapshot = NoSnapshot
CHECK_DEADLOCK FALSE
INVARIANT
  ServedInventoryIsCurrent
