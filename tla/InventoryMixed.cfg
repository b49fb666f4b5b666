SPECIFICATION FairSpec
CONSTANTS
  c1 = c1
  c2 = c2
  p = p
  q = q
  Resources = {p, q}
  Callers = {c1, c2}
  Gatekeeper = {c1}
  Key <- MCMixedKey
  MaxReflectors = 4
  MaxVersion = 1
  MaxEvents = 1
  MaxCalls = 3
  NoEvent = NoEvent
  NoEntry = NoEntry
  NoSnapshot = NoSnapshot
CHECK_DEADLOCK FALSE
INVARIANT
  NoPartialInventory
PROPERTY
  EvaluationsReturn
