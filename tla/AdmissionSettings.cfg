SPECIFICATION Spec
CONSTANTS
  a = a
  b = b
  u = u
  Members = {a, b}
  Names = {a, b, u}
  Expressions <- MCExpressions
  NoField = NoField
  NoVerdict = NoVerdict
  NoResponse = NoResponse
CHECK_DEADLOCK FALSE
INVARIANT
  ValidatedExpressionRuns
