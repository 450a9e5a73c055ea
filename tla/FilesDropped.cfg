SPECIFICATION Spec
CONSTANTS
  u = u
  v = v
  w = w
  d = d
  X = X
  Y = Y
  None = None
  Torn = Torn
  Process = {u}
  Kind <- MCKind
  Secret = {X, Y}
  Mcp = {}
  Adds <- Nothing
  Drops <- DropsX
  MayTear = FALSE
  MayLosePower = FALSE
INVARIANTS
  InterruptedSaveIsHarmless
CHECK_DEADLOCK FALSE
