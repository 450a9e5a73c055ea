SPECIFICATION Spec
CONSTANTS
  u = u
  v = v
  w = w
  d = d
  X = X
  Y = Y
  None = None
  Torn = Torn
  Process = {u, v, w, d}
  Kind <- CreateKind
  Secret = {X, Y}
  Mcp = {X}
  Adds <- AddsX
  Drops <- DropsX
  MayTear = TRUE
  MayLosePower = TRUE
INVARIANTS
  StateHasSecret
  PairIsOneSave
  SecretsAreAsNew
PROPERTIES
  LoadsSucceed
  SavesSurvivePowerLoss
  EveryoneEnds
CHECK_DEADLOCK FALSE
