SPECIFICATION Spec
CONSTANTS
  e = e
  l = l
  c = c
  d = d
  u = u
  v = v
  h = h
  g = g
  E = E
  L = L
  N = N
  C1 = C1
  CF = CF
  None = None
  Process = {c, d, u, v, h, g}
  Alone = {c, d, u, v}
  Kind <- MCKind
  Config <- MCConfig
  Asked <- MCAsked
  Target <- MCTarget
  Key <- MCKey
  Channel = {C1, CF}
  FleetChannel = CF
  Starts <- MCStarts
  Agents <- MCAgents
INVARIANTS
  NoKeyLeftBehind
  EnabledIsRecorded
  UnmanagedUntouched
  DeletedIsGone
  FlagsAreTrue
  HealedWhenDone
PROPERTIES
  RecordsKeepTheirKey
SYMMETRY HealsAlike
CHECK_DEADLOCK FALSE
