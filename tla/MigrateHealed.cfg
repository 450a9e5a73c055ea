SPECIFICATION Spec
CONSTANTS
  C = C
  D = D
  i = i
  j = j
  None = None
  Community = {C, D}
  Id = {i, j}
  Trees <- OneAgent
  Usable <- MCUsable
  MayHeal = TRUE
  MaxRuns = 3
INVARIANTS
  DoneMeansMoved
CHECK_DEADLOCK FALSE
