SPECIFICATION Spec
CONSTANTS
  C = C
  D = D
  i = i
  j = j
  None = None
  Community = {C, D}
  Id = {i, j}
  Trees <- MCTrees
  Usable <- MCUsable
  MayHeal = FALSE
  MaxRuns = 4
INVARIANTS
  NothingIsLost
  DeletedStaysDeleted
  OneIdentityOnce
  KeyIsItsOwn
  DoneMeansMoved
CHECK_DEADLOCK FALSE
