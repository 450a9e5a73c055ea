SPECIFICATION Spec
CONSTANTS
  C = C
  D = D
  i = i
  j = j
  Community = {C, D}
  Agent = {i, j}
  Text = {"", "********", "default", "old", "form", "cli", "commas", "split", "persona"}
  None = None
  Malformed = Malformed
  Starts <- MCStarts
  MaxOutside = 1
  MaxKeys = 2
  MaxEdits = 1
INVARIANTS
  CliAgrees
  ShowsOwnChanges
PROPERTIES
  EditKeepsTheRest
CHECK_DEADLOCK FALSE
