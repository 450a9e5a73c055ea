SPECIFICATION Spec
CONSTANTS
  a = a
  b = b
  X = X
  Y = Y
  Key = {a, b}
  Name = {X, Y}
  None = None
  MaxChanges = 3
INVARIANTS
  AnswerFitsTheChannel
  FailsOnlyForCause
SYMMETRY Alike
CHECK_DEADLOCK FALSE
