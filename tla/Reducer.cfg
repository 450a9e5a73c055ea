SPECIFICATION ReduceSpec
CONSTANTS
  r = r
  a = a
  b = b
  c = c
  o = o
  T1 = T1
  T2 = T2
  A1 = A1
  A2 = A2
  R1 = R1
  K1 = K1
  K2 = K2
  None = None
  Bad = Bad
  Infinite = Infinite
  Length = 4
  TaskId = {T1}
  AttemptId = {A1, A2}
  RunId = {R1}
  Cmd = {K1, K2}
  Member <- MCMember
  EventId <- MCEventId
  Event <- MCEventAll
  Contexts <- MCContexts
INVARIANTS
  StateTyped
  AttemptsSucceedEachOther
  EvidenceIsCurrent
PROPERTIES
  TerminalIsFinal
  ChangesAreEntitled
CHECK_DEADLOCK FALSE
