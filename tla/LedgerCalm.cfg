SPECIFICATION Spec
CONSTANTS
  r = r
  a = a
  b = b
  T1 = T1
  T2 = T2
  T3 = T3
  A1 = A1
  A2 = A2
  A3 = A3
  T4 = T4
  A4 = A4
  R1 = R1
  None = None
  Bad = Bad
  Infinite = Infinite
  TaskId = {T1, T2, T3, T4}
  AttemptId = {A1, A2, A3, A4}
  RunId = {R1}
  Cmd = {}
  Owner = r
  Member <- MCMember
  EventId <- ThreeIds
  Fleet <- MCFleet
  Command <- CalmCommands
  Skew <- SlowOwner
  MayDelay = FALSE
  Exclusive = {r, a}
  MaxTime = 2
  OpenLimit <- One
  ChainLimit <- Two
  Foreign <- OneOther
INVARIANTS
  OpenTasksWithinLimit
  AttemptMessagePostedOnce
  RunHasOneThread
PROPERTIES
CHECK_DEADLOCK FALSE
