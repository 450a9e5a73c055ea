SPECIFICATION Spec
CONSTANTS
  r = r
  a = a
  b = b
  T1 = T1
  T2 = T2
  T3 = T3
  A1 = A1
  A2 = A2
  A3 = A3
  T4 = T4
  A4 = A4
  R1 = R1
  None = None
  Bad = Bad
  Infinite = Infinite
  TaskId = {T1, T2, T3}
  AttemptId = {A1, A2, A3}
  RunId = {R1}
  Cmd = {}
  Owner = r
  Member <- MCMember
  EventId <- MCEventId
  Fleet <- MCFleet
  Command <- RaceCommands
  Skew <- NoSkew
  MayDelay = TRUE
  Exclusive = {}
  MaxTime = 1
  OpenLimit <- One
  ChainLimit <- ByLimit
  Foreign <- Others
CONSTRAINT
  OneCast
INVARIANTS
  ChainsStayShort
  RepeatsOpenNoAttempt
  ResultIsTheMessage
  ReportSettlesTask
PROPERTIES
  SettledUnlessOvertaken
CHECK_DEADLOCK FALSE
