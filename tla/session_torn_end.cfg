SPECIFICATION Spec
CONSTANTS
  m1 = m1
  m2 = m2
  m3 = m3
  Msgs <- TwoMsgs
  UserMsgs <- FromUser
  IsRoot = TRUE
  TurnLimit = 2
  MaxSteps = 2
  MaxCrashes = 1
INVARIANT Recoverable
CHECK_DEADLOCK FALSE
