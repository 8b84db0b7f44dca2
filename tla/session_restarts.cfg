SPECIFICATION FairSpec
CONSTANTS
  m1 = m1
  m2 = m2
  m3 = m3
  Msgs <- TwoMsgs
  UserMsgs <- FromUser
  IsRoot = TRUE
  TurnLimit = 2
  MaxSteps = 3
  MaxCrashes = 2
PROPERTY BoundariesNest
PROPERTY OnlyToldIsClaimed
PROPERTY RefinesMailbox
PROPERTY Reopens
CHECK_DEADLOCK FALSE
