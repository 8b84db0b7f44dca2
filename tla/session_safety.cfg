SPECIFICATION Spec
CONSTANTS
  m1 = m1
  m2 = m2
  m3 = m3
  Msgs <- ThreeMsgs
  UserMsgs <- FromUser
  IsRoot = TRUE
  TurnLimit = 2
  MaxSteps = 3
  MaxCrashes = 1
SYMMETRY RuntimeSymmetry
INVARIANT TypeOK
INVARIANT BatchAccepted
INVARIANT ExactlyOnce
INVARIANT NothingLost
INVARIANT TranscriptFollowsClaims
INVARIANT EndedHoldsInput
INVARIANT ScopeMatchesLog
CHECK_DEADLOCK FALSE
