SPECIFICATION PartsSpec
CONSTANTS
  p22 = p22
  p2222 = p2222
  k1 = k1
  k2 = k2
  c1 = c1
  c2 = c2
  n1 = n1
  n2 = n2
  o1 = o1
  r1 = r1
  r2 = r2
  NoOne = NoOne
  Callers <- TwoCallers
  Keys <- OneKey
  MaxCalls = 3
  MaxFaults = 1
VIEW Seen
INVARIANT PartsTypeOK
INVARIANT SlotHasLeader
INVARIANT NoRedundantHandshake
INVARIANT NothingLost
INVARIANT ReportsTheTruth
PROPERTY NeverDisplaced
PROPERTY SettledStays
CHECK_DEADLOCK FALSE
