SPECIFICATION FairSpec
CONSTANTS
  k1 = k1
  c1 = c1
  c2 = c2
  p1 = p1
  p2 = p2
  x1 = x1
  User = User
  NoOne = NoOne
PROPERTY CallsEnd
PROPERTY StopsEnd
CHECK_DEADLOCK FALSE
