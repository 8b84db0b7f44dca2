SPECIFICATION PartsSpec
CONSTANTS
  x1 = x1
  x2 = x2
  User = User
  NoOne = NoOne
  p1 = p1
  p2 = p2
INVARIANT PartsTypeOK
INVARIANT OneAuthor
INVARIANT NothingLeftBehind
INVARIANT StreamsInOrder
PROPERTY EndsAreFinal
CHECK_DEADLOCK FALSE
