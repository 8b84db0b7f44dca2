SPECIFICATION PartsSpec
CONSTANTS
  None = None
VIEW Seen
INVARIANT PartsTypeOK
INVARIANT DoneOnce
INVARIANT StopsHold
INVARIANT AsPermitted
INVARIANT AnswersAreWhole
PROPERTY StepsInOrder
CHECK_DEADLOCK FALSE
