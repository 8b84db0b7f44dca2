SPECIFICATION FairSpec
CONSTANTS
  w1 = w1
  w2 = w2
  Tasks <- TwoTasks
  Reservations <- WithRetry
  Pauses <- InputOnly
  MaxEntries = 1
  MaxInputs = 2
  MaxQuestions = 1
  MaxReserved = 1
PROPERTY InputIsTaken
PROPERTY AnswerContinued
PROPERTY StopEnds
CHECK_DEADLOCK FALSE
