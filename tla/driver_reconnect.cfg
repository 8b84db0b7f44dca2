SPECIFICATION FairSpec
CONSTANTS
  w1 = w1
  w2 = w2
  Tasks <- TwoTasks
  Reservations <- ReconnectOnly
  Pauses <- None
  MaxEntries = 1
  MaxInputs = 2
  MaxQuestions = 1
  MaxReserved = 1
PROPERTY AnswerContinued
CHECK_DEADLOCK FALSE
