SPECIFICATION FairSpec
CONSTANTS
  w1 = w1
  w2 = w2
  Tasks <- TwoTasks
  Reservations <- None
  Pauses <- BudgetOnly
  MaxEntries = 1
  MaxInputs = 2
  MaxQuestions = 1
  MaxReserved = 1
PROPERTY InputIsTaken
CHECK_DEADLOCK FALSE
