SPECIFICATION Spec
CONSTANTS
  w1 = w1
  w2 = w2
  Tasks <- TwoTasks
  Reservations <- Commands
  Pauses <- Needs
  MaxEntries = 2
  MaxInputs = 2
  MaxQuestions = 1
  MaxReserved = 1
SYMMETRY TaskSymmetry
INVARIANT TypeOK
INVARIANT Ownership
INVARIANT OneDriver
INVARIANT StopIsQuiet
INVARIANT QuestionHasScope
CHECK_DEADLOCK FALSE
