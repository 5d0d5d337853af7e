CHECK_DEADLOCK FALSE
SPECIFICATION FairSpec
CONSTANTS
  Worker = {w1, w2}
  None = None
  MaxCalls = 1
  MaxScreen = 1
INVARIANTS
  TypeOK
  AnswersStayHome
PROPERTIES
  SerialCalls
  TasksEnd
