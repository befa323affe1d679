SPECIFICATION FairSpec
CONSTANTS
  Callers = {"c1", "c2"}
  Permits = 1
  MaxRestarts = 2
  MaxUpsets = 1
INVARIANTS TypeOK AnswersMatch RestartsBounded ProcessesHeld AtMostTwice
PROPERTIES CallsReturn
CHECK_DEADLOCK FALSE
