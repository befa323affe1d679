SPECIFICATION Spec
CONSTANTS
  w1 = w1
  w2 = w2
  c1 = c1
  c2 = c2
  Loops <- TwoLoops
  Callers <- OneCaller
  NumTasks = 3
  MaxOps = 0
  MaxCrashes = 0
INVARIANTS DependentsUnblocked
CHECK_DEADLOCK FALSE
