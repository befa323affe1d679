SPECIFICATION Spec
CONSTANTS
  w1 = w1
  w2 = w2
  c1 = c1
  c2 = c2
  Loops <- TwoLoops
  Callers <- TwoCallers
  NumTasks = 2
  MaxOps = 2
  MaxCrashes = 1
SYMMETRY Symmetry
INVARIANTS TypeOK BlockersFirst GrantedOnce LoopsStartOnce BoardUnblocks
CHECK_DEADLOCK FALSE
