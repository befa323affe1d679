SPECIFICATION Spec
CONSTANTS
  Routines <- MCRoutines
  DependsOn <- MCDependsOn
  Kind <- MCKind
  Interval = 2
  CronPeriod = 2
  Jitter <- MCJitter
  Window <- MCWindow
  MaxFires <- MCMaxFires
  Cap <- MCCap
  MaxAttempts = 2
  PauseAfter = 2
  GuardAge = 2
  ScanLimit = 1
  Timed <- MCTimed
  MaxTime = 3
  MaxRuns = 4
  MaxFaults = 0
  MaxEdits = 0
PROPERTIES PauseSticks

CHECK_DEADLOCK FALSE
