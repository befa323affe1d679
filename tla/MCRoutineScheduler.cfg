SPECIFICATION FairSpec
CONSTANTS
  Routines <- MCRoutines
  DependsOn <- MCDependsOn
  Kind <- MCKind
  Interval = 2
  CronPeriod = 2
  Jitter <- MCJitter
  Window <- MCWindow
  MaxFires <- MCMaxFires
  Cap <- MCCap
  MaxAttempts = 2
  PauseAfter = 2
  GuardAge = 2
  ScanLimit = 1
  Timed <- MCTimed
  MaxTime = 3
  MaxRuns = 4
  MaxFaults = 1
  MaxEdits = 1
INVARIANTS TypeOK NoStackedRuns SpacedFires DependentsWait RunningIsOwned PauseEarned
PROPERTIES RunsTerminate
CHECK_DEADLOCK FALSE
