SPECIFICATION FairSpec
CONSTANTS
  DiskCapacity = 4
  ReadSize = 2
  ReplayBudget = 2
  Watcher = TRUE
  MaxOutput = 3
  MaxIncarnations = 2
  MaxStops = 1
  MaxFaults = 1
  None = None
INVARIANTS ScreenIsFaithful ExitIsOwn PumpSurvives
PROPERTIES LastLookFinds EndIsNoticed
CHECK_DEADLOCK FALSE
