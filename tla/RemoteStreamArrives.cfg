SPECIFICATION FairStreamSpec
CONSTANTS
  MaxOutput = 2
  Screen <- FlatScreen
  LogCapacity = 4
  ReplayBudget = 2
  MaxOutbound = 12
  PersistInterval = 2
  MaxLosses = 3
  MaxRestarts = 1
  MaxResizes = 0
  NoCells = NoCells
PROPERTIES ExitIsReported OutputArrives
CHECK_DEADLOCK FALSE
