SPECIFICATION StreamSpec
CONSTANTS
  MaxOutput = 3
  Screen <- SpinnerScreen
  LogCapacity = 2
  ReplayBudget = 1
  MaxOutbound = 6
  PersistInterval = 2
  MaxLosses = 2
  MaxRestarts = 0
  MaxResizes = 1
  NoCells = NoCells
INVARIANTS LogIsFaithful DeltasExtendTheMirror QuiescentMirrorIsCurrent ExitIsTruthful
CHECK_DEADLOCK FALSE
