SPECIFICATION FairSpec
CONSTANTS
  Feeders = {f1}
  IdleConfirmations = 2
  BlockerClearScans = 2
  NeedsInput = {"Permission"}
  SeedStatuses = {"Permission"}
  MaxSignals = 3
  None = None
INVARIANTS BlockerHolds RecordIsReduced
PROPERTIES NoFlicker StartingEnds ExitReachesTheRecord
CHECK_DEADLOCK FALSE
