SPECIFICATION FairSpec
CONSTANTS
  QueueLimit = 1
  MaxInputs = 2
  MaxFreezes = 1
  MaxLosses = 1
  MaxRestarts = 1
  MaxVisits = 1
INVARIANTS InputIsFaithful FrozenTreeCanWake SizeIsCurrent NoOrphan
PROPERTY KeysArrive
CHECK_DEADLOCK FALSE
