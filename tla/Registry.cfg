SPECIFICATION Spec
CONSTANTS
  Ids = {s1}
  Resumers = {r1, r2}
  MaxVersion = 2
  MaxSpawns = 1
  MaxRequests = 5
  MaxRestarts = 2
  None = None
INVARIANTS NoGhost NoLostProcess ViewIsCurrent
CHECK_DEADLOCK FALSE
PROPERTIES LiveSessionStays
