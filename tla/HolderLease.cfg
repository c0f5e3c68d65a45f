SPECIFICATION FairSpec
CONSTANTS
  Engines = {e1, e2}
  MaxConns = 3
  Strangers = TRUE
  MaxWrites = 3
  InputLimit = 2
  NoConn = NoConn
INVARIANT OneEngineHoldsTheEpoch
PROPERTIES LeaseSpec AttachIsAnswered
CHECK_DEADLOCK FALSE
