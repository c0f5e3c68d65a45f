SPECIFICATION FairSpec
CONSTANTS
  Clients = {c1}
  MaxOutput = 3
  Screen <- SpinnerScreen
  Modes <- AltScreen
  MaxResizes = 1
  MaxRespawns = 0
  MaxAttaches = 1
  None = None
PROPERTY SinksBecomeCurrent
CHECK_DEADLOCK FALSE
