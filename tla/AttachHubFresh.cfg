SPECIFICATION Spec
CONSTANTS
  Clients = {c1, c2}
  MaxOutput = 2
  Screen <- FreshScreen
  Modes <- AltScreen
  MaxResizes = 2
  MaxRespawns = 1
  MaxAttaches = 2
  None = None
SYMMETRY ClientSymmetry
INVARIANTS SinkIsServed SinkIsCurrent
CHECK_DEADLOCK FALSE
