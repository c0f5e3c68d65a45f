SPECIFICATION Spec
CONSTANTS
  MaxCommands = 3
  MaxLaunches = 2
  MaxAsides = 1
  MaxFaults = 2
INVARIANTS OneHolder LaunchIsRecovered AnswerIsLive
CHECK_DEADLOCK FALSE
