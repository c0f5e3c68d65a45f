SPECIFICATION ManagerSpec
CONSTANTS
  Launchers = {l1, l2}
  Sessions = {s1, s2}
  None = None
  MaxManagers = 2
  MaxLaunches = 3
  MaxShutdowns = 1
  MaxFaults = 1
SYMMETRY Symmetry
INVARIANTS ListenerIsReachable EndsWithoutSessions
CHECK_DEADLOCK FALSE
