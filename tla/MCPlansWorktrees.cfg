SPECIFICATION PartsSpec
CONSTANTS
  Callers = {c1, c2}
  MaxGen = 2
  MaxFence = 2
  MaxFaults = 1
  Zones <- MCZones
  Crons <- MCCrons
  Intervals = {5}
  Ats = {6, 10}
  Graces = {3}
  MaxClock = 13
  Horizon = 24
  MaxJumps = 1
  MaxToggles = 1
  Lag = 1
  None = None
SYMMETRY Symmetry
CHECK_DEADLOCK FALSE
INVARIANTS GitOnce DirectoryTrue NextIsFirst RunsCoverPlan
