SPECIFICATION PartsSpec
CONSTANTS
  Commands = {edit}
  MaxProjects = 2
  MaxVersions = 3
  Casts <- MCCasts
  MaxRuntimes = 2
  MaxGen = 2
  MaxProc = 2
  MaxFaults = 1
CHECK_DEADLOCK FALSE
INVARIANTS OneSession OneHandle DeletedForGood ConfigIsTrue
