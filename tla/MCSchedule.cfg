SPECIFICATION PartsSpec
CONSTANTS
  r1 = r1
  m1 = m1
  m2 = m2
  Managers = {m1, m2}
  Scenes <- MCScenes
  MaxFences = 2
  Capacity = 2
  NoTxn = NoTxn
  Runs = {r1}
  MaxAttempts = 2
  MaxFence = 4
  MaxCrashes = 1
  Restarts = TRUE
CHECK_DEADLOCK FALSE
INVARIANTS PromptOnce SettledAnnounced HandoffSafe
PROPERTIES RunEnds FenceEnds
