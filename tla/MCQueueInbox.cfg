SPECIFICATION PartsSpec
CONSTANTS
  m1 = m1
  m2 = m2
  Subs = {m1, m2}
  Pump = pump
  NoOp = none
  MaxFence = 2
  MaxAttempt = 2
  Hazards = {"drain", "transition", "timeout", "thin lease", "frame"}
  Scenes <- MCScenes
  Committers = {c1}
  Posters = {poster}
  SdkThreads = {t1, t2}
  Stopper = stopper
  Supervisor = supervisor
  NoOne = nobody
  Capacity = 2
  BatchSize = 2
  MaxEvents = 2
  MayFail = TRUE
  MayStop = TRUE
SYMMETRY ThreadSymmetry
CHECK_DEADLOCK FALSE
INVARIANTS AtMostOnce OutcomesAreFacts RowsAgree ReceiptsAccounted SdkOrder CommitHonest
PROPERTIES PumpOrder
