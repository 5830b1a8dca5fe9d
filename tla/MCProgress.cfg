SPECIFICATION PartsSpec
CONSTANTS
  p1 = p1  p2 = p2
  c1 = c1  c2 = c2  c3 = c3
  k1 = k1
  m1 = m1  m2 = m2
  pump = pump
  poster = poster
  thread = thread
  Committers = {c1, c2}
  Posters = {poster}
  SdkThreads = {thread}
  Stopper = stopper
  Supervisor = supervisor
  NoOne = none
  Capacity = 1
  BatchSize = 1
  MaxEvents = 1
  MayFail = FALSE
  MayStop = FALSE
CHECK_DEADLOCK FALSE
PROPERTIES EveryCallAnswered EveryCommitAnswered QueueDrains
