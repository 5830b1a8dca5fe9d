SPECIFICATION InboxFairSpec
CONSTANTS
    Committers = {c1, c2}
    Posters = {}
    SdkThreads = {t1}
    c1 = c1
    c2 = c2
    t1 = t1
    Stopper = Stopper
    Supervisor = Supervisor
    NoOne = NoOne
    Capacity = 2
    BatchSize = 1
    MaxEvents = 0
    MayFail = TRUE
    MayStop = FALSE
CHECK_DEADLOCK FALSE
PROPERTY EveryCommitAnswered
