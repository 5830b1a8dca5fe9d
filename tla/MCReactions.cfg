SPECIFICATION FairSpec
CONSTANTS
  MaxEvents = 3
  MaxOwnerFence = 2
  Moves = {"resume", "failed"}
  MaxFaults = 1
CHECK_DEADLOCK FALSE
INVARIANTS ReactionIsTrue
PROPERTIES OutcomeShown
