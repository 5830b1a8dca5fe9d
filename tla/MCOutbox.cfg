SPECIFICATION FairSpec
CONSTANTS
  card = card
  begin = begin
  end = end
  Sources = {card, begin, end}
  Stable = {card}
  Key <- MCKey
  Session <- MCOneSession
  Parts <- MCParts
  Final <- MCFinal
  MaxTransient = 2
  MaxEvents = 2
  MaxReplays = 1
  MaxCrashes = 1
  MaxFaults = 1
  Faults = {"limited", "transient", "lost", "permanent", "local"}
  None = None
CHECK_DEADLOCK FALSE
INVARIANTS NoDuplicate ThreadIsTrue
PROPERTIES Empties
