SPECIFICATION PartsSpec
CONSTANTS
  Settings <- MCSettings
  Callers <- MCCallers
  MaxFaults = 1
  MaxDrift = 1
  Actions = {after, every_day}
  MaxId = 2
  MaxCalls = 3
  MaxTrouble = 2
  MaxOwn = 1
SYMMETRY Alike
CHECK_DEADLOCK FALSE
INVARIANTS SettingsTrue ScheduleIsTrue RegistryTrue
