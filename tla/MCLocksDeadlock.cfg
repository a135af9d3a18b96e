SPECIFICATION LocksSpec
CONSTANTS
  MaxProcesses = 2
  s = s
  t = t
  Names = {s}
  Calls = 2
CHECK_DEADLOCK FALSE
PROPERTIES DeletedEverywhere
