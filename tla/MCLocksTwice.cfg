SPECIFICATION LocksSpec
CONSTANTS
  MaxProcesses = 1
  s = s
  t = t
  Names = {s}
  Calls = 3
INVARIANTS ListedIsKnown
