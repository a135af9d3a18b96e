SPECIFICATION LocksSpec
CONSTANTS
  MaxProcesses = 2
  s = s
  t = t
  Names = {s}
  Calls = 1
INVARIANTS OneSegmentPerName
