SPECIFICATION LocksSpec
CONSTANTS
  MaxProcesses = 3
  s = s
  t = t
  Names = {s}
  Calls = 2
CHECK_DEADLOCK FALSE
INVARIANTS LocksTypeOK OneSegmentPerCreator WaitsMeetTheKernel
PROPERTIES StuckBehindKernel
