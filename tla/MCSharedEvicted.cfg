SPECIFICATION SharedSpec
CONSTANTS
  MaxProcesses = 2
  processVMSpaceSize = 1
  numOfClusters = 3
  MAX_PMT_TABLES = 2
  MAX_PMT_ENTRIES = 2
  a = a
  b = b
  s = s
  Values = {a}
  Junk = junk
  nullptr = nullptr
  wild = wild
  SegmentSizes = {2}
  Image <- MCImage
  MaxQueue = 0
  Names = {s}
INVARIANTS MappedAlike
