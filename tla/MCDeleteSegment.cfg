SPECIFICATION ApiSpec
CONSTANTS
  MaxProcesses = 1
  processVMSpaceSize = 2
  numOfClusters = 2
  MAX_PMT_TABLES = 2
  MAX_PMT_ENTRIES = 2
  a = a
  b = b
  Values = {a}
  Junk = junk
  nullptr = nullptr
  wild = wild
  SegmentSizes = {2}
  Image <- MCImage
  MaxQueue = 3
INVARIANTS WholeSegmentDeleted
