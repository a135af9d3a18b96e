SPECIFICATION ApiSpec
CONSTANTS
  MaxProcesses = 1
  processVMSpaceSize = 1
  numOfClusters = 2
  MAX_PMT_TABLES = 2
  MAX_PMT_ENTRIES = 2
  a = a
  b = b
  Values = {a, b}
  Junk = junk
  nullptr = nullptr
  wild = wild
  SegmentSizes = {1}
  Image <- MCImage
  MaxQueue = 0
INVARIANTS NothingLost
