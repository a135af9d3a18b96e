SPECIFICATION CloneSpec
CONSTANTS
  MaxProcesses = 3
  processVMSpaceSize = 2
  numOfClusters = 4
  MAX_PMT_TABLES = 2
  MAX_PMT_ENTRIES = 2
  a = a
  b = b
  Values = {a}
  Junk = junk
  nullptr = nullptr
  wild = wild
  SegmentSizes = {2}
  Image <- MCImage
  MaxQueue = 0
  MaxBehind = 2
INVARIANTS NothingLost
