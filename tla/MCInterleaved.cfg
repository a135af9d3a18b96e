SPECIFICATION Spec
CONSTANTS
  MaxProcesses = 2
  processVMSpaceSize = 1
  numOfClusters = 2
  MAX_PMT_TABLES = 2
  MAX_PMT_ENTRIES = 1
  a = a
  b = b
  Values = {a}
  Junk = junk
  nullptr = nullptr
  wild = wild
  SegmentSizes = {0, 1}
  Image <- MCImage
  MaxQueue = 2
INVARIANTS TypeOK VictimIsReal
