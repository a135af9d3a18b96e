SPECIFICATION MainSpec
CONSTANTS
  MaxProcesses = 2
  processVMSpaceSize = 2
  numOfClusters = 6
  MAX_PMT_TABLES = 2
  MAX_PMT_ENTRIES = 6
  a = a
  b = b
  Values = {a, b}
  Junk = junk
  nullptr = nullptr
  wild = wild
  SegmentSizes = {}
  Image <- MCImage
  MaxQueue = 0
  SegmentSize = 1
  DataSegments = 2
  Instructions = 2
INVARIANTS NothingLost
