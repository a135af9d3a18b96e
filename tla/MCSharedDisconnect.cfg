SPECIFICATION SharedApiSpec
CONSTANTS
  MaxProcesses = 2
  processVMSpaceSize = 2
  numOfClusters = 2
  MAX_PMT_TABLES = 2
  MAX_PMT_ENTRIES = 2
  a = a
  b = b
  s = s
  Values = {a}
  Junk = junk
  nullptr = nullptr
  wild = wild
  SegmentSizes = {1}
  Image <- MCImage
  MaxQueue = 4
  Names = {s}
INVARIANTS CreatorKeepsFrames
