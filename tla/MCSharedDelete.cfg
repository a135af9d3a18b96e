SPECIFICATION DeleteSpec
CONSTANTS
  MaxProcesses = 3
  processVMSpaceSize = 1
  numOfClusters = 1
  MAX_PMT_TABLES = 3
  MAX_PMT_ENTRIES = 1
  a = a
  b = b
  s = s
  Values = {a}
  Junk = junk
  nullptr = nullptr
  wild = wild
  SegmentSizes = {2}
  Image <- MCImage
  MaxQueue = 4
  Names = {s}
INVARIANTS VictimIsReal ListsAgree
PROPERTIES HeadRemovedEverywhere
