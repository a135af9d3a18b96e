SPECIFICATION CloneSpec
CONSTANTS
  MaxProcesses = 2
  processVMSpaceSize = 2
  numOfClusters = 4
  MAX_PMT_TABLES = 2
  MAX_PMT_ENTRIES = 3
  a = a
  b = b
  Values = {a}
  Junk = junk
  nullptr = nullptr
  wild = wild
  SegmentSizes = {1, 2, 3}
  Image <- MCImage
  MaxQueue = 0
  MaxBehind = 2
INVARIANTS CloneTypeOK IndexCountsGaps VictimIsReal
PROPERTIES CloneIsCopy
