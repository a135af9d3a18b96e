SPECIFICATION CloneSpec
CONSTANTS
  MaxProcesses = 2
  processVMSpaceSize = 2
  numOfClusters = 5
  MAX_PMT_TABLES = 3
  MAX_PMT_ENTRIES = 2
  a = a
  b = b
  Values = {a}
  Junk = junk
  nullptr = nullptr
  wild = wild
  SegmentSizes = {1, 2}
  Image <- MCImage
  MaxQueue = 0
  MaxBehind = 2
PROPERTIES AddressSpaceCloned
