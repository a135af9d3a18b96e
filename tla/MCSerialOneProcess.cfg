SPECIFICATION SerialSpec
CONSTANTS
  MaxProcesses = 1
  processVMSpaceSize = 2
  numOfClusters = 3
  MAX_PMT_TABLES = 3
  MAX_PMT_ENTRIES = 2
  a = a
  b = b
  Values = {a, b}
  Junk = junk
  nullptr = nullptr
  wild = wild
  SegmentSizes = {3}
  Image <- MCImage
  MaxQueue = 0
INVARIANTS ResidencyInv NothingLost CodeIsAsLoaded ClustersOwned QueuedOnce NeverPagedOutEarly
PROPERTIES ActsAsMemory ReplacesOldest
