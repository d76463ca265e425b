SPECIFICATION Spec
CONSTANTS
  Names <- MCNames
  DirName = "d"
  RootSlots = 2
  DirSlots = 1
  FatSectors = 2
  EntriesPerSector = 3
  DataClusters = 4
  SectorsPerCluster = 1
  MaxChunks = 2
  MaxLosses = 0
INVARIANTS
  WrittenReadsBack
CHECK_DEADLOCK FALSE
