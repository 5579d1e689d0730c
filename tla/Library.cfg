SPECIFICATION LibrarySpec
CONSTANTS
  Unused = Unused
  NumTables = 3
  MiniBatch = 3
  NumPacks = 3
  Layouts <- ThreeTableLayouts
  LookupCounts = {1, 3}
  InstPerBuf = 4
  FeaturesPerBuf = 3
  Dividers = {1, 2}
  Procs = {p1, p2, p3}
  Started = {p1, p2}
  NoProc = NoProc
  Slots = {1, 2}
  NumRanks = 2
  NumBlocks = 1
  MaxOps = 2
  MaxForks = 1
  MaxDeaths = 1
  BlockWords = 40
  MaxTraces = 2
  ColumnSizes = {8, 11}
  BitSizes = {1, 7, 8, 12, 17, 18}
INVARIANTS
  OperationFits
  OperationSums
  OperationTraces
  RegionsAllocated
  ExclusiveOrShared
  
  SumsLookups
  TablesReadBack
  AccessesMapped
  ScansAgree
PROPERTY
  OperationNoOverwrite
