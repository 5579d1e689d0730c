SPECIFICATION GenSpec
CONSTANTS
  NumTables = 2
  MiniBatch = 2
  NumPacks = 3
  Layouts <- TwoTableLayouts
  LookupCounts = {0, 1}
  InstPerBuf = 4
  FeaturesPerBuf = 3
  Dividers = {1}
INVARIANTS
  OwnTables
