SPECIFICATION Spec
CONSTANTS
  h1 = h1  h2 = h2  p1 = p1  p2 = p2  u1 = u1  u2 = u2
  Hosts = {h1, h2}
  NoHost = NoHost
  Procs = {p1, p2}
  ProcOf <- TwoProcesses
  Cunits = {u1, u2}
  Packs <- OverlappingPacks
  NumRows = 2
  Shapes <- PairShape
  MaxOps = 1
  MaxThrows = 1
  MaxCrashes = 1
INVARIANTS
  ResultsCorrect
PROPERTIES
  UnitReleased
  ImplementsService
