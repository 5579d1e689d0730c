SPECIFICATION Spec
CONSTANTS
  h1 = h1  h2 = h2  h3 = h3  p1 = p1  p2 = p2  u1 = u1  u2 = u2
  Hosts = {h1, h2}
  NoHost = NoHost
  Procs = {p1}
  ProcOf <- OneProcess
  Cunits = {u1}
  Packs <- OnePack
  NumBufs = 2
  NumRows = 6
  Align = 2
  DummyRow = 4
  Shapes <- ShortShapes
  TagKinds = {FALSE}
  MaxOps = 1
  MaxThrows = 0
  MaxCrashes = 0
INVARIANTS
  ModifiedPartZeroed
