SPECIFICATION Spec
CONSTANTS
  h1 = h1  h2 = h2  p1 = p1  p2 = p2
  Hosts = {h1, h2}
  NoHost = NoHost
  Procs = {p1, p2}
  ProcOf <- TwoProcesses
  Threads = {0}
  OutputTypes = {"BitVector", "IndexVector"}
  MaxOps <- TwoAndOne
  MaxThrows = 0
  MaxCrashes = 1
INVARIANTS
  NoModificationDuringScan
