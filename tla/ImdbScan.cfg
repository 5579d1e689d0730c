SPECIFICATION Spec
CONSTANTS
  h1 = h1  h2 = h2  p1 = p1  p2 = p2
  Hosts = {h1, h2}
  NoHost = NoHost
  Procs = {p1, p2}
  ProcOf <- TwoProcesses
  Threads = {0}
  OutputTypes = {"IndexVector"}
  MaxOps <- TwoAndOne
  MaxThrows = 1
  MaxCrashes = 1
INVARIANTS
  QuietScans
  ResultsCorrect
PROPERTIES
  OperationEnds
  ImplementsScanService
