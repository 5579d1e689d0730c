SPECIFICATION ToolsSpec
CONSTANTS
  None = None
  Denominator = 1000
  DefaultEpsilon = 1
  Epsilons = {None, 125}
  MaxValueDraws = {1, 3, 6}
  InstBufSize = 12
  NumOfInstBuf = 2
  InstructionSize = 2
  RandomEntries = {0, 4}
  Kinds = {"range", "list", "sls"}
  Sizes = {1, 2}
  MaxRuns = 3
  MaxDeaths = 2
  Units = {0, 1}
  Clients = {1, 2, 3}
  RegArea = 1
  MemArgs = {0, 6}
  Timeouts = {1}
  MaxTools = 2
  MaxProcs = 2
CHECK_DEADLOCK FALSE
INVARIANTS
  RangePrecise
  GoldenIsSum
  DataBelongTogether
  FailsOnlyAfterDeath
  UnitsAccounted
  ShmAsReported
