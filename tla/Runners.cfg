SPECIFICATION RunnersSpec
CONSTANTS
  Unused = Unused
  Callers = {1, 2}
  Workers = {11, 12}
  NoThread = 0
  NumOfCUnits = 2
  Calls <- RunnerCalls
  MaxThrows = 1
  EntryMod = 4
  TagMod = 32
  Features = 2
  BatchRows = 2
  MiniBatch = 2
  MaxRuns = 2
INVARIANTS
  RunComplete
  OutlivedByThrow
  SpinExplained
  ResultsCorrect
  NoTaskBehindRun
PROPERTIES
  CallsEnd
