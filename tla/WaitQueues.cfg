SPECIFICATION WaitSpec
CONSTANTS
  Consumers = {c1, c2}
  Actions = {a1, a2, a3}
  NoThread = NoThread
  NoAction = NoAction
  Units = {0, 1}
  MaxDeaths = 1
  Request <- EitherOrSecond
INVARIANTS
  NoLostWakeup
  SleepExplained
PROPERTIES
  ImplementsTaskPool
  FreeUnitTaken
