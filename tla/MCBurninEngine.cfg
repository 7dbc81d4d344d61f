SPECIFICATION EngineOrSettings
CONSTANTS
  MaxRuns = 2
  MaxFaults = 2
  MaxDisconnects = 1
  Patterns <- PatternsValue
  Layers <- LayersValue
  NaN = NaN
  Infinity = Infinity
  Null = Null
  Text = Text
  MaxStarted = 2
  TaskLists <- TaskListsValue
  MaxParallel = 2
  Count = 1
  MaxRetries = 2
  KindCount = 2
  MaxCleaned = 2
  MaxCleanups = 1
INVARIANTS RunsEndProperly RunIsAsAsked WarmupDone
PROPERTIES StateMachine CleanupSparesRuns StopsAndWarmupsEnd
CHECK_DEADLOCK FALSE
