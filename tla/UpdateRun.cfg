SPECIFICATION Spec
CONSTANTS
  Candidates = {1, 2, 3}
  Keys = {"fast", "slow"}
  RowKeep = 0
  MaxRows = 3
  HistoryKeep = 0
  HistoryMax = 2
  Runs = {1, 2, 3}
  Builds <- MCBuilds
  MinPublish = 2
  PushTries = 2
  MaxTime = 1
  MaxOthers = 2
  MaxEntries = 3
INVARIANTS
  MainTellsOneStory RunsCountOnce ListsArePublishable
PROPERTIES PushesKeep GroupIsFreed
CHECK_DEADLOCK FALSE
