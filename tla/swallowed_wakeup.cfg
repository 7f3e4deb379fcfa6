SPECIFICATION FairSpec
CONSTANTS
  PoolSize = 1
  BatchSize = 3
  QueueSize = 1
  Calls = {c1, c2, c3}
  TryCalls = {}
  DroppableCalls = {}
  Outcomes = {"Ok"}
  BatchTimer = FALSE
  PredictorPanics = FALSE
  RebuildFails = FALSE
  HooksPanic = FALSE
PROPERTIES
  WaiterProceeds
CHECK_DEADLOCK FALSE
