SPECIFICATION Spec
CONSTANTS
  PoolSize = 1
  BatchSize = 1
  QueueSize = 1
  Calls = {c1, c2}
  TryCalls = {}
  DroppableCalls = {}
  Outcomes = {"Ok"}
  BatchTimer = TRUE
  PredictorPanics = TRUE
  RebuildFails = FALSE
  HooksPanic = FALSE
INVARIANTS
  NoAvailableMeansAllStopped
CHECK_DEADLOCK FALSE
