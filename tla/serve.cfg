SPECIFICATION ObservedFairSpec
CONSTANTS
  PoolSize = 1
  BatchSize = 2
  QueueSize = 1
  Calls = {c1, c2, c3}
  TryCalls = {c1}
  DroppableCalls = {c2}
  Outcomes = {"Ok", "InferenceError", "InvalidPredictorOutput"}
  BatchTimer = TRUE
  PredictorPanics = FALSE
  RebuildFails = FALSE
  HooksPanic = FALSE
INVARIANTS
  NoWakeupLost
  CompletedWereTriggered
  TriggeredComplete
  GaugeHonest
PROPERTIES
  ServiceKept
  EveryCallEnds
  ShutdownCompletes
