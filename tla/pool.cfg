SPECIFICATION FairSpec
CONSTANTS
  PoolSize = 2
  BatchSize = 1
  QueueSize = 1
  Calls = {c1, c2, c3}
  TryCalls = {c2}
  DroppableCalls = {c1}
  Outcomes = {"Ok"}
  BatchTimer = TRUE
  PredictorPanics = FALSE
  RebuildFails = FALSE
  HooksPanic = FALSE
INVARIANTS
  TypeOK
  HealthyPoolServes
  NoWakeupLost
  SomebodyMoves
PROPERTIES
  EveryCallEnds
