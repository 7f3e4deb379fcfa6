SPECIFICATION FairSpec
CONSTANTS
  PoolSize = 1
  BatchSize = 2
  QueueSize = 1
  Calls = {c1, c2, c3}
  TryCalls = {c1, c2, c3}
  DroppableCalls = {}
  Outcomes = {"Ok"}
  BatchTimer = TRUE
  PredictorPanics = TRUE
  RebuildFails = TRUE
  HooksPanic = TRUE
INVARIANTS
  RequestConservation
  BatchBound
  CrashedMeansDead
  NothingLeftBehind
PROPERTIES
  AnsweredUnlessStranded
  ShutdownCompletes
  DeadIsFinal
CHECK_DEADLOCK FALSE
