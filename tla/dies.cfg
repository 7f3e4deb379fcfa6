SPECIFICATION StatusFairSpec
CONSTANTS
  PoolSize = 1
  BatchSize = 2
  QueueSize = 1
  Calls = {c1, c2}
  TryCalls = {}
  DroppableCalls = {c1}
  Outcomes = {"Ok"}
  BatchTimer = TRUE
  PredictorPanics = TRUE
  RebuildFails = TRUE
  HooksPanic = FALSE
  LenRange = 8
  U32Range = 4
INVARIANTS
  RequestConservation
  SnapshotHonest
  ThreadOutlivesHandles
  DeathIsTold
  WordAgrees
PROPERTIES
  AnsweredUnlessStranded
  ServiceKept
  NobodyWaitsOnDeadPool
  ShutdownCompletes
  SnapshotCoherent
  CrashShownWithDeath
CHECK_DEADLOCK FALSE
