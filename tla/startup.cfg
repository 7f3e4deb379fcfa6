SPECIFICATION Spec
CONSTANTS
  PoolSize = 3
  SpawnFails = TRUE
  ErrorPanics = TRUE
INVARIANTS
  ReadyMeansServing
  BlameHonest
PROPERTIES
  StartupEnds
  FailureReleases
