SPECIFICATION Spec
CONSTANTS
  BatchSize = 2
  Requests = 4
  InputMin = 8
  SenderMin = 4
INVARIANTS
  CapacitiesAgree
CHECK_DEADLOCK FALSE
