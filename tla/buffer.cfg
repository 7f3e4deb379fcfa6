SPECIFICATION Spec
CONSTANTS
  BatchSize = 3
  Requests = 7
  InputMin = 8
  SenderMin = 4
INVARIANTS
  PairsAligned
  FilterExact
PROPERTIES
  AccumulatesInPlace
CHECK_DEADLOCK FALSE
