SPECIFICATION Spec
CONSTANTS
  MaxU8 = 4
  Durations = {0, 1, 3, 5, 9}
  Slice = 2
INVARIANTS
  BackoffLaw
  PromptCancel
PROPERTIES
  BuildKeepsPromise
