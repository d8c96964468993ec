SPECIFICATION Spec
CONSTANTS
  Deliveries = {d1, d2}
  MaxRetries = 0
  MaxCrashes = 0
  MaxLapses = 1
  Redelivers = TRUE
  LateKill = TRUE
  StoreFaults = TRUE
  Recovery = TRUE
  Erasure = TRUE
CHECK_DEADLOCK FALSE
INVARIANTS SingleWriter ReadyIsDurable
PROPERTY FailureIsFinal
SYMMETRY Messages
