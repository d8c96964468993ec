SPECIFICATION FairSpec
CONSTANTS
  Deliveries = {d1}
  MaxRetries = 2
  MaxCrashes = 2
  MaxLapses = 0
  Redelivers = FALSE
  LateKill = FALSE
  StoreFaults = FALSE
  Recovery = FALSE
  Erasure = TRUE
CHECK_DEADLOCK FALSE
INVARIANTS TypeOK SourcesOutliveWork
PROPERTIES KeepsContract NoJobStuckWorking EveryDeliveryEnds
