SPECIFICATION FairSpec
CONSTANTS
  Deliveries = {d1}
  MaxRetries = 1
  MaxCrashes = 0
  MaxLapses = 0
  Redelivers = FALSE
  LateKill = FALSE
  StoreFaults = FALSE
  Recovery = FALSE
  Erasure = FALSE
CHECK_DEADLOCK FALSE
PROPERTY UnpublishedIsBrief
