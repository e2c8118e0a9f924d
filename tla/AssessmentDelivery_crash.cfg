SPECIFICATION FairSpec
CONSTANTS
  Claims = {"c1"}
  Workers = {"w1"}
  BatchSize = 1
  Concurrency = 2
  MaxAttempts = 2
  CollisionOutcomes = {"FAILED"}
  MaxRevision = 1
  MaxFaults = 0
  MaxCrashes = 1
PROPERTIES
  EventuallyAssessed
CHECK_DEADLOCK FALSE
