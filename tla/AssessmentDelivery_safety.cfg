SPECIFICATION FairSpec
CONSTANTS
  Claims = {"c1"}
  Workers = {"w1", "w2"}
  BatchSize = 2
  Concurrency = 1
  MaxAttempts = 1
  CollisionOutcomes = {"FAILED", "STUCK"}
  MaxRevision = 3
  MaxFaults = 2
  MaxCrashes = 1
INVARIANTS
  TypeOK
  ForgottenForAReason
PROPERTIES
  OutboxDrains
  AssessedUnlessAbandoned
CHECK_DEADLOCK FALSE
