SPECIFICATION Spec
CONSTANTS
  Receipts = {r1, r2}
INVARIANTS
  TypeOK
  ClearedOnly
  CleanIsStored
  NothingLost
CHECK_DEADLOCK FALSE
