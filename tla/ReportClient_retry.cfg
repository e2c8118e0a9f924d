SPECIFICATION Spec
CONSTANTS
  f1 = f1
  f2 = f2
  f3 = f3
  Files <- MCFiles
  Limit = 2
  Asks <- MCAsks
  MaxClaims = 2
  MaxRequests = 2
  MaxLate = 1
SYMMETRY FilesAreAlike
INVARIANT
  OneClaimPerReceipt
CHECK_DEADLOCK FALSE
