SPECIFICATION Spec
CONSTANTS
  Transactions = {t1, t2, t3}
  Kinds = {"submit", "upload", "scanned", "draft", "decide", "explain"}
  Claims = {c1, c2}
INVARIANTS
  TypeOK
  ChainVerifies
  NoCollision
  LockFirstIsSafe
CHECK_DEADLOCK FALSE
