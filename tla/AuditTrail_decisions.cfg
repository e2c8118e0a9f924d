SPECIFICATION Spec
CONSTANTS
  Transactions = {t1, t2}
  Kinds = {"decide", "assess"}
  Claims = {c1, c2}
INVARIANTS
  NoVictim
CHECK_DEADLOCK FALSE
