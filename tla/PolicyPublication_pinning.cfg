SPECIFICATION Spec
CONSTANTS
  Sessions = {s1, s2}
  Keys = {k1}
  Bodies = {b1, b2}
  MaxVersion = 4
INVARIANTS
  TypeOK
  AnswersOwnRequest
  SomePolicyActive
PROPERTIES
  PinnedWhenActive
  VersionsAdvance
  InForceOnce
CHECK_DEADLOCK FALSE
