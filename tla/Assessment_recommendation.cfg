SPECIFICATION Spec
CONSTANTS
  Receipts <- MCReceipts
  Reading <- MCReading
  Merchants <- MCMerchants
  Substring <- MCSubstring
  Nameless <- MCNameless
  Suspicious <- MCSuspicious
  Blank <- MCBlank
  Purposes <- MCPurposes
  Category = "travel"
  Lines <- MCLines
  Policies <- MCPolicies
  Sections <- MCSections
  MaxLines = 2
  EvidenceLimit = 1
  MaxAttempts = 1
  MaxRevision = 2
  LastDay = 2
  MaxFaults = 2
INVARIANTS
  TypeOK
  ApprovalEarned
  RejectsRuleBreakers
  ModelOnlyDowngrades
  CitationsResolve
  Reproducible
  SettledWithoutModel
PROPERTIES
  AssessesUnderContract
CHECK_DEADLOCK FALSE
