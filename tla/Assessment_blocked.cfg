SPECIFICATION Spec
CONSTANTS
  Receipts <- MCReceipts
  Reading <- MCReading
  Merchants <- MCMerchants
  Substring <- MCSubstring
  Nameless <- MCNameless
  Suspicious <- MCSuspicious
  Blank <- MCBlank
  Purposes <- MCPurposes
  Category = "travel"
  Lines <- MCLines
  Policies <- MCPolicies
  Sections <- MCSections
  MaxLines = 2
  EvidenceLimit = 2
  MaxAttempts = 1
  MaxRevision = 2
  LastDay = 2
  MaxFaults = 0
INVARIANT
  ReviewNeverBlocked
CHECK_DEADLOCK FALSE
