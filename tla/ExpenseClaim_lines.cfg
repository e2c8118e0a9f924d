SPECIFICATION Spec
CONSTANTS
  Receipts <- MCReceipts
  CleanReceipts <- MCClean
  Extracted <- MCExtracted
  Amounts = {1}
  ItemLimit = 2
  MaxLines = 2
  Users <- MCUsers
  Submitter = "emma"
  RoleOf <- MCRoleOf
  Tabs <- MCTabs
  UserOf <- MCUserOf
  Keys = {k1, k2}
  Codes = {"c1", "c2"}
  MaxRevision = 2
  MaxRowVersion = 4
INVARIANTS
  TypeOK
  FreshViewIsTrue
  EvidenceWellFormed
  HeaderMatchesLines
  AssessedOnCurrentEvidence
  DecisionsSound
PROPERTIES
  EvidenceOnlyGrows
  ActsOnWhatIsShown
  AppendKeepsLines
  KeepsContract
SYMMETRY KeySymmetry
CHECK_DEADLOCK FALSE
