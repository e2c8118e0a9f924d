SPECIFICATION Spec
CONSTANTS
  Receipts <- MCReceipts1
  CleanReceipts <- MCReceipts1
  Extracted <- MCExtracted1
  Amounts = {1}
  ItemLimit = 2
  MaxLines = 1
  Users <- MCUsers
  Submitter = "emma"
  RoleOf <- MCRoleOf
  Tabs <- MCTabsTwice
  UserOf <- MCUserOfTwice
  Keys = {k1, k2}
  Codes = {"c1"}
  MaxRevision = 3
  MaxRowVersion = 4
PROPERTIES
  AnswerMatchesRequest
CHECK_DEADLOCK FALSE
