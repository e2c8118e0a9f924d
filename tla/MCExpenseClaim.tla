--------------------------- MODULE MCExpenseClaim ---------------------------
(* Values for the constants of ExpenseClaim.                               *)
EXTENDS ExpenseClaim, TLC

\* idempotency keys are only ever compared
KeySymmetry == Permutations(Keys)

MCUsers == {"emma", "rita", "rolf"}
MCRoleOf == [u \in MCUsers |-> IF u = "emma" THEN "EMPLOYEE" ELSE "REVIEWER"]

\* one tab per person
MCTabs == {"e1", "r1"}
MCUserOf == [t \in MCTabs |-> IF t = "e1" THEN "emma" ELSE "rita"]

\* emma has the claim open twice
MCTabsTwice == {"e1", "e2", "r1"}
MCUserOfTwice == [t \in MCTabsTwice |-> IF t = "r1" THEN "rita" ELSE "emma"]

\* r1 carries a readable amount, r2 none, r3 was found infected
MCReceipts == {"r1", "r2", "r3"}
MCClean == {"r1", "r2"}
MCExtracted == [r \in MCReceipts |-> IF r = "r1" THEN 2 ELSE 0]

MCReceipts1 == {"r1"}
MCExtracted1 == [r \in MCReceipts1 |-> 2]
=============================================================================
