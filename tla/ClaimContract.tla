--------------------------- MODULE ClaimContract ---------------------------
(***************************************************************************)
(* What ClearSpend promises about one claim, with rows, versions, tabs and *)
(* retries left out.  A claim carries one body of evidence at a time.  A   *)
(* recommendation is made on that evidence, a human decides on that        *)
(* evidence, and the accounting file, written at most once, holds exactly  *)
(* the evidence that was approved.                                         *)
(***************************************************************************)

CONSTANTS Evidence,      \* the bodies of evidence a claim may rest on
          None           \* no evidence, and not among them

VARIABLES phase,         \* where the claim stands
          evidence,      \* what it rests on now
          assessed,      \* the evidence of the latest recommendation
          approved,      \* the evidence a reviewer approved
          booked         \* the evidence in the accounting file

contractVars == <<phase, evidence, assessed, approved, booked>>

ContractInit ==
  /\ phase = "ABSENT"
  /\ evidence = None
  /\ assessed = None
  /\ approved = None
  /\ booked = None

(* A claim is filed, or a request for information is answered: either way  *)
(* it now rests on some evidence, which still has to be assessed.          *)
File ==
  /\ phase \in {"ABSENT", "ASKED"}
  /\ phase' = "FILED"
  /\ evidence' \in Evidence
  /\ UNCHANGED <<assessed, approved, booked>>

Recommend ==
  /\ phase = "FILED"
  /\ phase' = "REVIEW"
  /\ assessed' = evidence
  /\ UNCHANGED <<evidence, approved, booked>>

(* The only step that gives the claim back to the employee.                *)
Ask ==
  /\ phase = "REVIEW"
  /\ phase' = "ASKED"
  /\ UNCHANGED <<evidence, assessed, approved, booked>>

Refuse ==
  /\ phase = "REVIEW"
  /\ phase' = "REFUSED"
  /\ UNCHANGED <<evidence, assessed, approved, booked>>

Approve ==
  /\ phase = "REVIEW"
  /\ assessed = evidence
  /\ phase' = "APPROVED"
  /\ approved' = evidence
  /\ UNCHANGED <<evidence, assessed, booked>>

Book ==
  /\ phase = "APPROVED"
  /\ phase' = "BOOKED"
  /\ booked' = approved
  /\ UNCHANGED <<evidence, assessed, approved>>

ContractNext ==
  \/ File
  \/ Recommend
  \/ Ask
  \/ Refuse
  \/ Approve
  \/ Book

ContractSpec == ContractInit /\ [][ContractNext]_contractVars
=============================================================================
