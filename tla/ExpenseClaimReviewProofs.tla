---------------------- MODULE ExpenseClaimReviewProofs ----------------------
(***************************************************************************)
(* Proofs that a claim is reviewed on the evidence it was assessed on,     *)
(* that its evidence is a report in order with a history that only grows,  *)
(* and that ExpenseClaim implements ClaimContract, for every value of the  *)
(* constants.                                                              *)
(***************************************************************************)
EXTENDS ExpenseClaimProofs

\* a line that is worth something
PaidLine == {line \in Line : line.amount # NoAmount}

(* Once submitted, a claim and its current lines are all worth something,  *)
(* so that the accounting file takes every amount from its own line.       *)
LinesPaid ==
  /\ claim.state # "NONE" => claim.header.amount # NoAmount
  /\ \A l \in Current(links) : l.amount # NoAmount

OneAttemptPerRevision ==
  \A a, b \in attempts : a.revision = b.revision => a = b

(* Decisions belong to the claim's revisions, and to earlier ones while it *)
(* still waits for an assessment or a reviewer.                            *)
DecisionHistory ==
  /\ claim.state = "NONE" => decisions = {}
  /\ \A d \in decisions : d.revision <= claim.revision
  /\ claim.state \in {"SUBMITTED", "ASSESSING", "AWAITING_REVIEW"} =>
       \A d \in decisions : d.revision < claim.revision

Closed == {"READY_TO_EXPORT", "EXPORT_FAILED", "EXPORTED"}

(* An approval stands on the claim's present lines, and every claim on its *)
(* way to the accounting file has one.                                     *)
ApprovalHistory ==
  /\ \A d \in decisions : d.body.action = "APPROVE" =>
       claim.state \in Closed /\ d.evidence = LinesOf(links)
  /\ claim.state \in Closed => \E d \in decisions : d.body.action = "APPROVE"

\* There is no accounting file before the export.
BookedLast == claim.state # "EXPORTED" => export.csv.lines = {}

(* The inductive invariant of review, given the types.                     *)
ReviewInv ==
  /\ LinesPaid
  /\ OneAttemptPerRevision
  /\ AssessedOnCurrentEvidence
  /\ DecisionHistory
  /\ DecisionsSound
  /\ ApprovalHistory
  /\ BookedLast

-----------------------------------------------------------------------------
(* Lemmas about lines.                                                     *)

(* What a client may submit is worth something on every line.              *)
LEMMA ItemsArePaid ==
  /\ Items \subseteq PaidLine
  /\ \A items \in ItemLists : \E n \in 1..MaxLines : items \in [1..n -> PaidLine]
<1>1. \A amount \in Amounts : amount \in Nat /\ amount # NoAmount
  BY ConstantsAssumption DEF NoAmount
<1>2. Items \subseteq PaidLine
  BY <1>1 DEF Items, PaidLine, Line
<1>3. ASSUME NEW items \in ItemLists
      PROVE  \E n \in 1..MaxLines : items \in [1..n -> PaidLine]
  <2>1. PICK n \in 1..MaxLines : items \in [1..n -> Items]
    BY DEF ItemLists
  <2> QED
    BY <1>2, <2>1
<1> QED
  BY <1>2, <1>3

(* The links add_report_links makes carry the amounts of the items.        *)
LEMMA ReportLinksArePaid ==
  ASSUME NEW n \in Nat, NEW items \in [1..n -> PaidLine], NEW revision, NEW old
  PROVE  \A l \in ReportLinks(revision, items, old) : l.amount # NoAmount
<1>1. \A p \in 1..n : items[p].amount # NoAmount
  BY DEF PaidLine
<1> SUFFICES ASSUME NEW p \in 1..n
             PROVE  NewLink(revision, p, items[p], {l \in old : l.position = p}).amount # NoAmount
  BY DEF ReportLinks
<1>2. NewLink(revision, p, items[p], {l \in old : l.position = p}).amount = items[p].amount
  BY DEF NewLink
<1> QED
  BY <1>1, <1>2

(* An APPEND reports paid lines, in order.                                 *)
LEMMA AppendedArePaid ==
  ASSUME RowsInv, NEW t \in Tabs, NEW items \in ItemLists, ResubmitAppend(t, items)
  PROVE  \E n \in 1..MaxLines : Appended(items) \in [1..n -> PaidLine]
<1>1. PICK n \in 1..MaxLines : items \in [1..n -> PaidLine]
  BY ItemsArePaid
<1>2. PICK m \in Nat : Carried \in [1..m -> Line]
  BY CarriedAreLines DEF RowsInv
<1>3. \A p \in 1..m : Carried[p] \in PaidLine
  <2>1. \A p \in 1..m : Carried[p].amount \in 1..ItemLimit
    BY <1>2 DEF ResubmitAppend
  <2>2. \A p \in 1..m : Carried[p].amount # NoAmount
    BY <2>1, ConstantsAssumption DEF NoAmount
  <2> QED
    BY <1>2, <2>2 DEF PaidLine
<1>4. n \in Nat /\ n >= 1
  BY <1>1, ConstantsAssumption
<1>5. Carried \in [1..m -> PaidLine]
  BY <1>2, <1>3
<1>6. Carried \in Seq(PaidLine) /\ Len(Carried) = m /\ items \in Seq(PaidLine) /\ Len(items) = n
  BY <1>1, <1>4, <1>5
<1>7. Appended(items) \in Seq(PaidLine) /\ Len(Appended(items)) = m + n
  BY <1>6 DEF Appended
<1>8. m + n \in 1..MaxLines
  BY <1>2, <1>4, <1>7, ConstantsAssumption DEF ResubmitAppend
<1>9. Appended(items) \in [1..(m + n) -> PaidLine]
  BY <1>7
<1> QED
  BY <1>8, <1>9

(* While every line is paid, the accounting file is the current lines.     *)
LEMMA CsvIsTheReport ==
  ASSUME RowsInv, LinesPaid, claim.state # "NONE"
  PROVE  CsvLines = LinesOf(links)
<1>1. Current(links) # {}
  BY DEF RowsInv, ReportNotEmpty
<1>2. \A l \in Current(links) : Or(l.amount, claim.header.amount) = l.amount
  BY DEF LinesPaid, Or
<1>3. CsvLines = {[position |-> l.position,
                   line |-> [receipt |-> l.receipt,
                             amount |-> Or(l.amount, claim.header.amount)]]
                   : l \in Current(links)}
  BY <1>1 DEF CsvLines
<1> QED
  BY <1>2, <1>3 DEF LinesOf, LineOf

-----------------------------------------------------------------------------
(* One lemma per kind of step.                                             *)

(* The first submission.                                                   *)
LEMMA SubmitKeepsReview ==
  ASSUME RowsInv, ReviewInv, NEW t \in Tabs, NEW n \in 1..MaxLines,
         NEW items \in [1..n -> PaidLine], Submit(t, items)
  PROVE  ReviewInv'
<1>1. /\ claim'.state = "SUBMITTED" /\ claim'.header = Header(items)
      /\ links' = ReportLinks(1, items, {})
      /\ UNCHANGED <<attempts, decisions, export>>
  BY DEF Submit, NoClaim
<1>2. attempts = {} /\ decisions = {} /\ export.csv.lines = {}
  BY DEF Submit, RowsInv, AttemptHistory, ReviewInv, DecisionHistory, BookedLast
<1>3. LinesPaid'
  <2>1. Header(items).amount # NoAmount
    BY DEF Submit, Storable, NoAmount
  <2>2. n \in Nat
    BY ConstantsAssumption
  <2>3. \A l \in ReportLinks(1, items, {}) : l.amount # NoAmount
    BY <2>2, ReportLinksArePaid
  <2> QED
    BY <1>1, <2>1, <2>3 DEF LinesPaid, Current
<1> QED
  BY <1>1, <1>2, <1>3 DEF ReviewInv, OneAttemptPerRevision, AssessedOnCurrentEvidence,
     DecisionHistory, DecisionsSound, ApprovalHistory, BookedLast, Closed

(* Any resubmission, in any of its four forms.                             *)
LEMMA ResubmitKeepsReview ==
  ASSUME RowsInv, ReviewInv, NEW header, NEW newLinks,
         claim.state = "INFORMATION_REQUESTED", Resubmitted(header, newLinks),
         \A l \in Current(newLinks) : l.amount # NoAmount
  PROVE  ReviewInv'
<1>1. /\ claim'.state = "SUBMITTED" /\ claim'.header = header
      /\ claim'.revision = claim.revision + 1
  BY ResubmittedStamps DEF RowsInv, TypeOK
<1>2. links' = newLinks /\ UNCHANGED <<attempts, decisions, export>>
  BY DEF Resubmitted
<1>3. claim.revision \in Nat
  BY DEF RowsInv, TypeOK, ClaimType
<1>4. LinesPaid'
  BY <1>1, <1>2 DEF LinesPaid, Resubmitted, Storable, NoAmount
<1>5. AssessedOnCurrentEvidence'
  <2>1. \A a \in attempts : a.revision \in Nat /\ a.revision <= claim.revision
    BY DEF RowsInv, AttemptHistory, TypeOK, AttemptType
  <2> QED
    BY <1>1, <1>2, <1>3, <2>1 DEF AssessedOnCurrentEvidence
<1>6. DecisionHistory'
  <2>1. \A d \in decisions : d.revision \in Nat /\ d.revision <= claim.revision
    BY DEF RowsInv, TypeOK, DecisionType, ReviewInv, DecisionHistory
  <2> QED
    BY <1>1, <1>2, <1>3, <2>1 DEF DecisionHistory
<1>7. \A d \in decisions : d.body.action = "REQUEST_INFORMATION"
  BY DEF ReviewInv, DecisionsSound
<1> QED
  BY <1>1, <1>2, <1>4, <1>5, <1>6, <1>7 DEF ReviewInv, OneAttemptPerRevision, DecisionsSound,
     ApprovalHistory, BookedLast, Closed

(* The assessment.                                                         *)
LEMMA AssessKeepsReview ==
  ASSUME RowsInv, ReviewInv, NEW recommendation \in Recommendations, Assess(recommendation)
  PROVE  /\ ReviewInv'
         /\ AssessedLines' = LinesOf(links)
<1> DEFINE new == [revision |-> claim.revision, recommendation |-> recommendation,
                   evidence |-> LinesOf(links)]
<1>1. /\ claim'.state = "AWAITING_REVIEW" /\ claim'.revision = claim.revision
      /\ claim'.header = claim.header
  BY MovedType DEF Assess, RowsInv, TypeOK, States
<1>2. attempts' = attempts \cup {new} /\ UNCHANGED <<links, decisions, export>>
  BY DEF Assess
<1>3. \A a \in attempts : a.revision \in Nat /\ a.revision < claim.revision
  BY DEF Assess, RowsInv, TypeOK, AttemptType, ReviewInv, AssessedOnCurrentEvidence
<1>4. claim.revision \in Nat
  BY DEF RowsInv, TypeOK, ClaimType
<1>5. new.revision = claim.revision /\ new.evidence = LinesOf(links)
  OBVIOUS
<1> HIDE DEF new
<1>6. LatestAttempts(attempts') = {new}
  <2>1. \A b \in attempts' : b.revision <= new.revision
    BY <1>2, <1>3, <1>4, <1>5
  <2>2. new \in LatestAttempts(attempts')
    BY <1>2, <2>1 DEF LatestAttempts
  <2>3. \A a \in attempts : ~(new.revision <= a.revision)
    BY <1>3, <1>4, <1>5
  <2>4. \A a \in LatestAttempts(attempts') : a \in attempts' /\ new.revision <= a.revision
    BY <1>2 DEF LatestAttempts
  <2> QED
    BY <1>2, <2>2, <2>3, <2>4
<1>7. AssessedOnCurrentEvidence'
  BY <1>1, <1>2, <1>5, <1>6 DEF AssessedOnCurrentEvidence
<1>8. OneAttemptPerRevision'
  BY <1>2, <1>3, <1>4, <1>5 DEF ReviewInv, OneAttemptPerRevision
<1>9. /\ claim.state \notin Closed /\ claim.state \in {"SUBMITTED", "ASSESSING"}
      /\ claim.state # "NONE" /\ claim.state # "EXPORTED"
  BY DEF Assess, Closed
<1>10. LinesPaid'
  BY <1>1, <1>2, <1>9 DEF ReviewInv, LinesPaid
<1>11. DecisionHistory' /\ BookedLast'
  BY <1>1, <1>2, <1>9 DEF ReviewInv, DecisionHistory, BookedLast
<1>12. DecisionsSound'
  <2>1. \A d \in decisions : d.body.action = "REQUEST_INFORMATION"
    BY <1>9 DEF ReviewInv, DecisionsSound
  <2> QED
    BY <1>1, <1>2, <2>1 DEF ReviewInv, DecisionsSound
<1>13. ApprovalHistory'
  BY <1>1, <1>2, <1>9 DEF ReviewInv, ApprovalHistory, Closed
<1>14. AssessedLines' = LinesOf(links)
  BY <1>5, <1>6 DEF AssessedLines
<1> QED
  BY <1>7, <1>8, <1>10, <1>11, <1>12, <1>13, <1>14 DEF ReviewInv

(* A decision.                                                             *)
LEMMA DecideKeepsReview ==
  ASSUME RowsInv, ReviewInv, NEW t \in Tabs, NEW key \in Keys, NEW body \in BodyType,
         Decide(t, key, body)
  PROVE  /\ ReviewInv'
         /\ ApprovedLines' = IF body.action = "APPROVE" THEN LinesOf(links) ELSE {}
<1> DEFINE new == [actor |-> UserOf[t], key |-> key, body |-> body,
                   version |-> views[t].version, revision |-> claim.revision,
                   observed |-> Observed, evidence |-> LinesOf(links)]
<1>1. /\ claim'.state = Target[body.action] /\ claim'.revision = claim.revision
      /\ claim'.header = claim.header
  BY DecideStamps DEF RowsInv, TypeOK
<1>2. decisions' = decisions \cup {new} /\ UNCHANGED <<links, attempts, export>>
  BY DEF Decide
<1>3. claim.state = "AWAITING_REVIEW" /\ claim.revision \in Nat
  BY DEF Decide, RowsInv, TypeOK, ClaimType
<1>4. \A d \in decisions : /\ d.revision \in Nat /\ d.revision < claim.revision
                           /\ d.body.action = "REQUEST_INFORMATION"
  BY <1>3 DEF RowsInv, TypeOK, DecisionType, ReviewInv, DecisionHistory, DecisionsSound
<1>5. body.action \in Actions
  BY DEF BodyType
<1>6. new.actor # Submitter
  BY DEF Decide, IsOwner
<1>7. ~new.body.reason => new.body.action = "APPROVE" /\ new.observed = "APPROVE"
  <2>1. Overrides(body.action, Observed) \/ body.action # "APPROVE" => body.reason
    BY DEF Decide
  <2> QED
    BY <2>1 DEF Overrides
<1>8. /\ new.revision = claim.revision /\ new.evidence = LinesOf(links)
      /\ new.body.action = body.action
  OBVIOUS
<1> HIDE DEF new
<1>9. /\ body.action = "APPROVE" => claim'.state = "READY_TO_EXPORT"
      /\ body.action = "REJECT" => claim'.state = "REJECTED"
      /\ body.action = "REQUEST_INFORMATION" => claim'.state = "INFORMATION_REQUESTED"
  BY <1>1 DEF Target
<1>10. LinesPaid'
  BY <1>1, <1>2, <1>3 DEF ReviewInv, LinesPaid
<1>11. OneAttemptPerRevision' /\ BookedLast'
  BY <1>2, <1>3 DEF ReviewInv, OneAttemptPerRevision, BookedLast
<1>12. AssessedOnCurrentEvidence'
  BY <1>1, <1>2, <1>3, <1>5, <1>9 DEF ReviewInv, AssessedOnCurrentEvidence, Actions
<1>13. DecisionHistory'
  BY <1>1, <1>2, <1>3, <1>4, <1>5, <1>8, <1>9 DEF DecisionHistory, Actions
<1>14. DecisionsSound'
  <2>1. \A d, e \in decisions' : d.revision = e.revision => d = e
    BY <1>2, <1>3, <1>4, <1>8 DEF ReviewInv, DecisionsSound
  <2>2. \A d \in decisions' :
          /\ d.actor # Submitter
          /\ ~d.body.reason => d.body.action = "APPROVE" /\ d.observed = "APPROVE"
    BY <1>2, <1>6, <1>7 DEF ReviewInv, DecisionsSound
  <2>3. \A d \in decisions' : d.body.action # "REQUEST_INFORMATION" =>
          /\ d.revision = claim'.revision
          /\ claim'.state \in {"READY_TO_EXPORT", "REJECTED", "EXPORTED", "EXPORT_FAILED"}
    BY <1>1, <1>2, <1>4, <1>5, <1>8, <1>9 DEF Actions
  <2> QED
    BY <2>1, <2>2, <2>3 DEF DecisionsSound
<1>15. ApprovalHistory'
  BY <1>2, <1>4, <1>5, <1>8, <1>9 DEF ApprovalHistory, Closed, Actions
<1>16. ApprovedLines' = IF body.action = "APPROVE" THEN LinesOf(links) ELSE {}
  <2>1. {d \in decisions' : d.body.action = "APPROVE"}
          = IF body.action = "APPROVE" THEN {new} ELSE {}
    BY <1>2, <1>4, <1>8
  <2> QED
    BY <1>8, <2>1 DEF ApprovedLines
<1> QED
  BY <1>10, <1>11, <1>12, <1>13, <1>14, <1>15, <1>16 DEF ReviewInv

(* The export, successful or not.                                          *)
LEMMA ExportKeepsReview ==
  ASSUME RowsInv, ReviewInv, NEW t \in Tabs, NEW code \in Codes,
         ExportSucceeds(t, code) \/ ExportFails(t, code)
  PROVE  ReviewInv'
<1>1. claim.state \in {"READY_TO_EXPORT", "EXPORT_FAILED"}
  BY DEF ExportSucceeds, ExportFails, MayExport
<1>2. UNCHANGED <<links, attempts, decisions>>
  BY DEF ExportSucceeds, ExportFails
<1>3. /\ claim'.state \in {"EXPORTED", "EXPORT_FAILED"}
      /\ claim'.revision = claim.revision
      /\ claim'.header = claim.header
  BY MovedType DEF ExportSucceeds, ExportFails, RowsInv, TypeOK, States
<1>4. LinesPaid'
  BY <1>1, <1>2, <1>3 DEF ReviewInv, LinesPaid
<1>5. OneAttemptPerRevision' /\ AssessedOnCurrentEvidence'
  BY <1>1, <1>2, <1>3 DEF ReviewInv, OneAttemptPerRevision, AssessedOnCurrentEvidence
<1>6. DecisionHistory'
  BY <1>1, <1>2, <1>3 DEF ReviewInv, DecisionHistory
<1>7. DecisionsSound'
  BY <1>1, <1>2, <1>3 DEF ReviewInv, DecisionsSound
<1>8. ApprovalHistory'
  BY <1>1, <1>2, <1>3 DEF ReviewInv, ApprovalHistory, Closed
<1>9. BookedLast'
  <2>1. CASE ExportSucceeds(t, code)
    <3>1. claim'.state = "EXPORTED"
      BY <2>1, MovedType DEF ExportSucceeds, RowsInv, TypeOK, States
    <3> QED
      BY <3>1 DEF BookedLast
  <2>2. CASE ExportFails(t, code)
    BY <2>2 DEF ExportFails, EmptyCsv, BookedLast
  <2> QED
    BY <2>1, <2>2
<1> QED
  BY <1>4, <1>5, <1>6, <1>7, <1>8, <1>9 DEF ReviewInv

(* The links a resubmission leaves current are paid.                       *)
LEMMA ReportKeepsReview ==
  ASSUME RowsInv, ReviewInv, NEW n \in 1..MaxLines, NEW items \in [1..n -> PaidLine],
         claim.state = "INFORMATION_REQUESTED", Report(items)
  PROVE  ReviewInv'
<1> DEFINE new == ReportLinks(claim.revision + 1, items, Current(links))
<1>1. Resubmitted(Header(items), Superseded(links) \cup new)
  BY DEF Report
<1>2. n \in Nat
  BY ConstantsAssumption
<1>3. \A l \in new : l.amount # NoAmount
  BY <1>2, ReportLinksArePaid
<1>4. Current(Superseded(links)) = {}
  BY SupersededAreLinks DEF RowsInv, TypeOK
<1>5. \A l \in Current(Superseded(links) \cup new) : l \in new
  BY <1>4 DEF Current
<1> HIDE DEF new
<1> QED
  BY <1>1, <1>3, <1>5, ResubmitKeepsReview

LEMMA ReceiptKeepsReview ==
  ASSUME RowsInv, ReviewInv, NEW t \in Tabs, NEW receipt \in Receipts,
         ResubmitReceipt(t, receipt)
  PROVE  ReviewInv'
<1> DEFINE item == [receipt |-> receipt, amount |-> Or(Extracted[receipt], claim.header.amount)]
           link(l) == [NewLink(claim.revision + 1, 1, item, {l})
                         EXCEPT !.kind = "REPLACEMENT_RECEIPT"]
<1>1. PICK previous \in Current(links) :
        Resubmitted(Header(<<item>>), Superseded(links) \cup {link(previous)})
  BY DEF ResubmitReceipt
<1>2. claim.state = "INFORMATION_REQUESTED"
  BY DEF ResubmitReceipt, MayResubmit
<1>3. item.amount # NoAmount
  BY <1>2 DEF ReviewInv, LinesPaid, Or
<1>4. link(previous).amount # NoAmount
  <2> DEFINE new == NewLink(claim.revision + 1, 1, item, {previous})
  <2>1. new.amount = item.amount
    BY DEF NewLink
  <2>2. [new EXCEPT !.kind = "REPLACEMENT_RECEIPT"].amount = new.amount
    <3>1. "amount" \in DOMAIN new
      BY DEF NewLink
    <3> HIDE DEF new
    <3> QED
      BY <3>1
  <2> HIDE DEF item, new
  <2> QED
    BY <1>3, <2>1, <2>2 DEF new
<1>5. Current(Superseded(links)) = {}
  BY SupersededAreLinks DEF RowsInv, TypeOK
<1> HIDE DEF link
<1>6. \A l \in Current(Superseded(links) \cup {link(previous)}) : l.amount # NoAmount
  BY <1>4, <1>5 DEF Current
<1> QED
  BY <1>1, <1>2, <1>6, ResubmitKeepsReview

(* Every step keeps the review sound.                                      *)
LEMMA ReviewStep == RowsInv /\ ReviewInv /\ [Next]_vars => ReviewInv'
<1> SUFFICES ASSUME RowsInv, ReviewInv, [Next]_vars PROVE ReviewInv'
  OBVIOUS
<1>1. ASSUME UNCHANGED stored
      PROVE  ReviewInv'
  BY <1>1 DEF stored, ReviewInv, LinesPaid, OneAttemptPerRevision, AssessedOnCurrentEvidence,
     DecisionHistory, DecisionsSound, ApprovalHistory, BookedLast
<1>2. ASSUME NEW t \in Tabs, ReadRow(t) \/ ReadAttempts(t) \/ ReadLinks(t)
      PROVE  ReviewInv'
  BY <1>1, <1>2 DEF ReadRow, ReadAttempts, ReadLinks
<1>3. ASSUME NEW t \in Tabs, NEW item \in Items, SubmitExpense(t, item)
      PROVE  ReviewInv'
  <2>1. 1 \in 1..MaxLines /\ <<item>> \in [1..1 -> PaidLine]
    BY ItemsArePaid, ConstantsAssumption
  <2> QED
    BY <1>3, <2>1, SubmitKeepsReview DEF SubmitExpense
<1>4. ASSUME NEW t \in Tabs, NEW items \in ItemLists, SubmitReport(t, items)
      PROVE  ReviewInv'
  <2>1. PICK n \in 1..MaxLines : items \in [1..n -> PaidLine]
    BY ItemsArePaid
  <2> QED
    BY <1>4, <2>1, SubmitKeepsReview DEF SubmitReport
<1>5. ASSUME NEW t \in Tabs, NEW items \in ItemLists, ResubmitAppend(t, items)
      PROVE  ReviewInv'
  <2>1. PICK n \in 1..MaxLines : Appended(items) \in [1..n -> PaidLine]
    BY <1>5, AppendedArePaid
  <2> QED
    BY <1>5, <2>1, ReportKeepsReview DEF ResubmitAppend, MayResubmit
<1>6. ASSUME NEW t \in Tabs, NEW items \in ItemLists, ResubmitReplace(t, items)
      PROVE  ReviewInv'
  <2>1. PICK n \in 1..MaxLines : items \in [1..n -> PaidLine]
    BY ItemsArePaid
  <2> QED
    BY <1>6, <2>1, ReportKeepsReview DEF ResubmitReplace, MayResubmit
<1>7. ASSUME NEW t \in Tabs, ResubmitPurpose(t)
      PROVE  ReviewInv'
  BY <1>7, ResubmitKeepsReview DEF ResubmitPurpose, MayResubmit, ReviewInv, LinesPaid
<1>8. CASE UNCHANGED vars
  BY <1>1, <1>8 DEF vars
<1> QED
  BY <1>2, <1>3, <1>4, <1>5, <1>6, <1>7, <1>8, AssessKeepsReview, DecideKeepsReview,
     ExportKeepsReview, ReceiptKeepsReview DEF Next

(* The whole inductive invariant.                                          *)
ClaimInv == RowsInv /\ ReviewInv

LEMMA ClaimInvariant == Spec => []ClaimInv
<1>1. Init => ClaimInv
  <2> SUFFICES ASSUME Init PROVE ClaimInv
    OBVIOUS
  <2>1. /\ claim.state = "NONE" /\ attempts = {} /\ decisions = {} /\ Current(links) = {}
        /\ export.csv.lines = {}
    BY DEF Init, NoClaim, NoExport, EmptyCsv, Current
  <2> QED
    BY <2>1, RowsInit DEF ClaimInv, ReviewInv, LinesPaid, OneAttemptPerRevision,
       AssessedOnCurrentEvidence, DecisionHistory, DecisionsSound, ApprovalHistory,
       BookedLast, Closed
<1>2. ClaimInv /\ [Next]_vars => ClaimInv'
  BY RowsStep, ReviewStep DEF ClaimInv
<1> QED
  BY <1>1, <1>2, PTL DEF Spec

(* A claim under review, or past it, was assessed at its present revision  *)
(* and on its present lines.                                               *)
THEOREM AssessedAsReviewed == Spec => []AssessedOnCurrentEvidence
<1>1. ClaimInv => AssessedOnCurrentEvidence
  BY DEF ClaimInv, ReviewInv
<1> QED
  BY <1>1, ClaimInvariant, PTL

(* One decision per revision, never the submitter's, never against the     *)
(* recommendation without a reason; the deciding one is the last.          *)
THEOREM SoundDecisions == Spec => []DecisionsSound
<1>1. ClaimInv => DecisionsSound
  BY DEF ClaimInv, ReviewInv
<1> QED
  BY <1>1, ClaimInvariant, PTL

-----------------------------------------------------------------------------
(* The refinement.                                                         *)

(* Where the claim stands, state by state.                                 *)
LEMMA PhaseOfState ==
  /\ claim.state = "NONE" => Phase = "ABSENT"
  /\ claim.state \in {"SUBMITTED", "ASSESSING"} => Phase = "FILED"
  /\ claim.state = "AWAITING_REVIEW" => Phase = "REVIEW"
  /\ claim.state = "INFORMATION_REQUESTED" => Phase = "ASKED"
  /\ claim.state = "REJECTED" => Phase = "REFUSED"
  /\ claim.state \in {"READY_TO_EXPORT", "EXPORT_FAILED"} => Phase = "APPROVED"
  /\ claim.state = "EXPORTED" => Phase = "BOOKED"
BY DEF Phase

(* The same of the next state.                                             *)
LEMMA PhaseOfNextState ==
  /\ claim'.state = "SUBMITTED" => Phase' = "FILED"
  /\ claim'.state = "AWAITING_REVIEW" => Phase' = "REVIEW"
  /\ claim'.state = "INFORMATION_REQUESTED" => Phase' = "ASKED"
  /\ claim'.state = "REJECTED" => Phase' = "REFUSED"
  /\ claim'.state \in {"READY_TO_EXPORT", "EXPORT_FAILED"} => Phase' = "APPROVED"
  /\ claim'.state = "EXPORTED" => Phase' = "BOOKED"
BY DEF Phase

(* What the attempts and the decisions stand for.                          *)
LEMMA MappedHistory ==
  ASSUME ClaimInv
  PROVE  /\ claim.state \notin {"NONE", "SUBMITTED", "ASSESSING"} =>
              AssessedLines = LinesOf(links)
         /\ claim.state \in Closed => ApprovedLines = LinesOf(links)
         /\ claim.state \notin Closed => ApprovedLines = {}
<1>1. ASSUME claim.state \notin {"NONE", "SUBMITTED", "ASSESSING"}
      PROVE  AssessedLines = LinesOf(links)
  <2>1. PICK a \in LatestAttempts(attempts) :
          a.revision = claim.revision /\ a.evidence = LinesOf(links)
    BY <1>1 DEF ClaimInv, ReviewInv, AssessedOnCurrentEvidence
  <2>2. \A b \in LatestAttempts(attempts) : b \in attempts /\ b.revision >= a.revision
    BY <2>1 DEF LatestAttempts
  <2>3. \A b \in attempts : b.revision \in Nat /\ b.revision <= a.revision
    BY <2>1 DEF ClaimInv, RowsInv, TypeOK, AttemptType, AttemptHistory
  <2>4. \A b \in LatestAttempts(attempts) : b = a
    BY <2>1, <2>2, <2>3 DEF ClaimInv, ReviewInv, OneAttemptPerRevision, LatestAttempts
  <2>5. LatestAttempts(attempts) = {a}
    BY <2>1, <2>4
  <2> QED
    BY <2>1, <2>5 DEF AssessedLines
<1> DEFINE approvals == {d \in decisions : d.body.action = "APPROVE"}
<1>2. \A d \in approvals : d.evidence = LinesOf(links) /\ claim.state \in Closed
  BY DEF ClaimInv, ReviewInv, ApprovalHistory
<1>3. claim.state \in Closed => approvals # {}
  BY DEF ClaimInv, ReviewInv, ApprovalHistory
<1>4. ApprovedLines = UNION {d.evidence : d \in approvals}
  BY DEF ApprovedLines
<1> HIDE DEF approvals
<1>5. claim.state \in Closed => ApprovedLines = LinesOf(links)
  BY <1>2, <1>3, <1>4
<1>6. claim.state \notin Closed => ApprovedLines = {}
  BY <1>2, <1>4
<1> QED
  BY <1>1, <1>5, <1>6

(* A step that files, first or again, is the contract's File.              *)
LEMMA FilesContract ==
  ASSUME ClaimInv, ClaimInv', claim.state \in {"NONE", "INFORMATION_REQUESTED"},
         claim'.state = "SUBMITTED", UNCHANGED <<attempts, decisions, export>>
  PROVE  Contract!File
<1>1. Phase \in {"ABSENT", "ASKED"} /\ Phase' = "FILED"
  BY PhaseOfState, PhaseOfNextState
<1>2. LinesOf(links)' \in SUBSET Shown
  <2>1. links' \in SUBSET LinkType
    BY DEF ClaimInv, RowsInv, TypeOK
  <2> QED
    BY <2>1, LinesAreShown
<1>3. LinesOf(links)' # {}
  BY DEF ClaimInv, RowsInv, ReportNotEmpty, LinesOf
<1>4. UNCHANGED <<AssessedLines, ApprovedLines, export.csv.lines>>
  BY DEF AssessedLines, ApprovedLines, LatestAttempts
<1> QED
  BY <1>1, <1>2, <1>3, <1>4 DEF Contract!File

(* Every step of the claim is a step of the contract, or none.             *)
LEMMA ContractStep ==
  ASSUME ClaimInv, ClaimInv', [Next]_vars
  PROVE  [Contract!ContractNext]_(Contract!contractVars)
<1> USE DEF Contract!ContractNext, Contract!contractVars
<1>1. ASSUME UNCHANGED stored
      PROVE  UNCHANGED Contract!contractVars
  BY <1>1 DEF stored, Phase, AssessedLines, ApprovedLines, LatestAttempts
<1>2. ASSUME NEW t \in Tabs, ReadRow(t) \/ ReadAttempts(t) \/ ReadLinks(t)
      PROVE  UNCHANGED Contract!contractVars
  BY <1>1, <1>2 DEF ReadRow, ReadAttempts, ReadLinks
<1>3. ASSUME NEW t \in Tabs, NEW items, Submit(t, items)
      PROVE  Contract!File
  BY <1>3, FilesContract DEF Submit, NoClaim
<1>4. ASSUME NEW t \in Tabs, NEW header, NEW newLinks, MayResubmit(t),
             Resubmitted(header, newLinks)
      PROVE  Contract!File
  <2>1. claim'.state = "SUBMITTED"
    BY <1>4, ResubmittedStamps DEF ClaimInv, RowsInv, TypeOK
  <2> QED
    BY <1>4, <2>1, FilesContract DEF MayResubmit, Resubmitted
<1>5. ASSUME NEW t \in Tabs, NEW items, ResubmitAppend(t, items) \/ ResubmitReplace(t, items)
      PROVE  Contract!File
  BY <1>4, <1>5 DEF ResubmitAppend, ResubmitReplace, Report
<1>6. ASSUME NEW t \in Tabs, NEW receipt, ResubmitReceipt(t, receipt)
      PROVE  Contract!File
  BY <1>4, <1>6 DEF ResubmitReceipt
<1>7. ASSUME NEW t \in Tabs, ResubmitPurpose(t)
      PROVE  Contract!File
  BY <1>4, <1>7 DEF ResubmitPurpose
<1>8. ASSUME NEW recommendation \in Recommendations, Assess(recommendation)
      PROVE  Contract!Recommend
  <2>1. claim.state \in {"SUBMITTED", "ASSESSING"} /\ claim'.state = "AWAITING_REVIEW"
    BY <1>8, MovedType DEF Assess, ClaimInv, RowsInv, TypeOK, States
  <2>2. Phase = "FILED" /\ Phase' = "REVIEW"
    BY <2>1, PhaseOfState, PhaseOfNextState
  <2>3. AssessedLines' = LinesOf(links)
    BY <1>8, AssessKeepsReview DEF ClaimInv
  <2>4. UNCHANGED <<LinesOf(links), ApprovedLines, export.csv.lines>>
    BY <1>8 DEF Assess, ApprovedLines
  <2> QED
    BY <2>2, <2>3, <2>4 DEF Contract!Recommend
<1>9. ASSUME NEW t \in Tabs, NEW key \in Keys, NEW body \in BodyType, Decide(t, key, body)
      PROVE  Contract!Approve \/ Contract!Refuse \/ Contract!Ask
  <2>1. claim.state = "AWAITING_REVIEW" /\ claim'.state = Target[body.action]
    BY <1>9, DecideStamps DEF Decide, ClaimInv, RowsInv, TypeOK
  <2>2. Phase = "REVIEW"
    BY <2>1, PhaseOfState
  <2>3. AssessedLines = LinesOf(links) /\ ApprovedLines = {}
    BY <2>1, MappedHistory DEF Closed
  <2>4. ApprovedLines' = IF body.action = "APPROVE" THEN LinesOf(links) ELSE {}
    BY <1>9, DecideKeepsReview DEF ClaimInv
  <2>5. UNCHANGED <<LinesOf(links), AssessedLines, export.csv.lines>>
    BY <1>9 DEF Decide, AssessedLines, LatestAttempts
  <2>6. body.action \in Actions
    BY DEF BodyType
  <2>7. CASE body.action = "APPROVE"
    <3>1. Phase' = "APPROVED"
      BY <2>1, <2>7, PhaseOfNextState DEF Target
    <3> QED
      BY <2>2, <2>3, <2>4, <2>5, <2>7, <3>1 DEF Contract!Approve
  <2>8. CASE body.action = "REJECT"
    <3>1. Phase' = "REFUSED"
      BY <2>1, <2>8, PhaseOfNextState DEF Target
    <3> QED
      BY <2>2, <2>3, <2>4, <2>5, <2>8, <3>1 DEF Contract!Refuse
  <2>9. CASE body.action = "REQUEST_INFORMATION"
    <3>1. Phase' = "ASKED"
      BY <2>1, <2>9, PhaseOfNextState DEF Target
    <3> QED
      BY <2>2, <2>3, <2>4, <2>5, <2>9, <3>1 DEF Contract!Ask
  <2> QED
    BY <2>6, <2>7, <2>8, <2>9 DEF Actions
<1>10. ASSUME NEW t \in Tabs, NEW code \in Codes, ExportSucceeds(t, code)
       PROVE  Contract!Book
  <2>1. /\ claim.state \in {"READY_TO_EXPORT", "EXPORT_FAILED"}
        /\ claim'.state = "EXPORTED"
    BY <1>10, MovedType DEF ExportSucceeds, MayExport, ClaimInv, RowsInv, TypeOK, States
  <2>2. Phase = "APPROVED" /\ Phase' = "BOOKED"
    BY <2>1, PhaseOfState, PhaseOfNextState
  <2>3. ApprovedLines = LinesOf(links) /\ CsvLines = LinesOf(links)
    BY <2>1, MappedHistory, CsvIsTheReport DEF Closed, ClaimInv, ReviewInv
  <2>4. export'.csv.lines = CsvLines
    BY <1>10 DEF ExportSucceeds
  <2>5. UNCHANGED <<LinesOf(links), AssessedLines, ApprovedLines>>
    BY <1>10 DEF ExportSucceeds, AssessedLines, ApprovedLines, LatestAttempts
  <2> QED
    BY <2>2, <2>3, <2>4, <2>5 DEF Contract!Book
<1>11. ASSUME NEW t \in Tabs, NEW code \in Codes, ExportFails(t, code)
       PROVE  UNCHANGED Contract!contractVars
  <2>1. /\ claim.state \in {"READY_TO_EXPORT", "EXPORT_FAILED"}
        /\ claim'.state = "EXPORT_FAILED"
    BY <1>11, MovedType DEF ExportFails, MayExport, ClaimInv, RowsInv, TypeOK, States
  <2>2. Phase = "APPROVED" /\ Phase' = "APPROVED"
    BY <2>1, PhaseOfState, PhaseOfNextState
  <2>3. export.csv.lines = {} /\ export'.csv.lines = {}
    BY <1>11, <2>1 DEF ExportFails, EmptyCsv, ClaimInv, ReviewInv, BookedLast
  <2>4. UNCHANGED <<LinesOf(links), AssessedLines, ApprovedLines>>
    BY <1>11 DEF ExportFails, AssessedLines, ApprovedLines, LatestAttempts
  <2> QED
    BY <2>2, <2>3, <2>4
<1>12. CASE UNCHANGED vars
  BY <1>1, <1>12 DEF vars
<1>13. CASE Next
  <2>1. UNCHANGED Contract!contractVars \/ Contract!ContractNext
    BY <1>2, <1>3, <1>5, <1>6, <1>7, <1>8, <1>9, <1>10, <1>11, <1>13
       DEF Next, SubmitExpense, SubmitReport
  <2> QED
    BY <2>1
<1> QED
  BY <1>12, <1>13

(* The accounting file holds exactly the lines a reviewer approved, which  *)
(* are the lines assessed, and it is written once: a claim implements its  *)
(* contract.                                                               *)
THEOREM ImplementsContract == Spec => KeepsContract
<1>1. Init => Contract!ContractInit
  <2> SUFFICES ASSUME Init PROVE Contract!ContractInit
    OBVIOUS
  <2>1. Phase = "ABSENT"
    BY PhaseOfState DEF Init, NoClaim
  <2>2. LinesOf(links) = {} /\ AssessedLines = {} /\ ApprovedLines = {}
    BY DEF Init, LinesOf, Current, AssessedLines, LatestAttempts, ApprovedLines
  <2>3. export.csv.lines = {}
    BY DEF Init, NoExport, EmptyCsv
  <2> QED
    BY <2>1, <2>2, <2>3 DEF Contract!ContractInit
<1> QED
  BY <1>1, ContractStep, ClaimInvariant, PTL DEF Spec, KeepsContract, Contract!ContractSpec

-----------------------------------------------------------------------------
(* A reviewer who passes the version check is looking at what is stored.   *)
LEMMA ShownIsStored ==
  ASSUME FreshViewIsTrue, NEW t \in Tabs, views[t].stage = "SHOWN", Matches(views[t].version)
  PROVE  views[t].lines = LinesOf(links) /\ views[t].recommendation = Recommended(attempts)
BY DEF FreshViewIsTrue, Matches

(* A decision is stored with what its reviewer was shown.                  *)
LEMMA DecidesAsShown ==
  ASSUME ClaimInv, FreshViewIsTrue, NEW t \in Tabs, NEW key \in Keys, NEW body \in BodyType,
         Decide(t, key, body)
  PROVE  \A d \in decisions' \ decisions :
           /\ views[t].stage = "SHOWN" /\ UserOf[t] = d.actor
           /\ d.evidence = views[t].lines /\ d.observed = views[t].recommendation
<1>1. /\ views[t].stage = "SHOWN" /\ Matches(views[t].version)
      /\ claim.state = "AWAITING_REVIEW"
  BY DEF Decide
<1>2. attempts # {}
  BY <1>1 DEF ClaimInv, ReviewInv, AssessedOnCurrentEvidence, LatestAttempts
<1>3. Observed = views[t].recommendation /\ LinesOf(links) = views[t].lines
  BY <1>1, <1>2, ShownIsStored DEF Observed
<1>4. \A d \in decisions' \ decisions :
        d.actor = UserOf[t] /\ d.observed = Observed /\ d.evidence = LinesOf(links)
  BY DEF Decide
<1> QED
  BY <1>1, <1>3, <1>4

(* An accounting file holds what the exporting tab showed.                 *)
LEMMA ExportsAsShown ==
  ASSUME ClaimInv, FreshViewIsTrue, NEW t \in Tabs, NEW code \in Codes,
         ExportSucceeds(t, code)
  PROVE  /\ views[t].stage = "SHOWN" /\ Role(t) \in {"REVIEWER", "ADMIN"}
         /\ export'.csv.lines = views[t].lines
<1>1. /\ views[t].stage = "SHOWN" /\ Role(t) \in {"REVIEWER", "ADMIN"}
      /\ Matches(views[t].version) /\ claim.state # "NONE"
  BY DEF ExportSucceeds, MayExport
<1>2. CsvLines = LinesOf(links)
  BY <1>1, CsvIsTheReport DEF ClaimInv, ReviewInv
<1> QED
  BY <1>1, <1>2, ShownIsStored DEF ExportSucceeds

(* What you see is what you sign: optimistic concurrency, the unchanging   *)
(* assessment of a revision and the paid lines together make every         *)
(* decision and every accounting file those of a screen.                   *)
THEOREM ActsAsShown == Spec => ActsOnWhatIsShown
<1>1. ASSUME ClaimInv, FreshViewIsTrue, [Next]_vars
      PROVE  DecidedAsShown /\ ExportedAsShown
  <2>1. ASSUME UNCHANGED <<decisions, export>>
        PROVE  DecidedAsShown /\ ExportedAsShown
    BY <2>1 DEF DecidedAsShown, ExportedAsShown
  <2>2. CASE UNCHANGED vars
    BY <2>1, <2>2 DEF vars, stored
  <2>3. ASSUME NEW t \in Tabs, ReadRow(t) \/ ReadAttempts(t) \/ ReadLinks(t)
        PROVE  DecidedAsShown /\ ExportedAsShown
    BY <2>1, <2>3 DEF ReadRow, ReadAttempts, ReadLinks, stored
  <2>4. ASSUME NEW t \in Tabs, NEW items, Submit(t, items)
        PROVE  DecidedAsShown /\ ExportedAsShown
    BY <2>1, <2>4 DEF Submit
  <2>5. ASSUME NEW recommendation \in Recommendations, Assess(recommendation)
        PROVE  DecidedAsShown /\ ExportedAsShown
    BY <2>1, <2>5 DEF Assess
  <2>6. ASSUME NEW t \in Tabs, NEW key \in Keys, NEW body \in BodyType, Decide(t, key, body)
        PROVE  DecidedAsShown /\ ExportedAsShown
    <3>1. ExportedAsShown
      BY <2>6 DEF Decide, ExportedAsShown
    <3> QED
      BY <1>1, <2>6, <3>1, DecidesAsShown DEF DecidedAsShown
  <2>7. ASSUME NEW header, NEW newLinks, Resubmitted(header, newLinks)
        PROVE  DecidedAsShown /\ ExportedAsShown
    BY <2>1, <2>7 DEF Resubmitted
  <2>8. ASSUME NEW t \in Tabs, NEW items, ResubmitAppend(t, items) \/ ResubmitReplace(t, items)
        PROVE  DecidedAsShown /\ ExportedAsShown
    BY <2>7, <2>8 DEF ResubmitAppend, ResubmitReplace, Report
  <2>9. ASSUME NEW t \in Tabs, NEW receipt, ResubmitReceipt(t, receipt)
        PROVE  DecidedAsShown /\ ExportedAsShown
    BY <2>7, <2>9 DEF ResubmitReceipt
  <2>10. ASSUME NEW t \in Tabs, ResubmitPurpose(t)
         PROVE  DecidedAsShown /\ ExportedAsShown
    BY <2>7, <2>10 DEF ResubmitPurpose
  <2>11. ASSUME NEW t \in Tabs, NEW code \in Codes, ExportSucceeds(t, code)
         PROVE  DecidedAsShown /\ ExportedAsShown
    <3>1. DecidedAsShown
      BY <2>11 DEF ExportSucceeds, DecidedAsShown
    <3> QED
      BY <1>1, <2>11, <3>1, ExportsAsShown DEF ExportedAsShown
  <2>12. ASSUME NEW t \in Tabs, NEW code \in Codes, ExportFails(t, code)
         PROVE  DecidedAsShown /\ ExportedAsShown
    BY <2>12 DEF ExportFails, EmptyCsv, DecidedAsShown, ExportedAsShown
  <2> QED
    BY <1>1, <2>2, <2>3, <2>4, <2>5, <2>6, <2>8, <2>9, <2>10, <2>11, <2>12
       DEF Next, SubmitExpense, SubmitReport
<1>2. ClaimInv /\ FreshViewIsTrue /\ [Next]_vars => [DecidedAsShown /\ ExportedAsShown]_vars
  BY <1>1
<1> QED
  BY <1>2, ClaimInvariant, FreshViews, PTL DEF Spec, ActsOnWhatIsShown

-----------------------------------------------------------------------------
(***************************************************************************)
(* The evidence: links, their history and the claim's own columns.         *)
(***************************************************************************)
Chained(ls) ==
  /\ \A l, m \in ls :
       /\ LinkId(l) = LinkId(m) => l = m
       /\ l.revision = m.revision /\ l.receipt = m.receipt => l = m
       /\ l.supersedes = m.supersedes /\ l.supersedes # NoLink => l = m
  /\ \A l \in ls : l.supersedes # NoLink =>
       \E m \in ls : l.supersedes = LinkId(m) /\ m.revision < l.revision /\ ~m.current

(* The inductive invariant of the evidence, given the types.               *)
EvidenceInv ==
  /\ Chained(links)
  /\ \A l \in links : l.revision <= claim.revision
  /\ claim.state = "NONE" => links = {}
  /\ HeaderMatchesLines

(* The links of a new revision, each superseding at most one link that was *)
(* current, extend the chains.                                             *)
LEMMA ChainsGrow ==
  ASSUME NEW ls \in SUBSET LinkType, Chained(ls),
         NEW r \in Nat, \A l \in ls : l.revision <= r,
         NEW new \in SUBSET LinkType,
         \A l \in new :
           /\ l.revision = r + 1
           /\ l.supersedes = NoLink \/ \E m \in Current(ls) : l.supersedes = LinkId(m),
         \A l, m \in new :
           /\ l.position = m.position => l = m
           /\ l.receipt = m.receipt => l = m
           /\ l.supersedes = m.supersedes /\ l.supersedes # NoLink => l = m
  PROVE  /\ Chained(Superseded(ls) \cup new)
         /\ \A l \in Superseded(ls) \cup new : l.revision <= r + 1
<1> DEFINE old(l) == [l EXCEPT !.current = FALSE]
           Same(k, l) == /\ k.revision = l.revision /\ k.position = l.position
                         /\ k.receipt = l.receipt /\ k.supersedes = l.supersedes
<1>1. \A l \in ls : old(l) \in Superseded(ls) /\ Same(old(l), l) /\ ~old(l).current
  BY DEF Superseded, LinkType
<1>2. \A k \in Superseded(ls) : \E l \in ls : k = old(l) /\ Same(k, l)
  BY DEF Superseded, LinkType
<1>3. \A l \in ls : l.revision \in Nat /\ l.position \in Nat
  BY DEF LinkType
<1> HIDE DEF old
<1>4. ASSUME NEW k \in Superseded(ls), NEW j \in Superseded(ls)
      PROVE  /\ LinkId(k) = LinkId(j) => k = j
             /\ k.revision = j.revision /\ k.receipt = j.receipt => k = j
             /\ k.supersedes = j.supersedes /\ k.supersedes # NoLink => k = j
  <2>1. PICK l \in ls : k = old(l) /\ Same(k, l)
    BY <1>2
  <2>2. PICK m \in ls : j = old(m) /\ Same(j, m)
    BY <1>2
  <2> QED
    BY <2>1, <2>2 DEF Chained, LinkId
<1>5. ASSUME NEW k \in Superseded(ls), NEW n \in new
      PROVE  /\ k.revision < n.revision /\ LinkId(k) # LinkId(n)
             /\ k.supersedes = n.supersedes => k.supersedes = NoLink
  <2>1. PICK l \in ls : k = old(l) /\ Same(k, l)
    BY <1>2
  <2>2. k.revision < n.revision
    BY <1>3, <2>1
  <2>3. LinkId(k) # LinkId(n)
    BY <2>2, <1>3, <2>1 DEF LinkId
  <2>4. ASSUME k.supersedes = n.supersedes, k.supersedes # NoLink
        PROVE  FALSE
    <3>1. PICK m \in ls : l.supersedes = LinkId(m) /\ ~m.current
      BY <2>1, <2>4 DEF Chained
    <3>2. PICK c \in Current(ls) : n.supersedes = LinkId(c)
      BY <2>4
    <3>3. m = c
      <4>1. LinkId(m) = LinkId(c)
        BY <2>1, <2>4, <3>1, <3>2
      <4>2. m \in ls /\ c \in ls
        BY DEF Current
      <4> QED
        BY <4>1, <4>2 DEF Chained
    <3> QED
      BY <3>1, <3>2, <3>3 DEF Current
  <2> QED
    BY <2>2, <2>3, <2>4
<1>6. ASSUME NEW n \in new, NEW m \in new
      PROVE  LinkId(n) = LinkId(m) => n = m
  BY DEF LinkId
<1>7. ASSUME NEW k \in Superseded(ls) \cup new, k.supersedes # NoLink
      PROVE  \E j \in Superseded(ls) :
               k.supersedes = LinkId(j) /\ j.revision < k.revision /\ ~j.current
  <2>1. CASE k \in Superseded(ls)
    <3>1. PICK l \in ls : Same(k, l)
      BY <1>2, <2>1
    <3>2. PICK m \in ls : l.supersedes = LinkId(m) /\ m.revision < l.revision
      BY <1>7, <3>1 DEF Chained
    <3> QED
      BY <1>1, <3>1, <3>2 DEF LinkId
  <2>2. CASE k \in new
    <3>1. PICK m \in ls : k.supersedes = LinkId(m)
      BY <1>7, <2>2 DEF Current
    <3>2. m.revision < k.revision
      BY <1>3, <2>2
    <3> QED
      BY <1>1, <3>1, <3>2 DEF LinkId
  <2> QED
    BY <1>7, <2>1, <2>2
<1>8. \A k \in Superseded(ls) \cup new : k.revision <= r + 1
  <2>1. \A k \in Superseded(ls) : k.revision <= r /\ k.revision \in Nat
    BY <1>2, <1>3
  <2> QED
    BY <2>1
<1>9. ASSUME NEW k \in Superseded(ls) \cup new, NEW j \in Superseded(ls) \cup new
      PROVE  /\ LinkId(k) = LinkId(j) => k = j
             /\ k.revision = j.revision /\ k.receipt = j.receipt => k = j
             /\ k.supersedes = j.supersedes /\ k.supersedes # NoLink => k = j
  <2>1. CASE k \in Superseded(ls) /\ j \in Superseded(ls)
    BY <1>4, <2>1
  <2>2. CASE k \in new /\ j \in new
    BY <1>6, <2>2
  <2>3. ASSUME NEW o \in Superseded(ls), NEW n \in new
        PROVE  LinkId(o) # LinkId(n) /\ o.revision # n.revision
               /\ (o.supersedes = n.supersedes => o.supersedes = NoLink)
    <3>1. o.revision \in Nat
      BY <1>2, <1>3
    <3> QED
      BY <1>5, <3>1
  <2> QED
    BY <1>9, <2>1, <2>2, <2>3
<1> QED
  BY <1>7, <1>8, <1>9 DEF Chained

(* The links of a report in the order of their positions are its items.    *)
ReadsBack(ls, items) ==
  LET lines == ByPosition(Current(ls))
  IN  [p \in DOMAIN lines |-> LineOf(lines[p])] = items /\ Len(lines) <= MaxLines

LEMMA ReportReadsBack ==
  ASSUME NEW n \in 1..MaxLines, NEW items \in [1..n -> Line], NEW revision \in Nat,
         NEW old \in SUBSET LinkType,
         NEW ls, Current(ls) = ReportLinks(revision, items, old)
  PROVE  ReadsBack(ls, items)
<1> DEFINE link(p) == NewLink(revision, p, items[p], {l \in old : l.position = p})
           new == ReportLinks(revision, items, old)
           lines == ByPosition(new)
<1>1. new = {link(p) : p \in 1..n}
  BY DEF ReportLinks
<1>2. \A p \in 1..n : link(p).position = p /\ LineOf(link(p)) = items[p]
  BY DEF NewLink, LineOf, Line
<1> HIDE DEF link, new
<1>3. Positions(new) = 1..n
  BY <1>1, <1>2 DEF Positions
<1>4. \A p \in 1..n : (CHOOSE l \in new : l.position = p) = link(p)
  BY <1>1, <1>2
<1>5. lines = [p \in 1..n |-> link(p)]
  BY <1>3, <1>4 DEF ByPosition
<1>6. Len(lines) = n /\ n <= MaxLines
  BY <1>5, ConstantsAssumption
<1>7. [p \in DOMAIN lines |-> LineOf(lines[p])] = items
  BY <1>2, <1>5
<1> QED
  BY <1>6, <1>7 DEF new, ReadsBack

(* A report in a new revision keeps the evidence, and each of its links    *)
(* supersedes the line at its position.                                    *)
LEMMA ReportKeepsEvidence ==
  ASSUME TypeOK, ReportInOrder, Chained(links),
         NEW r \in Nat, \A l \in links : l.revision <= r,
         NEW n \in 1..MaxLines, NEW items \in [1..n -> Line], Distinct(items),
         links' = Superseded(links) \cup ReportLinks(r + 1, items, Current(links)),
         claim'.revision = r + 1, claim'.header = Header(items), claim'.state # "NONE"
  PROVE  EvidenceInv'
<1> DEFINE at(p) == {l \in Current(links) : l.position = p}
           link(p) == NewLink(r + 1, p, items[p], at(p))
           new == ReportLinks(r + 1, items, Current(links))
<1>1. n \in Nat /\ links \in SUBSET LinkType /\ Current(links) \in SUBSET LinkType
  BY ConstantsAssumption DEF TypeOK, Current
<1>2. new \in SUBSET LinkType /\ Current(new) = new
  BY <1>1, ReportLinksAreLinks
<1>3. new = {link(p) : p \in 1..n}
  BY DEF ReportLinks
<1>4. \A p \in 1..n : /\ link(p).revision = r + 1 /\ link(p).position = p
                      /\ link(p).receipt = items[p].receipt
  BY DEF NewLink
<1>14. \A p \in 1..n : link(p).supersedes =
         IF at(p) = {} THEN NoLink ELSE LinkId(CHOOSE l \in at(p) : TRUE)
  BY DEF NewLink
<1> HIDE DEF link, new
<1>5. ASSUME NEW p \in 1..n, link(p).supersedes # NoLink
      PROVE  \E m \in Current(links) : m.position = p /\ link(p).supersedes = LinkId(m)
  <2> DEFINE previous == CHOOSE l \in at(p) : TRUE
  <2>1. at(p) # {} /\ link(p).supersedes = LinkId(previous)
    BY <1>14, <1>5
  <2>2. previous \in at(p)
    BY <2>1
  <2> HIDE DEF previous
  <2> QED
    BY <2>1, <2>2
<1> HIDE DEF at
<1>6. ASSUME NEW p \in 1..n, NEW q \in 1..n, link(p).supersedes = link(q).supersedes,
             link(p).supersedes # NoLink
      PROVE  p = q
  <2>1. PICK l \in Current(links) : l.position = p /\ link(p).supersedes = LinkId(l)
    BY <1>5, <1>6
  <2>2. PICK m \in Current(links) : m.position = q /\ link(q).supersedes = LinkId(m)
    BY <1>5, <1>6
  <2>3. LinkId(l) = LinkId(m)
    BY <1>6, <2>1, <2>2
  <2>4. l.position = m.position
    BY <2>3 DEF LinkId
  <2> QED
    BY <2>1, <2>2, <2>4
<1>7. \A p, q \in 1..n : link(p).receipt = link(q).receipt => p = q
  <2>1. DOMAIN items = 1..n
    OBVIOUS
  <2> QED
    BY <1>4, <2>1 DEF Distinct
<1>8. \A l \in new : l.revision = r + 1
                     /\ (l.supersedes = NoLink \/ \E m \in Current(links) : l.supersedes = LinkId(m))
  BY <1>3, <1>4, <1>5
<1>9. \A l, m \in new : /\ l.position = m.position => l = m
                        /\ l.receipt = m.receipt => l = m
                        /\ l.supersedes = m.supersedes /\ l.supersedes # NoLink => l = m
  BY <1>3, <1>4, <1>6, <1>7
<1>10. links' = Superseded(links) \cup new
  BY DEF new
<1>11. Chained(links') /\ \A l \in links' : l.revision <= r + 1
  BY <1>1, <1>2, <1>8, <1>9, <1>10, ChainsGrow
<1>12. Current(links') = new
  BY <1>1, <1>2, <1>10, SupersededAreLinks DEF Current
<1>13. HeaderMatchesLines'
  <2>1. r + 1 \in Nat
    OBVIOUS
  <2>2. Current(links') = ReportLinks(r + 1, items, Current(links))
    BY <1>12 DEF new
  <2>3. ReadsBack(links', items)
    BY <1>1, <2>1, <2>2, ReportReadsBack
  <2> QED
    BY <2>3 DEF HeaderMatchesLines, ReadsBack
<1> QED
  BY <1>11, <1>13 DEF EvidenceInv

(* A step that leaves the links and the claim's header alone.              *)
LEMMA EvidenceUntouched ==
  ASSUME RowsInv, EvidenceInv, UNCHANGED links, claim.state # "NONE",
         claim'.state # "NONE", claim'.header = claim.header,
         claim'.revision \in {claim.revision, claim.revision + 1}
  PROVE  EvidenceInv'
<1>1. claim.revision \in Nat /\ \A l \in links : l.revision \in Nat
  BY DEF RowsInv, TypeOK, ClaimType, LinkType
<1>2. \A l \in links' : l.revision <= claim'.revision
  BY <1>1 DEF EvidenceInv
<1>3. Chained(links')
  BY DEF EvidenceInv
<1>4. HeaderMatchesLines'
  BY DEF EvidenceInv, HeaderMatchesLines
<1> QED
  BY <1>2, <1>3, <1>4 DEF EvidenceInv

(* The first submission.                                                   *)
LEMMA SubmitKeepsEvidence ==
  ASSUME RowsInv, EvidenceInv, NEW t \in Tabs, NEW n \in 1..MaxLines,
         NEW items \in [1..n -> Line], Distinct(items), Submit(t, items)
  PROVE  EvidenceInv'
<1>1. links = {} /\ 0 + 1 = 1
  BY DEF Submit, EvidenceInv
<1>2. Superseded(links) = {} /\ Current(links) = {}
  BY <1>1 DEF Superseded, Current
<1>3. links' = Superseded(links) \cup ReportLinks(0 + 1, items, Current(links))
  BY <1>1, <1>2 DEF Submit
<1>4. claim'.revision = 0 + 1 /\ claim'.header = Header(items) /\ claim'.state # "NONE"
  BY <1>1 DEF Submit, NoClaim
<1>5. \A l \in links : l.revision <= 0
  BY <1>1
<1>6. TypeOK /\ ReportInOrder /\ Chained(links) /\ 0 \in Nat
  BY DEF RowsInv, EvidenceInv
<1> QED
  BY <1>3, <1>4, <1>5, <1>6, ReportKeepsEvidence

(* An answer that gives the report again.                                  *)
LEMMA AnswerKeepsEvidence ==
  ASSUME RowsInv, EvidenceInv, NEW n \in 1..MaxLines, NEW items \in [1..n -> Line],
         Distinct(items), Report(items)
  PROVE  EvidenceInv'
<1>1. Resubmitted(Header(items),
        Superseded(links) \cup ReportLinks(claim.revision + 1, items, Current(links)))
  BY DEF Report
<1>2. /\ claim'.revision = claim.revision + 1 /\ claim'.header = Header(items)
      /\ claim'.state # "NONE"
  BY <1>1, ResubmittedStamps DEF RowsInv, TypeOK
<1>3. links' = Superseded(links) \cup ReportLinks(claim.revision + 1, items, Current(links))
  BY <1>1 DEF Resubmitted
<1>4. /\ claim.revision \in Nat /\ TypeOK /\ ReportInOrder /\ Chained(links)
      /\ \A l \in links : l.revision <= claim.revision
  BY DEF RowsInv, TypeOK, ClaimType, EvidenceInv
<1> QED
  BY <1>2, <1>3, <1>4, ReportKeepsEvidence

(* The link of a replacement receipt.                                      *)
LEMMA ReplacementLink ==
  ASSUME RowsInv, NEW item \in Line, NEW previous \in Current(links), NEW link,
         link = [NewLink(claim.revision + 1, 1, item, {previous})
                   EXCEPT !.kind = "REPLACEMENT_RECEIPT"]
  PROVE  /\ link \in LinkType /\ link.current
         /\ link.revision = claim.revision + 1 /\ link.position = 1
         /\ LineOf(link) = item
         /\ link.supersedes = LinkId(previous)
<1> DEFINE kind == AttachmentType(claim.revision + 1, item, {previous})
           older == LinkId(CHOOSE l \in {previous} : TRUE)
           new == NewLink(claim.revision + 1, 1, item, {previous})
<1>1. new = [revision |-> claim.revision + 1, position |-> 1,
             receipt |-> item.receipt, amount |-> item.amount,
             kind |-> kind, current |-> TRUE, supersedes |-> older]
  BY DEF NewLink
<1>2. previous \in LinkType /\ claim.revision + 1 \in Nat
  BY DEF RowsInv, TypeOK, Current, ClaimType
<1>3. older = LinkId(previous)
  <2>1. (CHOOSE l \in {previous} : TRUE) = previous
    OBVIOUS
  <2> QED
    BY <2>1
<1>4. LinkId(previous) \in Nat \X Nat
  BY <1>2 DEF LinkId, LinkType
<1>5. kind \in Kinds /\ "REPLACEMENT_RECEIPT" \in Kinds
  BY DEF AttachmentType, Kinds
<1> HIDE DEF kind, older, new
<1>6. new \in LinkType
  BY <1>1, <1>2, <1>3, <1>4, <1>5 DEF LinkType, Line
<1>7. link = [new EXCEPT !.kind = "REPLACEMENT_RECEIPT"]
  BY DEF new
<1>8. link \in LinkType
  BY <1>5, <1>6, <1>7 DEF LinkType
<1>9. /\ link.current /\ link.revision = claim.revision + 1 /\ link.position = 1
      /\ link.receipt = item.receipt /\ link.amount = item.amount
      /\ link.supersedes = LinkId(previous)
  BY <1>1, <1>3, <1>6, <1>7 DEF LinkType
<1>10. LineOf(link) = item
  BY <1>9 DEF LineOf, Line
<1> QED
  BY <1>8, <1>9, <1>10

(* An answer that replaces the receipt.                                    *)
LEMMA ReceiptKeepsEvidence ==
  ASSUME RowsInv, EvidenceInv, NEW t \in Tabs, NEW receipt \in Receipts,
         ResubmitReceipt(t, receipt)
  PROVE  EvidenceInv'
<1> DEFINE item == [receipt |-> receipt, amount |-> Or(Extracted[receipt], claim.header.amount)]
           replacing(l) == [NewLink(claim.revision + 1, 1, item, {l})
                              EXCEPT !.kind = "REPLACEMENT_RECEIPT"]
<1>1. PICK previous \in Current(links) :
        Resubmitted(Header(<<item>>), Superseded(links) \cup {replacing(previous)})
  BY DEF ResubmitReceipt
<1>2. claim.header.amount \in Nat /\ Extracted[receipt] \in Nat /\ claim.revision \in Nat
  BY ConstantsAssumption DEF RowsInv, TypeOK, ClaimType, HeaderType
<1>3. item \in Line
  BY <1>2 DEF Or, NoAmount, Line
<1>4. PICK link : link = replacing(previous)
  OBVIOUS
<1>5. links' = Superseded(links) \cup {link}
  BY <1>1, <1>4 DEF Resubmitted
<1>6. /\ claim'.revision = claim.revision + 1 /\ claim'.state # "NONE"
      /\ claim'.header = Header(<<item>>)
  BY <1>1, ResubmittedStamps DEF RowsInv, TypeOK
<1>7. PICK line \in Line : line = item
  BY <1>3
<1>8. claim'.header = Header(<<line>>)
  BY <1>6, <1>7
<1>9. link = [NewLink(claim.revision + 1, 1, line, {previous})
                EXCEPT !.kind = "REPLACEMENT_RECEIPT"]
  BY <1>4, <1>7
<1> HIDE DEF item, replacing
<1>10. /\ link \in LinkType /\ link.current
       /\ link.revision = claim.revision + 1 /\ link.position = 1
       /\ LineOf(link) = line
       /\ link.supersedes = LinkId(previous)
  BY <1>9, ReplacementLink
<1>11. /\ links \in SUBSET LinkType /\ Chained(links)
       /\ \A l \in links : l.revision <= claim.revision
  BY DEF RowsInv, TypeOK, EvidenceInv
<1>12. Chained(links') /\ \A l \in links' : l.revision <= claim.revision + 1
  <2>1. {link} \in SUBSET LinkType
    BY <1>10
  <2>2. \A l \in {link} :
          /\ l.revision = claim.revision + 1
          /\ l.supersedes = NoLink \/ \E m \in Current(links) : l.supersedes = LinkId(m)
    BY <1>10
  <2>3. \A l, m \in {link} :
          /\ l.position = m.position => l = m
          /\ l.receipt = m.receipt => l = m
          /\ l.supersedes = m.supersedes /\ l.supersedes # NoLink => l = m
    OBVIOUS
  <2> QED
    BY <1>2, <1>5, <1>11, <2>1, <2>2, <2>3, ChainsGrow
<1>13. Current(links') = {link}
  BY <1>5, <1>10, <1>11, SupersededAreLinks DEF Current
<1>14. HeaderMatchesLines'
  <2> DEFINE lines == ByPosition({link})
  <2>1. Positions({link}) = 1..1
    BY <1>10 DEF Positions
  <2>2. (CHOOSE l \in {link} : l.position = 1) = link
    BY <1>10
  <2>3. lines = [p \in 1..1 |-> link]
    BY <2>1, <2>2 DEF ByPosition
  <2>4. Len(lines) = 1 /\ 1 <= MaxLines
    BY <2>3, ConstantsAssumption
  <2>5. [p \in DOMAIN lines |-> LineOf(lines[p])] = <<line>>
    BY <1>10, <2>3
  <2> QED
    BY <1>8, <1>13, <2>4, <2>5 DEF HeaderMatchesLines
<1> QED
  BY <1>6, <1>12, <1>14 DEF EvidenceInv

(* Every step keeps the evidence.                                          *)
LEMMA EvidenceStep == RowsInv /\ EvidenceInv /\ [Next]_vars => EvidenceInv'
<1> SUFFICES ASSUME RowsInv, EvidenceInv, [Next]_vars PROVE EvidenceInv'
  OBVIOUS
<1>1. ASSUME UNCHANGED stored
      PROVE  EvidenceInv'
  BY <1>1 DEF stored, EvidenceInv, HeaderMatchesLines
<1>2. ASSUME NEW t \in Tabs, ReadRow(t) \/ ReadAttempts(t) \/ ReadLinks(t)
      PROVE  EvidenceInv'
  BY <1>1, <1>2 DEF ReadRow, ReadAttempts, ReadLinks
<1>3. ASSUME NEW t \in Tabs, NEW item \in Items, SubmitExpense(t, item)
      PROVE  EvidenceInv'
  <2>1. Amounts \subseteq Nat
    BY ConstantsAssumption
  <2>2. item \in Line
    BY <2>1 DEF Items, Line
  <2>3. <<item>> \in [1..1 -> Line] /\ 1 \in 1..MaxLines /\ Distinct(<<item>>)
    BY <2>2, ConstantsAssumption DEF Distinct
  <2> QED
    BY <1>3, <2>3, SubmitKeepsEvidence DEF SubmitExpense
<1>4. ASSUME NEW t \in Tabs, NEW items \in ItemLists, SubmitReport(t, items)
      PROVE  EvidenceInv'
  <2>1. PICK n \in 1..MaxLines : items \in [1..n -> Line]
    BY ItemListsAreLines
  <2>2. Distinct(items)
    BY DEF ItemLists
  <2> QED
    BY <1>4, <2>1, <2>2, SubmitKeepsEvidence DEF SubmitReport
<1>5. ASSUME NEW t \in Tabs, NEW items \in ItemLists, ResubmitReplace(t, items)
      PROVE  EvidenceInv'
  <2>1. PICK n \in 1..MaxLines : items \in [1..n -> Line]
    BY ItemListsAreLines
  <2>2. Distinct(items)
    BY DEF ItemLists
  <2> QED
    BY <1>5, <2>1, <2>2, AnswerKeepsEvidence DEF ResubmitReplace
<1>6. ASSUME NEW t \in Tabs, NEW items \in ItemLists, ResubmitAppend(t, items)
      PROVE  EvidenceInv'
  <2>1. PICK n \in 1..MaxLines : Appended(items) \in [1..n -> PaidLine]
    BY <1>6, AppendedArePaid
  <2>2. PaidLine \subseteq Line
    BY DEF PaidLine
  <2>3. Appended(items) \in [1..n -> Line]
    BY <2>1, <2>2
  <2> QED
    BY <1>6, <2>3, AnswerKeepsEvidence DEF ResubmitAppend
<1>7. ASSUME NEW t \in Tabs, ResubmitPurpose(t)
      PROVE  EvidenceInv'
  <2>1. Resubmitted(claim.header, links) /\ claim.state # "NONE"
    BY <1>7 DEF ResubmitPurpose, MayResubmit
  <2>2. /\ claim'.revision = claim.revision + 1 /\ claim'.state # "NONE"
        /\ claim'.header = claim.header /\ UNCHANGED links
    BY <2>1, ResubmittedStamps DEF RowsInv, TypeOK, Resubmitted
  <2> QED
    BY <2>1, <2>2, EvidenceUntouched
<1>8. ASSUME NEW to \in States, claim' = Moved(to), UNCHANGED links, claim.state # "NONE"
      PROVE  EvidenceInv'
  <2>1. claim'.revision = claim.revision /\ claim'.header = claim.header
        /\ claim'.state \in States
    BY <1>8, MovedType DEF RowsInv, TypeOK
  <2>2. claim'.state # "NONE"
    BY <2>1 DEF States
  <2> QED
    BY <1>8, <2>1, <2>2, EvidenceUntouched
<1>9. ASSUME NEW recommendation \in Recommendations, Assess(recommendation)
      PROVE  EvidenceInv'
  BY <1>8, <1>9 DEF Assess, States
<1>10. ASSUME NEW t \in Tabs, NEW key \in Keys, NEW body \in BodyType, Decide(t, key, body)
       PROVE  EvidenceInv'
  <2>1. claim'.revision = claim.revision /\ claim'.header = claim.header
        /\ claim'.state # "NONE" /\ UNCHANGED links /\ claim.state # "NONE"
    BY <1>10, DecideStamps DEF RowsInv, TypeOK, Stamped, Decide
  <2> QED
    BY <2>1, EvidenceUntouched
<1>11. ASSUME NEW t \in Tabs, NEW code \in Codes,
              ExportSucceeds(t, code) \/ ExportFails(t, code)
       PROVE  EvidenceInv'
  BY <1>8, <1>11 DEF ExportSucceeds, ExportFails, MayExport, States
<1>12. CASE UNCHANGED vars
  BY <1>1, <1>12 DEF vars
<1> QED
  BY <1>2, <1>3, <1>4, <1>5, <1>6, <1>7, <1>9, <1>10, <1>11, <1>12, ReceiptKeepsEvidence
     DEF Next

LEMMA EvidenceInvariant == Spec => [](RowsInv /\ EvidenceInv)
<1>1. Init => RowsInv /\ EvidenceInv
  <2> SUFFICES ASSUME Init PROVE EvidenceInv
    BY RowsInit
  <2> QED
    BY DEF Init, NoClaim, EvidenceInv, Chained, HeaderMatchesLines
<1>2. RowsInv /\ EvidenceInv /\ [Next]_vars => (RowsInv /\ EvidenceInv)'
  BY RowsStep, EvidenceStep
<1> QED
  BY <1>1, <1>2, PTL DEF Spec

(* The current links are the report, in order and never empty; no          *)
(* resubmission breaks a unique constraint of expense_receipts; and each   *)
(* superseded link is older and superseded once.                           *)
THEOREM EvidenceIsWellFormed == Spec => []EvidenceWellFormed
<1>1. RowsInv /\ EvidenceInv => EvidenceWellFormed
  BY DEF RowsInv, EvidenceInv, Chained, EvidenceWellFormed
<1> QED
  BY <1>1, EvidenceInvariant, PTL

(* The claim's own amount, receipt and hash are those of its current       *)
(* lines, whichever handler wrote them, for reports of any size.           *)
THEOREM HeadersMatch == Spec => []HeaderMatchesLines
<1>1. RowsInv /\ EvidenceInv => HeaderMatchesLines
  BY DEF EvidenceInv
<1> QED
  BY <1>1, EvidenceInvariant, PTL

(* Every step keeps every link, or unsets its current flag.                *)
LEMMA LinksStay ==
  ASSUME RowsInv, EvidenceInv, [Next]_vars
  PROVE  UNCHANGED links \/ Superseded(links) \subseteq links'
<1>1. ASSUME NEW t \in Tabs, NEW items, Submit(t, items)
      PROVE  Superseded(links) \subseteq links'
  BY <1>1 DEF Submit, EvidenceInv, Superseded
<1>2. ASSUME NEW items, Report(items)
      PROVE  Superseded(links) \subseteq links'
  BY <1>2 DEF Report, Resubmitted
<1>3. ASSUME NEW t \in Tabs, NEW receipt \in Receipts, ResubmitReceipt(t, receipt)
      PROVE  Superseded(links) \subseteq links'
  BY <1>3 DEF ResubmitReceipt, Resubmitted
<1>4. CASE UNCHANGED vars
  BY <1>4 DEF vars, stored
<1>5. CASE Next
  <2>1. ASSUME NEW t \in Tabs, ReadRow(t) \/ ReadAttempts(t) \/ ReadLinks(t)
        PROVE  UNCHANGED links
    BY <2>1 DEF ReadRow, ReadAttempts, ReadLinks, stored
  <2>2. ASSUME NEW t \in Tabs, NEW code \in Codes,
               ExportSucceeds(t, code) \/ ExportFails(t, code)
        PROVE  UNCHANGED links
    BY <2>2 DEF ExportSucceeds, ExportFails
  <2>3. ASSUME NEW recommendation \in Recommendations, Assess(recommendation)
        PROVE  UNCHANGED links
    BY <2>3 DEF Assess
  <2>4. ASSUME NEW t \in Tabs, NEW key \in Keys, NEW body \in BodyType, Decide(t, key, body)
        PROVE  UNCHANGED links
    BY <2>4 DEF Decide
  <2>5. ASSUME NEW t \in Tabs, ResubmitPurpose(t)
        PROVE  UNCHANGED links
    BY <2>5 DEF ResubmitPurpose, Resubmitted
  <2>6. ASSUME NEW t \in Tabs, NEW items \in ItemLists,
               ResubmitAppend(t, items) \/ ResubmitReplace(t, items)
        PROVE  Superseded(links) \subseteq links'
    BY <1>2, <2>6 DEF ResubmitAppend, ResubmitReplace
  <2> QED
    BY <1>1, <1>3, <1>5, <2>1, <2>2, <2>3, <2>4, <2>5, <2>6
       DEF Next, SubmitExpense, SubmitReport
<1> QED
  BY <1>4, <1>5

(* No step loses evidence: a link stays, current or superseded.            *)
THEOREM EvidenceGrows == Spec => EvidenceOnlyGrows
<1>1. ASSUME RowsInv, EvidenceInv, [Next]_vars
      PROVE  [\A l \in links : l \in links' \/ [l EXCEPT !.current = FALSE] \in links']_links
  <2>1. UNCHANGED links \/ Superseded(links) \subseteq links'
    BY <1>1, LinksStay
  <2> QED
    BY <2>1 DEF Superseded
<1>2. RowsInv /\ EvidenceInv /\ [Next]_vars =>
        [\A l \in links : l \in links' \/ [l EXCEPT !.current = FALSE] \in links']_links
  BY <1>1
<1> QED
  BY <1>2, EvidenceInvariant, PTL DEF Spec, EvidenceOnlyGrows

(* While every line is paid, what an APPEND carries over is the report.    *)
LEMMA CarriedIsTheReport ==
  ASSUME RowsInv, LinesPaid
  PROVE  /\ \E m \in Nat : Carried \in [1..m -> Line]
         /\ \A l \in Current(links) :
              l.position \in DOMAIN Carried /\ Carried[l.position] = LineOf(l)
<1>1. ASSUME NEW l \in Current(links)
      PROVE  l.position \in DOMAIN Carried /\ Carried[l.position] = LineOf(l)
  <2>1. l.position \in Positions(Current(links))
    BY DEF Positions
  <2>2. (CHOOSE k \in Current(links) : k.position = l.position) = l
    <3>1. \E k \in Current(links) : k.position = l.position
      OBVIOUS
    <3>2. LET c == CHOOSE k \in Current(links) : k.position = l.position
          IN  c \in Current(links) /\ c.position = l.position
      BY <3>1
    <3> QED
      BY <3>2 DEF RowsInv, ReportInOrder
  <2>3. ByPosition(Current(links))[l.position] = l
    BY <2>1, <2>2 DEF ByPosition
  <2>4. DOMAIN ByPosition(Current(links)) = Positions(Current(links))
    BY DEF ByPosition
  <2>5. CarriedAmount(l) = l.amount
    BY DEF LinesPaid, CarriedAmount, Or
  <2> QED
    BY <2>1, <2>3, <2>4, <2>5 DEF Carried, LineOf
<1> QED
  BY <1>1, CarriedAreLines DEF RowsInv

(* Appending evidence leaves every line already in the report as it was:   *)
(* the lines are rebuilt, and come out the same.                           *)
THEOREM AppendKeeps == Spec => AppendKeepsLines
<1>1. ASSUME ClaimInv, NEW t \in Tabs, NEW items \in ItemLists, ResubmitAppend(t, items)
      PROVE  LinesOf(links) \subseteq LinesOf(links')
  <2> SUFFICES ASSUME NEW l \in Current(links)
               PROVE  [position |-> l.position, line |-> LineOf(l)] \in LinesOf(links')
    BY DEF LinesOf
  <2> DEFINE all == Appended(items)
             p == l.position
             link == NewLink(claim.revision + 1, p, all[p],
                             {k \in Current(links) : k.position = p})
  <2>1. PICK m \in Nat : Carried \in [1..m -> Line]
    BY <1>1, CarriedIsTheReport DEF ClaimInv, ReviewInv
  <2>2. p \in 1..m /\ Carried[p] = LineOf(l)
    BY <1>1, <2>1, CarriedIsTheReport DEF ClaimInv, ReviewInv
  <2>3. PICK n \in 1..MaxLines : items \in [1..n -> Line]
    BY ItemListsAreLines
  <2>4. Carried \in Seq(Line) /\ Len(Carried) = m /\ items \in Seq(Line)
    BY <2>1, <2>3, ConstantsAssumption
  <2>5. p \in DOMAIN all /\ all[p] = LineOf(l)
    BY <2>2, <2>4 DEF Appended
  <2> HIDE DEF all, p
  <2>6. link \in links'
    <3>1. Report(all)
      BY <1>1 DEF ResubmitAppend, all
    <3>2. ReportLinks(claim.revision + 1, all, Current(links)) \subseteq links'
      BY <3>1 DEF Report, Resubmitted
    <3>3. link \in ReportLinks(claim.revision + 1, all, Current(links))
      BY <2>5 DEF ReportLinks
    <3> QED
      BY <3>2, <3>3
  <2>7. link.current /\ link.position = p /\ LineOf(link) = LineOf(l)
    BY <2>5 DEF NewLink, LineOf
  <2> HIDE DEF link
  <2>8. link \in Current(links')
    BY <2>6, <2>7 DEF Current
  <2> QED
    BY <2>7, <2>8 DEF LinesOf, p
<1>2. ClaimInv /\ [Next]_vars =>
        [(\E t \in Tabs, items \in ItemLists : ResubmitAppend(t, items))
           => LinesOf(links) \subseteq LinesOf(links')]_vars
  BY <1>1
<1> QED
  BY <1>2, ClaimInvariant, PTL DEF Spec, AppendKeepsLines

-----------------------------------------------------------------------------
(* Turns.                                                                  *)

(* A claim that exists has a revision, and one that does not has none.     *)
Numbered == claim.state = "NONE" <=> claim.revision = 0

LEMMA TurnTaken ==
  ASSUME ClaimInv, Numbered, [Next]_vars
  PROVE  Numbered' /\ [Rounds!Open \/ Rounds!Close]_(Rounds!roundVars)
<1> DEFINE Kept == Numbered' /\ UNCHANGED Rounds!roundVars
           Opened == Numbered' /\ Rounds!Open
<1>1. claim \in ClaimType /\ claim.revision \in Nat
  BY DEF ClaimInv, RowsInv, TypeOK, ClaimType
<1>2. ASSUME UNCHANGED attempts, claim'.revision = claim.revision,
             claim'.state = "NONE" <=> claim.state = "NONE"
      PROVE  Kept
  BY <1>2 DEF Numbered, Rounds!roundVars
<1>3. CASE UNCHANGED vars
  BY <1>2, <1>3 DEF vars, stored
<1>4. ASSUME NEW t \in Tabs, ReadRow(t) \/ ReadAttempts(t) \/ ReadLinks(t)
      PROVE  Kept
  BY <1>2, <1>4 DEF ReadRow, ReadAttempts, ReadLinks, stored
<1>5. ASSUME NEW t \in Tabs, NEW items, Submit(t, items)
      PROVE  Opened
  <2>1. claim.revision = 0 /\ claim'.revision = 1 /\ claim'.state = "SUBMITTED"
        /\ UNCHANGED attempts
    BY <1>5 DEF Submit, NoClaim, Numbered
  <2> QED
    BY <2>1 DEF Rounds!Open, Numbered
<1>6. ASSUME NEW recommendation \in Recommendations, Assess(recommendation)
      PROVE  Numbered' /\ Rounds!Close
  <2>1. /\ claim.state # "NONE" /\ claim'.state = "AWAITING_REVIEW"
        /\ claim'.revision = claim.revision
    BY <1>1, <1>6, MovedType DEF Assess, States
  <2>2. \A a \in attempts : a.revision # claim.revision
    BY <1>6 DEF Assess
  <2>3. PICK a : attempts' = attempts \cup {a} /\ a.revision = claim.revision
    <3> DEFINE new == [revision |-> claim.revision, recommendation |-> recommendation,
                       evidence |-> LinesOf(links)]
    <3>1. attempts' = attempts \cup {new} /\ new.revision = claim.revision
      BY <1>6 DEF Assess
    <3> HIDE DEF new
    <3> QED
      BY <3>1
  <2>4. {b.revision : b \in attempts'} = {b.revision : b \in attempts} \cup {claim.revision}
    BY <2>3
  <2>5. Numbered' /\ claim.revision # 0
    BY <2>1 DEF Numbered
  <2> QED
    BY <2>1, <2>2, <2>4, <2>5 DEF Rounds!Close
<1>7. ASSUME NEW t \in Tabs, NEW key \in Keys, NEW body \in BodyType, Decide(t, key, body)
      PROVE  Kept
  <2>1. /\ claim.state # "NONE" /\ claim'.state # "NONE" /\ claim'.revision = claim.revision
        /\ UNCHANGED attempts
    BY <1>1, <1>7, DecideStamps DEF Decide, Stamped
  <2> QED
    BY <1>2, <2>1
<1>8. ASSUME NEW t \in Tabs, NEW header, NEW newLinks, MayResubmit(t),
             Resubmitted(header, newLinks)
      PROVE  Opened
  <2>1. /\ claim.state = "INFORMATION_REQUESTED" /\ claim'.state = "SUBMITTED"
        /\ claim'.revision = claim.revision + 1 /\ UNCHANGED attempts
    BY <1>1, <1>8, ResubmittedStamps DEF MayResubmit, Resubmitted
  <2>2. \E a \in attempts : a.revision = claim.revision
    BY <2>1 DEF ClaimInv, ReviewInv, AssessedOnCurrentEvidence, LatestAttempts
  <2>3. Numbered'
    BY <1>1, <2>1 DEF Numbered
  <2> QED
    BY <2>1, <2>2, <2>3 DEF Rounds!Open
<1>9. ASSUME NEW t \in Tabs, NEW items, ResubmitAppend(t, items) \/ ResubmitReplace(t, items)
      PROVE  Opened
  BY <1>8, <1>9 DEF ResubmitAppend, ResubmitReplace, Report
<1>10. ASSUME NEW t \in Tabs, NEW receipt, ResubmitReceipt(t, receipt)
       PROVE  Opened
  BY <1>8, <1>10 DEF ResubmitReceipt
<1>11. ASSUME NEW t \in Tabs, ResubmitPurpose(t)
       PROVE  Opened
  BY <1>8, <1>11 DEF ResubmitPurpose
<1>12. ASSUME NEW t \in Tabs, NEW code \in Codes, ExportSucceeds(t, code) \/ ExportFails(t, code)
       PROVE  Kept
  <2>1. /\ claim.state # "NONE" /\ claim'.state # "NONE" /\ claim'.revision = claim.revision
        /\ UNCHANGED attempts
    BY <1>1, <1>12, MovedType DEF ExportSucceeds, ExportFails, MayExport, States
  <2> QED
    BY <1>2, <2>1
<1> QED
  BY <1>3, <1>4, <1>5, <1>6, <1>7, <1>9, <1>10, <1>11, <1>12
     DEF Next, SubmitExpense, SubmitReport

(* Every revision of a claim is assessed exactly once before the next is   *)
(* opened, whatever tab opens it and however often a job finds the claim   *)
(* (main.py:925, services.py:177).                                         *)
THEOREM ClaimTakesTurns == Spec => TakesTurns
<1>1. Init => Numbered /\ Rounds!RoundsInit
  BY DEF Init, NoClaim, Numbered, Rounds!RoundsInit
<1> QED
  BY <1>1, TurnTaken, ClaimInvariant, PTL DEF Spec, TakesTurns, Rounds!RoundsSpec
=============================================================================
