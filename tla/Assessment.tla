----------------------------- MODULE Assessment -----------------------------
(***************************************************************************)
(* What an assessment says of a claim, and how it comes to say it.  The    *)
(* worker runs process_assessment inside a job: it compares every current  *)
(* line with what was read from its receipt, evaluates the rules of the    *)
(* pinned policy on the claim's header, asks a language model unless a     *)
(* rule already failed, and aggregates the checks into a recommendation.   *)
(* One transaction holds the claim's row throughout, so nobody else        *)
(* changes the claim meanwhile; but any of the steps may raise, and then   *)
(* the job is run again, until its retries are used up.                    *)
(*                                                                         *)
(* Around it, as far as they change what is assessed: submission, the      *)
(* request for information and the four ways to answer it, and the days    *)
(* going by.  Every claim and every readable receipt is in INR.            *)
(***************************************************************************)
EXTENDS Integers, Sequences, FiniteSets

CONSTANTS
  Receipts,        \* clean receipts of the submitter
  Reading,         \* Reading[r]: what extraction and the scan for instructions found
  Merchants,       \* names on claims and receipts, ReportLabel among them
  Substring,       \* <<a, b>>: a, stripped of punctuation and case, occurs in b
  Nameless,        \* names of which nothing is left then
  Suspicious,      \* names and purposes with instruction-like text
  Blank,           \* purposes of white space only
  Purposes,
  Category,        \* the claim's category
  Lines,           \* lines a form may send
  Policies,        \* policies a claim may be pinned to
  Sections,        \* identifiers of policy sections, also of other policies
  MaxLines,        \* lines of one report (20 in the code)
  EvidenceLimit,   \* PolicyCheck.evidence_refs (10)
  MaxAttempts,     \* retries of a job (5)
  MaxRevision,     \* bound: revisions of the claim
  LastDay,         \* bound: days that go by
  MaxFaults        \* bound: exceptions of the connection or the process

ReportLabel == "report"    \* "Expense report, n receipts"
NoName == "none"
NoDate == 0                \* days are counted from 1
NoAmount == 0              \* None and 0 are both falsy in `a or b`, and match no line
Kinds == {"receipt_required", "amount_limit", "prohibited_category",
          "business_purpose_required", "submission_window"}
Statuses == {"PASS", "FAIL", "UNKNOWN"}

LineType == [receipt : Receipts, merchant : Merchants, amount : Nat, date : Nat]
RuleType == [kind : Kinds, bound : Nat, banned : SUBSET {Category},
             currency : {"INR", "USD"}, section : Sections, usable : BOOLEAN]
PolicyType == [rules : SUBSET RuleType, sections : SUBSET Sections]
ReadingType == [merchant : Merchants \cup {NoName}, date : Nat, amount : Nat,
                flagged : BOOLEAN]

ASSUME AssessmentAssumption ==
  /\ Reading \in [Receipts -> ReadingType]
  /\ ReportLabel \in Merchants /\ NoName \notin Merchants
  /\ Lines \subseteq {l \in LineType : l.amount > 0}
  /\ \A p \in Policies : /\ p \in PolicyType
                         /\ p.rules # {} /\ \A r \in p.rules : r.section \in p.sections
  /\ MaxLines \in Nat \ {0} /\ EvidenceLimit \in Nat /\ MaxAttempts \in Nat
  /\ MaxRevision \in Nat \ {0} /\ LastDay \in Nat \ {0} /\ MaxFaults \in Nat

VARIABLES
  policy,          \* the pinned policy
  today,
  claim,           \* the expenses row
  lines,           \* its current lines, in the order of their positions
  attempts,        \* its assessment attempts: attempts[n] is of revision n
  job,             \* the claim's job, and how often it has raised
  run,             \* where the job is, and what it has found
  faults           \* exceptions of the connection or the process so far

claimVars == <<claim, lines>>
vars == <<policy, today, claimVars, attempts, job, run, faults>>

NoClaim == [state |-> "NONE", purpose |-> "none", merchant |-> NoName, amount |-> NoAmount,
            date |-> NoDate, submitted |-> NoDate]
NoJob == [state |-> "NONE", tries |-> 0]
Idle == [node |-> "IDLE", checks |-> {}, failed |-> FALSE]

CheckType == [source : {"DETERMINISTIC", "AI"}, status : Statuses, cites : SUBSET Sections]
AttemptType == [lines : Seq(LineType), purpose : Purposes, submitted : Nat,
                checks : SUBSET CheckType, fallback : BOOLEAN,
                recommendation : {"APPROVE", "REVIEW", "REJECT"}]

ClaimType == [state : {"NONE", "SUBMITTED", "AWAITING_REVIEW", "INFORMATION_REQUESTED"},
              purpose : Purposes \cup {"none"}, merchant : Merchants \cup {NoName},
              amount : Nat, date : Nat, submitted : Nat]
JobType == [state : {"NONE", "READY", "GAVE_UP"}, tries : 0..MaxAttempts]
RunType == [node : {"IDLE", "RULES", "SEMANTIC", "AGGREGATE"},
            checks : SUBSET CheckType, failed : BOOLEAN]

(* Every record is of its type, and a claim that exists has lines.         *)
TypeOK ==
  /\ policy \in Policies
  /\ today \in 1..LastDay
  /\ claim \in ClaimType
  /\ lines \in Seq(LineType) /\ Len(lines) <= MaxLines
  /\ claim.state # "NONE" => lines # <<>>
  /\ attempts \in Seq(AttemptType) /\ Len(attempts) <= MaxRevision
  /\ job \in JobType
  /\ run \in RunType
  /\ faults \in 0..MaxFaults

Init ==
  /\ policy \in Policies
  /\ today = 1
  /\ claim = NoClaim
  /\ lines = <<>>
  /\ attempts = <<>>
  /\ job = NoJob
  /\ run = Idle
  /\ faults = 0

-----------------------------------------------------------------------------
(* The claim.  What a handler sends, and the header computed from it: the  *)
(* sum of the amounts and the oldest date.                                 *)

OrAmount(a, b) == IF a # NoAmount THEN a ELSE b
OrDate(a, b) == IF a # NoDate THEN a ELSE b
OrName(a, b) == IF a # NoName THEN a ELSE b

Distinct(ls) == \A p, q \in DOMAIN ls : ls[p].receipt = ls[q].receipt => p = q
LineLists == {ls \in UNION {[1..n -> Lines] : n \in 1..MaxLines} : Distinct(ls)}

Total(amounts) ==
  LET sum[n \in 0..Len(amounts)] == IF n = 0 THEN 0 ELSE sum[n - 1] + amounts[n]
  IN  sum[Len(amounts)]
Claimed(ls) == [p \in DOMAIN ls |-> ls[p].amount]

Dates(ls) == {ls[p].date : p \in DOMAIN ls}
\* mutated form: the first line's date
FirstDate(ls) == ls[1].date
Oldest(ls) == CHOOSE d \in Dates(ls) : \A e \in Dates(ls) : d <= e

\* report_header; a single receipt's claim has the header of a report of one line
Headed(c, ls) ==
  [c EXCEPT !.merchant = IF Len(ls) = 1 THEN ls[1].merchant ELSE ReportLabel,
            !.amount = Total(Claimed(ls)),
            !.date = Oldest(ls)]

(* submitted_at is the time the row is created, and never changes.         *)
Submit(ls, purpose) ==
  /\ claim.state = "NONE"
  /\ lines' = ls
  /\ claim' = Headed([NoClaim EXCEPT !.state = "SUBMITTED", !.purpose = purpose,
                                     !.submitted = today], ls)
  /\ job' = [NoJob EXCEPT !.state = "READY"]
  /\ UNCHANGED <<policy, today, attempts, run, faults>>

RequestInformation ==
  /\ claim.state = "AWAITING_REVIEW"
  /\ claim' = [claim EXCEPT !.state = "INFORMATION_REQUESTED"]
  /\ UNCHANGED <<policy, today, lines, attempts, job, run, faults>>

(* resubmit, whichever lines come of it: revision, state and the outbox's  *)
(* new job.                                                                *)
Resubmit(header, ls, purpose) ==
  /\ claim.state = "INFORMATION_REQUESTED"
  /\ Len(attempts) < MaxRevision
  /\ claim' = [header EXCEPT !.state = "SUBMITTED", !.purpose = purpose]
  /\ lines' = ls
  /\ job' = [NoJob EXCEPT !.state = "READY"]
  /\ UNCHANGED <<policy, today, attempts, run, faults>>

ResubmitAppend(ls, purpose) ==
  /\ Len(lines \o ls) <= MaxLines
  /\ Distinct(lines \o ls)
  /\ Resubmit(Headed(claim, lines \o ls), lines \o ls, purpose)

ResubmitReplace(ls, purpose) == Resubmit(Headed(claim, ls), ls, purpose)

\* what was read from the receipt, or else what the claim says
LineOf(r) ==
  [receipt |-> r,
   merchant |-> OrName(Reading[r].merchant, claim.merchant),
   amount |-> OrAmount(Reading[r].amount, claim.amount),
   date |-> OrDate(Reading[r].date, claim.date)]
ResubmitReceipt(r, purpose) ==
  Resubmit(Headed(claim, <<LineOf(r)>>), <<LineOf(r)>>, purpose)

ResubmitPurpose(purpose) == Resubmit(claim, lines, purpose)

DayPasses ==
  /\ today < LastDay
  /\ today' = today + 1
  /\ UNCHANGED <<policy, claimVars, attempts, job, run, faults>>

-----------------------------------------------------------------------------
(* Checks.  A check is its source, its status and the sections it cites.   *)

Check(source, status, cites) == [source |-> source, status |-> status, cites |-> cites]

\* extract_receipt_fields: EXTRACTED if all three fields were found
Readable(r) ==
  Reading[r].merchant # NoName /\ Reading[r].amount # NoAmount /\ Reading[r].date # NoDate

SameName(a, b) == b \notin Nameless /\ (<<a, b>> \in Substring \/ <<b, a>> \in Substring)

\* mutated form: the date is not compared
MatchedDateless(l) ==
  /\ Readable(l.receipt)
  /\ Reading[l.receipt].amount = l.amount
  /\ SameName(l.merchant, Reading[l.receipt].merchant)
\* evaluate_receipt_match never says FAIL
Matched(l) ==
  /\ Readable(l.receipt)
  /\ Reading[l.receipt].amount = l.amount
  /\ Reading[l.receipt].date = l.date
  /\ SameName(l.merchant, Reading[l.receipt].merchant)

Flagged(ls) == {p \in DOMAIN ls : Reading[ls[p].receipt].flagged}

\* the section of a receipt_required rule, or else some section
ReceiptSection(p) ==
  CHOOSE s \in p.sections :
    (\E r \in p.rules : r.kind = "receipt_required") =>
      \E r \in p.rules : r.kind = "receipt_required" /\ r.section = s

ReceiptChecks(p, ls) ==
  {Check("DETERMINISTIC", IF Matched(ls[n]) THEN "PASS" ELSE "UNKNOWN", {ReceiptSection(p)})
     : n \in DOMAIN ls}
  \cup {Check("DETERMINISTIC", "UNKNOWN", {ReceiptSection(p)}) : n \in Flagged(ls)}

(* evaluate_rules.  A rule about money is not judged in another currency;  *)
(* receipt_required never fails, because every claim has a receipt.        *)
Unjudged(r) == r.kind \in {"receipt_required", "amount_limit"} /\ r.currency # "INR"

Broken(r, amount, date, submitted, purpose) ==
  \/ r.kind = "amount_limit" /\ amount > r.bound
  \/ r.kind = "prohibited_category" /\ Category \in r.banned
  \/ r.kind = "business_purpose_required" /\ purpose \in Blank
  \/ r.kind = "submission_window" /\ submitted - date \notin 0..r.bound

RuleStatus(r, amount, date, submitted, purpose) ==
  IF Unjudged(r) THEN "UNKNOWN"
  ELSE IF Broken(r, amount, date, submitted, purpose) THEN "FAIL" ELSE "PASS"

\* int(...) of a parameter, or the loop over the categories: only the names of
\* parameters were ever validated
Raises(r) == ~r.usable /\ r.kind # "business_purpose_required" /\ ~Unjudged(r)

\* mutated form: the date of the assessment instead of the submission
RuleChecksToday(p, c) ==
  {Check("DETERMINISTIC", RuleStatus(r, c.amount, c.date, today, c.purpose), {r.section})
     : r \in p.rules}
RuleChecks(p, c) ==
  {Check("DETERMINISTIC", RuleStatus(r, c.amount, c.date, c.submitted, c.purpose), {r.section})
     : r \in p.rules}

-----------------------------------------------------------------------------
(* Aggregation.                                                            *)

Deterministic(checks) == {c \in checks : c.source = "DETERMINISTIC"}

\* mutated form: only a failed check keeps a claim from approval
AggregateLenient(checks, failed) ==
  IF failed \/ checks = {} THEN "REVIEW"
  ELSE IF \E c \in Deterministic(checks) : c.status = "FAIL" THEN "REJECT" ELSE "APPROVE"
\* mutated form: any failed check rejects, the model's too
AggregateAny(checks, failed) ==
  IF failed \/ checks = {} THEN "REVIEW"
  ELSE IF \E c \in checks : c.status = "FAIL" THEN "REJECT"
  ELSE IF \A c \in checks : c.status = "PASS" THEN "APPROVE" ELSE "REVIEW"
\* an UNKNOWN goes to review like any other status that is not PASS
Aggregate(checks, failed) ==
  IF failed \/ checks = {} THEN "REVIEW"
  ELSE IF \E c \in Deterministic(checks) : c.status = "FAIL" THEN "REJECT"
  ELSE IF \A c \in checks : c.status = "PASS" THEN "APPROVE" ELSE "REVIEW"

-----------------------------------------------------------------------------
(* The job.  Whatever raises rolls the transaction back, and the job is    *)
(* run again later from the start.                                         *)

\* mutated form: retried for ever
RetryForever(j) == [j EXCEPT !.tries = @ + 1]
Retry(j) ==
  IF j.tries < MaxAttempts THEN [j EXCEPT !.tries = @ + 1] ELSE [j EXCEPT !.state = "GAVE_UP"]

Raise ==
  /\ job' = Retry(job)
  /\ run' = Idle
  /\ UNCHANGED <<policy, today, claimVars, attempts>>

(* process_assessment up to the graph.  A flagged receipt is evidence of   *)
(* one check, and a check with too much evidence cannot be built.          *)
TooMuchEvidence(ls) == Cardinality(Flagged(ls)) > EvidenceLimit

Begin ==
  /\ job.state = "READY" /\ run.node = "IDLE"
  /\ IF TooMuchEvidence(lines)
     THEN Raise
     ELSE /\ run' = [Idle EXCEPT !.node = "RULES", !.checks = ReceiptChecks(policy, lines)]
          /\ UNCHANGED <<policy, today, claimVars, attempts, job>>
  /\ UNCHANGED faults

\* mutated form: the model is always asked
AfterRulesAlways(checks) == "SEMANTIC"
\* semantic_needed
AfterRules(checks) ==
  IF \E c \in checks : c.status = "FAIL" THEN "AGGREGATE" ELSE "SEMANTIC"

RunRules ==
  /\ run.node = "RULES"
  /\ IF \E r \in policy.rules : Raises(r)
     THEN Raise
     ELSE LET checks == run.checks \cup RuleChecks(policy, claim)
          IN  /\ run' = [run EXCEPT !.node = AfterRules(checks), !.checks = checks]
              /\ UNCHANGED <<policy, today, claimVars, attempts, job>>
  /\ UNCHANGED faults

(* run_semantic.  The model is not asked about a receipt, a merchant or a  *)
(* purpose with instruction-like text in it.                               *)
Supplied(p) == {r.section : r \in p.rules}
\* mutated form: instructions are looked for in the claim alone
GuardedText == claim.merchant \in Suspicious \/ claim.purpose \in Suspicious
Guarded == Flagged(lines) # {} \/ claim.merchant \in Suspicious \/ claim.purpose \in Suspicious

Conclude(checks, failed) ==
  /\ run.node = "SEMANTIC"
  /\ run' = [node |-> "AGGREGATE", checks |-> run.checks \cup checks, failed |-> failed]
  /\ UNCHANGED <<policy, today, claimVars, attempts, job, faults>>

Guardrail ==
  /\ Guarded
  /\ \E s \in Supplied(policy) : Conclude({Check("AI", "UNKNOWN", {s})}, FALSE)

\* mutated form: citations are taken as they come
AcceptedAny(p, cites) == TRUE
Accepted(p, cites) == cites \subseteq Supplied(p)

ModelAnswers(status, cites) ==
  /\ ~Guarded
  /\ IF Accepted(policy, cites)
     THEN Conclude({Check("AI", status, cites)}, FALSE)
     ELSE Conclude({}, TRUE)

\* a timeout or an error of the provider
ModelFails == ~Guarded /\ Conclude({}, TRUE)

(* An answer whose reason code is empty passes CandidateAssessment and     *)
(* breaks PolicyCheck, outside the provider's try: the job raises, over an *)
(* answer the model may repeat at every retry.                             *)
ModelUnusable ==
  /\ run.node = "SEMANTIC" /\ ~Guarded
  /\ Raise
  /\ UNCHANGED faults

(* The connection, the process: any step of the worker may raise.          *)
Fault ==
  /\ run.node # "IDLE"
  /\ faults < MaxFaults
  /\ faults' = faults + 1
  /\ Raise

\* mutated form: the job stays, and assesses the claim again
JobStays == UNCHANGED job
JobEnds == job' = NoJob

(* The attempt, the claim's state and the audit event are one commit.      *)
Commit ==
  /\ run.node = "AGGREGATE"
  /\ attempts' = Append(attempts,
       [lines |-> lines, purpose |-> claim.purpose, submitted |-> claim.submitted,
        checks |-> run.checks, fallback |-> run.failed,
        recommendation |-> Aggregate(run.checks, run.failed)])
  /\ claim' = [claim EXCEPT !.state = "AWAITING_REVIEW"]
  /\ JobEnds
  /\ run' = Idle
  /\ UNCHANGED <<policy, today, lines, faults>>

Semantic ==
  \/ Guardrail
  \/ \E status \in Statuses, cites \in SUBSET Sections : ModelAnswers(status, cites)
  \/ ModelFails

Next ==
  \/ \E ls \in LineLists, purpose \in Purposes : Submit(ls, purpose)
  \/ RequestInformation
  \/ \E ls \in LineLists, purpose \in Purposes : ResubmitAppend(ls, purpose)
  \/ \E ls \in LineLists, purpose \in Purposes : ResubmitReplace(ls, purpose)
  \/ \E r \in Receipts, purpose \in Purposes : ResubmitReceipt(r, purpose)
  \/ \E purpose \in Purposes : ResubmitPurpose(purpose)
  \/ DayPasses
  \/ Begin
  \/ RunRules
  \/ Semantic
  \/ ModelUnusable
  \/ Fault
  \/ Commit

Spec == Init /\ [][Next]_vars

-----------------------------------------------------------------------------
(* Properties.                                                             *)

(* A claim recommended for approval has earned it from its own evidence:   *)
(* every line agrees with a readable receipt free of instructions, the     *)
(* receipts' amounts together are within every limit, no line is older     *)
(* than a window allows, the category and the purpose are in order, and    *)
(* no rule was left unjudged.  The checks see only a total and one date.   *)
ApprovalEarned ==
  \A n \in DOMAIN attempts : LET a == attempts[n] IN
    a.recommendation = "APPROVE" =>
      /\ \A p \in DOMAIN a.lines : Matched(a.lines[p])
      /\ Flagged(a.lines) = {}
      /\ \A r \in policy.rules :
           /\ ~Unjudged(r)
           /\ r.kind = "amount_limit" =>
                Total([p \in DOMAIN a.lines |-> Reading[a.lines[p].receipt].amount]) <= r.bound
           /\ r.kind = "submission_window" =>
                \A p \in DOMAIN a.lines : a.submitted - Reading[a.lines[p].receipt].date <= r.bound
           /\ r.kind = "prohibited_category" => Category \notin r.banned
           /\ r.kind = "business_purpose_required" => a.purpose \notin Blank

\* the lines of a claim, taken together, break a rule that is judged
BreaksRule(p, ls, submitted, purpose) ==
  \E r \in p.rules :
    ~Unjudged(r) /\ Broken(r, Total(Claimed(ls)), Oldest(ls), submitted, purpose)

(* A claim is recommended for rejection exactly when its lines, taken      *)
(* together, break a rule of the pinned policy: no failure of the model,   *)
(* no unreadable receipt and no answer of the model hides a broken rule,   *)
(* and none of them rejects a claim.                                       *)
RejectsRuleBreakers ==
  \A n \in DOMAIN attempts : LET a == attempts[n] IN
    a.recommendation = "REJECT" <=> BreaksRule(policy, a.lines, a.submitted, a.purpose)

(* The model can only make a recommendation more careful: what the         *)
(* deterministic checks say alone, or a review.                            *)
ModelOnlyDowngrades ==
  \A n \in DOMAIN attempts :
    attempts[n].recommendation \in {Aggregate(Deterministic(attempts[n].checks), FALSE), "REVIEW"}

(* Every citation an attempt keeps is a section of the pinned policy,      *)
(* whatever the model cited.                                               *)
CitationsResolve ==
  \A n \in DOMAIN attempts : \A c \in attempts[n].checks : c.cites \subseteq policy.sections

(* An assessment is a function of the evidence: two revisions with the     *)
(* same lines and the same purpose have the same deterministic checks,     *)
(* whatever the day and whatever was retried in between.                   *)
Reproducible ==
  \A m, n \in DOMAIN attempts :
    attempts[m].lines = attempts[n].lines /\ attempts[m].purpose = attempts[n].purpose =>
      Deterministic(attempts[m].checks) = Deterministic(attempts[n].checks)

(* A claim that does not need the model does not depend on it: one that    *)
(* its rules reject, or whose receipts or words carry instructions and are *)
(* kept from the model, is abandoned over neither an answer nor a silence  *)
(* of the model's.  Set aside are evidence the receipt check cannot hold   *)
(* and rules that cannot be read, which raise before the model's turn.     *)
SettledWithoutModel ==
  /\ job.state = "GAVE_UP"
  /\ ~TooMuchEvidence(lines) /\ ~\E r \in policy.rules : Raises(r)
  /\ \/ BreaksRule(policy, lines, claim.submitted, claim.purpose)
     \/ Flagged(lines) # {}
     \/ claim.merchant \in Suspicious \/ claim.purpose \in Suspicious
  => faults > MaxAttempts

(* As docs/architecture/as-built-architecture.md:137 and :13 say: whatever *)
(* the model answers and whatever is found in the receipts, the claim      *)
(* comes to the reviewer, unless a rule cannot be read or the connection   *)
(* failed at every attempt.                                                *)
ReviewNeverBlocked ==
  job.state = "GAVE_UP" => (\E r \in policy.rules : Raises(r)) \/ faults > MaxAttempts

(* The claim keeps the contract as far as this module follows it, see      *)
(* ClaimContract: it rests on its lines and its purpose, and is assessed   *)
(* on those of its latest attempt.                                         *)
Phase ==
  CASE claim.state = "NONE" -> "ABSENT"
    [] claim.state = "SUBMITTED" -> "FILED"
    [] claim.state = "AWAITING_REVIEW" -> "REVIEW"
    [] OTHER -> "ASKED"

NoEvidence == [lines |-> <<>>, purpose |-> "none"]
Resting == [lines |-> lines, purpose |-> claim.purpose]
LastAssessed ==
  IF attempts = <<>> THEN NoEvidence
  ELSE [lines |-> attempts[Len(attempts)].lines, purpose |-> attempts[Len(attempts)].purpose]

Contract == INSTANCE ClaimContract WITH
  Evidence <- [lines : Seq(LineType) \ {<<>>}, purpose : Purposes],
  None <- NoEvidence,
  phase <- Phase,
  evidence <- Resting,
  assessed <- LastAssessed,
  approved <- NoEvidence,
  booked <- NoEvidence

(* However a job is retried and whatever day it is, a claim is assessed    *)
(* once between a submission and the reviewer, on what was submitted; the  *)
(* worker never touches the evidence, and no reviewer meets a claim        *)
(* assessed on anything else.                                              *)
AssessesUnderContract == Contract!ContractSpec

(* The claim takes its turns, see ClaimRounds: the n-th attempt is of the  *)
(* n-th submission.                                                        *)
Submissions == IF claim.state = "SUBMITTED" THEN Len(attempts) + 1 ELSE Len(attempts)
Rounds == INSTANCE ClaimRounds WITH revision <- Submissions, assessed <- DOMAIN attempts

TakesTurns == Rounds!RoundsSpec
=============================================================================
