-------------------------- MODULE AssessmentProofs --------------------------
(***************************************************************************)
(* Proofs about Assessment, for every set of receipts and lines, every     *)
(* policy and every bound.  The inductive invariant says of each node of   *)
(* the graph which checks the job holds when it gets there, and of each    *)
(* attempt that its deterministic checks are those of its own lines.       *)
(***************************************************************************)
EXTENDS Assessment, SequenceTheorems, WellFoundedInduction, TLAPS

-----------------------------------------------------------------------------
(* Lemmas about totals, dates and checks.                                  *)

(* A set of natural numbers that is not empty has a least element.         *)
LEMMA LeastNatural ==
  ASSUME NEW T, T \subseteq Nat, T # {}
  PROVE  \E x \in T : \A y \in T : x <= y
<1>1. IsWellFoundedOn(OpToRel(<, Nat), Nat)
  BY NatLessThanWellFounded
<1>2. PICK x \in T : \A y \in T : <<y, x>> \notin OpToRel(<, Nat)
  BY <1>1, WFMin
<1>3. ASSUME NEW y \in T
      PROVE  x <= y
  <2>1. ~(y < x)
    BY <1>2, <1>3 DEF OpToRel
  <2> QED
    BY <2>1
<1> QED
  BY <1>3

(* A function defined by the recursion of Total exists, whatever is added. *)
LEMMA SumExists ==
  ASSUME NEW s \in Seq(Nat)
  PROVE  \E f : f = [n \in 0..Len(s) |-> IF n = 0 THEN 0 ELSE f[n - 1] + s[n]]
<1> DEFINE IsSum(f, k) == f = [n \in 0..k |-> IF n = 0 THEN 0 ELSE f[n - 1] + s[n]]
           Missing == {k \in 0..Len(s) : ~\E f : IsSum(f, k)}
<1>1. Len(s) \in Nat
  OBVIOUS
<1>2. SUFFICES Missing = {}
  <2>1. Len(s) \in 0..Len(s)
    BY <1>1
  <2> QED
    BY <2>1, <1>2
<1>3. SUFFICES ASSUME Missing # {}
               PROVE  FALSE
  OBVIOUS
<1>4. PICK k \in Missing : \A j \in Missing : k <= j
  <2>1. Missing \subseteq Nat
    BY <1>1
  <2> QED
    BY <2>1, <1>3, LeastNatural
<1>5. IsSum([n \in 0..0 |-> 0], 0)
  OBVIOUS
<1>6. k \in Nat /\ k # 0 /\ k <= Len(s)
  <2>1. k \in 0..Len(s) /\ ~\E f : IsSum(f, k)
    BY <1>4
  <2>2. k # 0
    <3> HIDE DEF IsSum
    <3> QED
      BY <2>1, <1>5
  <2> QED
    BY <2>1, <2>2, <1>1
<1>7. PICK f : IsSum(f, k - 1)
  <2>1. k - 1 \in 0..Len(s) /\ ~(k <= k - 1)
    BY <1>1, <1>6
  <2> QED
    BY <2>1, <1>4
<1> DEFINE g == [n \in 0..k |-> IF n = k THEN f[k - 1] + s[k] ELSE f[n]]
<1>8. ASSUME NEW n \in 0..k
      PROVE  g[n] = IF n = 0 THEN 0 ELSE g[n - 1] + s[n]
  <2>1. CASE n = k
    <3>1. k - 1 \in 0..k /\ k - 1 # k
      BY <1>6
    <3> QED
      BY <2>1, <3>1, <1>6
  <2>2. CASE n # k
    <3>1. n \in 0..(k - 1)
      BY <1>6, <2>2
    <3>2. f[n] = IF n = 0 THEN 0 ELSE f[n - 1] + s[n]
      BY <3>1, <1>7
    <3>3. n # 0 => n - 1 \in 0..k /\ n - 1 # k
      BY <3>1, <1>6
    <3> QED
      BY <3>2, <3>3, <2>2
  <2> QED
    BY <2>1, <2>2
<1>9. IsSum(g, k)
  BY <1>8
<1> QED
  BY <1>9, <1>4

(* The total of natural numbers is one.                                    *)
LEMMA TotalIsNatural ==
  ASSUME NEW s \in Seq(Nat)
  PROVE  Total(s) \in Nat
<1> DEFINE IsSum(f) == f = [n \in 0..Len(s) |-> IF n = 0 THEN 0 ELSE f[n - 1] + s[n]]
           sum == CHOOSE f : IsSum(f)
           Bad == {n \in 0..Len(s) : sum[n] \notin Nat}
<1>1. Len(s) \in Nat /\ DOMAIN s = 1..Len(s) /\ \A n \in 1..Len(s) : s[n] \in Nat
  OBVIOUS
<1>2. IsSum(sum)
  <2>1. \E f : IsSum(f)
    BY SumExists
  <2> HIDE DEF IsSum
  <2> QED
    BY <2>1
<1>3. \A n \in 0..Len(s) : sum[n] = IF n = 0 THEN 0 ELSE sum[n - 1] + s[n]
  <2> HIDE DEF sum
  <2> QED
    BY <1>2
<1>4. Total(s) = sum[Len(s)]
  BY DEF Total
<1> HIDE DEF sum, IsSum
<1>5. Bad = {}
  <2>1. SUFFICES ASSUME Bad # {}
                 PROVE  FALSE
    OBVIOUS
  <2>2. PICK n \in Bad : \A m \in Bad : n <= m
    <3>1. Bad \subseteq Nat
      BY <1>1
    <3> QED
      BY <3>1, <2>1, LeastNatural
  <2>3. n # 0 /\ n \in 1..Len(s)
    BY <1>1, <1>3, <2>2
  <2>4. n - 1 \in 0..Len(s) /\ ~(n <= n - 1)
    BY <2>3, <1>1
  <2>5. sum[n - 1] \in Nat
    BY <2>2, <2>4
  <2> QED
    BY <2>2, <2>3, <2>5, <1>1, <1>3
<1> QED
  BY <1>1, <1>4, <1>5

(* Lines have a first date.                                                *)
LEMMA OldestIsLeast ==
  ASSUME NEW ls \in Seq(LineType), ls # <<>>
  PROVE  /\ Oldest(ls) \in Nat
         /\ \A p \in DOMAIN ls : Oldest(ls) <= ls[p].date
<1>1. \A p \in DOMAIN ls : ls[p] \in LineType
  OBVIOUS
<1>2. Dates(ls) \subseteq Nat
  BY <1>1 DEF Dates, LineType
<1>3. 1 \in DOMAIN ls
  BY EmptySeq, LenProperties
<1>4. Dates(ls) # {}
  BY <1>3 DEF Dates
<1>5. \E d \in Dates(ls) : \A e \in Dates(ls) : d <= e
  BY <1>2, <1>4, LeastNatural
<1>6. Oldest(ls) \in Dates(ls) /\ \A e \in Dates(ls) : Oldest(ls) <= e
  BY <1>5 DEF Oldest
<1>7. \A p \in DOMAIN ls : ls[p].date \in Dates(ls)
  BY DEF Dates
<1> QED
  BY <1>2, <1>6, <1>7

(* The claimed amounts of a report can be added.                           *)
LEMMA ClaimedAreNatural ==
  ASSUME NEW ls \in Seq(LineType)
  PROVE  Claimed(ls) \in Seq(Nat)
<1>1. DOMAIN ls = 1..Len(ls) /\ Len(ls) \in Nat
  BY LenProperties
<1>2. \A p \in 1..Len(ls) : ls[p].amount \in Nat
  <2>1. \A p \in 1..Len(ls) : ls[p] \in LineType
    BY <1>1
  <2> QED
    BY <2>1 DEF LineType
<1>3. Claimed(ls) \in [1..Len(ls) -> Nat]
  BY <1>1, <1>2 DEF Claimed
<1> QED
  BY <1>1, <1>3, SeqDef

(* So the header of a report is typed, and agrees with the report.         *)
Matches(c, ls) == c.amount = Total(Claimed(ls)) /\ c.date = Oldest(ls)

LEMMA HeadedMatches ==
  ASSUME NEW ls \in Seq(LineType), ls # <<>>, NEW c \in ClaimType
  PROVE  /\ Headed(c, ls) \in ClaimType
         /\ Headed(c, ls).merchant \in Merchants
         /\ Headed(c, ls).submitted = c.submitted
         /\ Headed(c, ls).purpose = c.purpose
         /\ Headed(c, ls).state = c.state
         /\ Matches(Headed(c, ls), ls)
<1>1. \A p \in DOMAIN ls : ls[p] \in LineType
  OBVIOUS
<1>2. Claimed(ls) \in Seq(Nat)
  BY ClaimedAreNatural
<1> DEFINE total == Total(Claimed(ls))
           first == Oldest(ls)
           name == IF Len(ls) = 1 THEN ls[1].merchant ELSE ReportLabel
<1>3. total \in Nat
  BY <1>2, TotalIsNatural
<1>4. first \in Nat
  BY OldestIsLeast
<1>5. name \in Merchants
  <2>1. 1 \in DOMAIN ls
    BY EmptySeq, LenProperties
  <2>2. ls[1].merchant \in Merchants
    BY <1>1, <2>1 DEF LineType
  <2> QED
    BY <2>2, AssessmentAssumption
<1>6. Headed(c, ls) = [c EXCEPT !.merchant = name, !.amount = total, !.date = first]
  BY DEF Headed
<1> HIDE DEF total, first, name
<1>7. Headed(c, ls) \in ClaimType
  BY <1>3, <1>4, <1>5, <1>6 DEF ClaimType
<1>8. /\ Headed(c, ls).merchant = name
      /\ Headed(c, ls).submitted = c.submitted
      /\ Headed(c, ls).purpose = c.purpose
      /\ Headed(c, ls).state = c.state
      /\ Headed(c, ls).amount = total
      /\ Headed(c, ls).date = first
  BY <1>6 DEF ClaimType
<1> QED
  BY <1>5, <1>7, <1>8 DEF Matches, total, first

(* What a form sends is a report.                                          *)
LEMMA ReportsAreLines ==
  ASSUME NEW ls \in LineLists
  PROVE  ls \in Seq(LineType) /\ ls # <<>> /\ Len(ls) <= MaxLines
<1>1. PICK n \in 1..MaxLines : ls \in [1..n -> Lines]
  BY DEF LineLists
<1>2. MaxLines \in Nat /\ Lines \subseteq LineType
  BY AssessmentAssumption
<1>3. n \in Nat /\ ls \in [1..n -> LineType]
  BY <1>1, <1>2
<1>4. ls \in Seq(LineType)
  BY <1>3, SeqDef
<1>5. Len(ls) = n
  BY <1>3, <1>4, LenProperties
<1> QED
  BY <1>1, <1>2, <1>4, <1>5

(* What a rule or a receipt says is a deterministic check that cites the   *)
(* policy.                                                                 *)
Own(p) == {k \in CheckType : k.source = "DETERMINISTIC" /\ k.cites \subseteq p.sections}

LEMMA PolicyTyped ==
  ASSUME NEW p \in Policies
  PROVE  /\ p.sections \subseteq Sections
         /\ p.rules \subseteq RuleType /\ p.rules # {}
         /\ \A r \in p.rules : r.section \in p.sections
         /\ Supplied(p) \subseteq p.sections
<1>1. p \in PolicyType /\ p.rules # {} /\ \A r \in p.rules : r.section \in p.sections
  BY AssessmentAssumption
<1> QED
  BY <1>1 DEF PolicyType, Supplied

LEMMA ReceiptSectionResolves ==
  ASSUME NEW p \in Policies
  PROVE  ReceiptSection(p) \in p.sections
<1>1. PICK r \in p.rules : TRUE
  BY PolicyTyped
<1>2. \E s \in p.sections :
        (\E q \in p.rules : q.kind = "receipt_required") =>
          \E q \in p.rules : q.kind = "receipt_required" /\ q.section = s
  BY <1>1, PolicyTyped
<1> QED
  BY <1>2 DEF ReceiptSection

LEMMA ReceiptChecksTyped ==
  ASSUME NEW p \in Policies, NEW ls
  PROVE  ReceiptChecks(p, ls) \subseteq {k \in Own(p) : k.status # "FAIL"}
<1>1. ASSUME NEW status \in {"PASS", "UNKNOWN"}
      PROVE  /\ Check("DETERMINISTIC", status, {ReceiptSection(p)}) \in Own(p)
             /\ Check("DETERMINISTIC", status, {ReceiptSection(p)}).status = status
  <2>1. {ReceiptSection(p)} \in SUBSET Sections /\ {ReceiptSection(p)} \subseteq p.sections
    BY ReceiptSectionResolves, PolicyTyped
  <2> QED
    BY <1>1, <2>1 DEF Check, Own, CheckType, Statuses
<1> QED
  BY <1>1 DEF ReceiptChecks

LEMMA RuleChecksTyped ==
  ASSUME NEW p \in Policies, NEW c
  PROVE  RuleChecks(p, c) \subseteq Own(p)
<1>1. ASSUME NEW status \in Statuses, NEW r \in p.rules
      PROVE  Check("DETERMINISTIC", status, {r.section}) \in Own(p)
  <2>1. {r.section} \in SUBSET Sections /\ {r.section} \subseteq p.sections
    BY PolicyTyped
  <2> QED
    BY <2>1 DEF Check, Own, CheckType
<1>2. \A r : RuleStatus(r, c.amount, c.date, c.submitted, c.purpose) \in Statuses
  BY DEF RuleStatus, Statuses
<1> QED
  BY <1>1, <1>2 DEF RuleChecks

-----------------------------------------------------------------------------
(* The inductive invariant.                                                *)

Failing(checks) == \E k \in checks : k.status = "FAIL"

(* What the receipts and the rules say of lines under a header.            *)
AllChecks(p, c, ls) == ReceiptChecks(p, ls) \cup RuleChecks(p, c)

(* A run that is done: the deterministic checks are those, whatever the    *)
(* model added cites the policy, and it was not asked if a rule failed.    *)
Sound(p, checks, failed, c, ls) ==
  /\ Deterministic(checks) = AllChecks(p, c, ls)
  /\ \A k \in checks : k.cites \subseteq p.sections
  /\ failed => ~Failing(AllChecks(p, c, ls))

(* The claim and its report agree, and have a merchant and a purpose.      *)
Filed ==
  /\ claim.state = "NONE" => attempts = <<>>
  /\ claim.state # "NONE" => /\ claim.merchant \in Merchants
                             /\ claim.purpose \in Purposes
                             /\ Matches(claim, lines)

(* A job is of a submitted claim, which has an attempt still to come.      *)
Scheduled ==
  /\ claim.state = "SUBMITTED" => Len(attempts) < MaxRevision
  /\ job.state # "NONE" => claim.state = "SUBMITTED"
  /\ run.node # "IDLE" => job.state = "READY"

(* The model is not asked: a rule is broken, or it must not see the claim. *)
Settled ==
  \/ BreaksRule(policy, lines, claim.submitted, claim.purpose)
  \/ Flagged(lines) # {}
  \/ claim.merchant \in Suspicious \/ claim.purpose \in Suspicious

(* A settled job that nothing stands in the way of has raised by faults    *)
(* alone.                                                                  *)
Hopeless == TooMuchEvidence(lines) \/ (\E r \in policy.rules : Raises(r)) \/ ~Settled
Exhausted ==
  /\ job.state = "READY" => Hopeless \/ job.tries <= faults
  /\ job.state = "GAVE_UP" => Hopeless \/ faults > MaxAttempts

(* What the job holds at each node.                                        *)
Findings ==
  /\ run.node = "RULES" => run.checks = ReceiptChecks(policy, lines) /\ ~run.failed
  /\ run.node = "SEMANTIC" =>
       run.checks = AllChecks(policy, claim, lines) /\ ~Failing(run.checks)
  /\ run.node = "AGGREGATE" => Sound(policy, run.checks, run.failed, claim, lines)

(* The header an attempt was made under.                                   *)
Facts(a) == [amount |-> Total(Claimed(a.lines)), date |-> Oldest(a.lines),
             submitted |-> a.submitted, purpose |-> a.purpose]
JudgedAttempt(a, p, c) ==
  /\ a.lines # <<>>
  /\ a.submitted = c.submitted
  /\ Sound(p, a.checks, a.fallback, Facts(a), a.lines)
  /\ a.recommendation = Aggregate(a.checks, a.fallback)
Judged == \A n \in DOMAIN attempts : JudgedAttempt(attempts[n], policy, claim)

JudgeInv == TypeOK /\ Filed /\ Scheduled /\ Exhausted /\ Findings /\ Judged

(* The rules look at four fields of the header.                            *)
LEMMA RulesSeeFacts ==
  ASSUME NEW p, NEW c, NEW d,
         c.amount = d.amount, c.date = d.date,
         c.submitted = d.submitted, c.purpose = d.purpose
  PROVE  RuleChecks(p, c) = RuleChecks(p, d)
BY DEF RuleChecks

(* What is deterministic among checks of which some come from the model.   *)
LEMMA ModelAddsNothing ==
  ASSUME NEW p \in Policies, NEW c, NEW ls, NEW model,
         \A k \in model : k.source = "AI"
  PROVE  Deterministic(AllChecks(p, c, ls) \cup model) = AllChecks(p, c, ls)
<1>1. \A k \in AllChecks(p, c, ls) : k.source = "DETERMINISTIC"
  BY ReceiptChecksTyped, RuleChecksTyped DEF AllChecks, Own
<1> QED
  BY <1>1 DEF Deterministic

(* Every way to resubmit sends a report under a header that matches it.    *)
Answers(h, ls, purpose) ==
  /\ Resubmit(h, ls, purpose)
  /\ h \in ClaimType /\ h.merchant \in Merchants /\ h.submitted = claim.submitted
  /\ ls \in Seq(LineType) /\ ls # <<>> /\ Len(ls) <= MaxLines
  /\ Matches(h, ls)
  /\ purpose \in Purposes

Resubmission ==
  \/ \E ls \in LineLists, purpose \in Purposes : ResubmitAppend(ls, purpose)
  \/ \E ls \in LineLists, purpose \in Purposes : ResubmitReplace(ls, purpose)
  \/ \E r \in Receipts, purpose \in Purposes : ResubmitReceipt(r, purpose)
  \/ \E purpose \in Purposes : ResubmitPurpose(purpose)

LEMMA ResubmissionAnswers ==
  ASSUME TypeOK, Filed, Resubmission
  PROVE  \E h, ls, purpose : Answers(h, ls, purpose)
<1>1. claim \in ClaimType /\ lines \in Seq(LineType) /\ Len(lines) <= MaxLines
  BY DEF TypeOK
<1>2. ASSUME claim.state = "INFORMATION_REQUESTED"
      PROVE  lines # <<>> /\ claim.merchant \in Merchants /\ Matches(claim, lines)
  BY <1>2 DEF TypeOK, Filed
<1>3. ASSUME NEW ls \in Seq(LineType), ls # <<>>, Len(ls) <= MaxLines,
             NEW purpose \in Purposes, Resubmit(Headed(claim, ls), ls, purpose)
      PROVE  Answers(Headed(claim, ls), ls, purpose)
  BY <1>1, <1>3, HeadedMatches DEF Answers
<1>4. ASSUME NEW ls \in LineLists, NEW purpose \in Purposes, ResubmitAppend(ls, purpose)
      PROVE  \E h, new, why : Answers(h, new, why)
  <2>1. ls \in Seq(LineType) /\ ls # <<>>
    BY ReportsAreLines
  <2>2. lines \o ls \in Seq(LineType) /\ lines \o ls # <<>>
    <3>1. lines \o ls \in Seq(LineType) /\ Len(lines \o ls) = Len(lines) + Len(ls)
      BY <1>1, <2>1, ConcatProperties
    <3>2. Len(ls) > 0 /\ Len(lines) \in Nat
      BY <1>1, <2>1, EmptySeq, LenProperties
    <3> QED
      BY <3>1, <3>2
  <2>3. Len(lines \o ls) <= MaxLines /\ Resubmit(Headed(claim, lines \o ls), lines \o ls, purpose)
    BY <1>4 DEF ResubmitAppend
  <2> QED
    BY <1>3, <2>2, <2>3
<1>5. ASSUME NEW ls \in LineLists, NEW purpose \in Purposes, ResubmitReplace(ls, purpose)
      PROVE  \E h, new, why : Answers(h, new, why)
  BY <1>3, <1>5, ReportsAreLines DEF ResubmitReplace
<1>6. ASSUME NEW r \in Receipts, NEW purpose \in Purposes, ResubmitReceipt(r, purpose)
      PROVE  \E h, new, why : Answers(h, new, why)
  <2>1. Resubmit(Headed(claim, <<LineOf(r)>>), <<LineOf(r)>>, purpose)
    BY <1>6 DEF ResubmitReceipt
  <2>2. claim.merchant \in Merchants /\ claim.amount \in Nat /\ claim.date \in Nat
    BY <1>1, <1>2, <2>1 DEF Resubmit, ClaimType
  <2>3. Reading[r] \in ReadingType
    BY AssessmentAssumption
  <2>4. LineOf(r) \in LineType
    BY <2>2, <2>3 DEF LineOf, LineType, ReadingType, OrName, OrAmount, OrDate
  <2>5. <<LineOf(r)>> \in Seq(LineType) /\ <<LineOf(r)>> # <<>> /\ Len(<<LineOf(r)>>) <= MaxLines
    BY <2>4, AssessmentAssumption
  <2> QED
    BY <1>3, <2>1, <2>5
<1>7. ASSUME NEW purpose \in Purposes, ResubmitPurpose(purpose)
      PROVE  \E h, new, why : Answers(h, new, why)
  <2>1. Resubmit(claim, lines, purpose) /\ claim.state = "INFORMATION_REQUESTED"
    BY <1>7 DEF ResubmitPurpose, Resubmit
  <2> QED
    BY <1>1, <1>2, <2>1 DEF Answers
<1> QED
  BY <1>4, <1>5, <1>6, <1>7 DEF Resubmission

(* Every outcome of the semantic node but an exception is a conclusion     *)
(* that adds at most checks of the model's, which cite the policy.         *)
Concludes(model, failed) ==
  /\ Conclude(model, failed)
  /\ failed \in BOOLEAN
  /\ model \subseteq {k \in CheckType : k.source = "AI" /\ k.cites \subseteq policy.sections}

LEMMA SemanticConcludes ==
  ASSUME TypeOK, Semantic
  PROVE  \E model, failed : Concludes(model, failed)
<1>1. policy \in Policies
  BY DEF TypeOK
<1>2. ASSUME NEW status \in Statuses, NEW cites, cites \subseteq Supplied(policy),
             Conclude({Check("AI", status, cites)}, FALSE)
      PROVE  \E model, failed : Concludes(model, failed)
  <2>1. cites \subseteq policy.sections /\ cites \in SUBSET Sections
    BY <1>1, <1>2, PolicyTyped
  <2>2. {Check("AI", status, cites)} \subseteq
          {k \in CheckType : k.source = "AI" /\ k.cites \subseteq policy.sections}
    BY <2>1 DEF Check, CheckType
  <2>3. Concludes({Check("AI", status, cites)}, FALSE)
    BY <1>2, <2>2 DEF Concludes
  <2> QED
    BY <2>3
<1>3. ASSUME Conclude({}, TRUE)
      PROVE  \E model, failed : Concludes(model, failed)
  <2>1. Concludes({}, TRUE)
    BY <1>3 DEF Concludes
  <2> QED
    BY <2>1
<1>4. CASE Guardrail
  <2>1. PICK s \in Supplied(policy) : Conclude({Check("AI", "UNKNOWN", {s})}, FALSE)
    BY <1>4 DEF Guardrail
  <2>2. {s} \subseteq Supplied(policy) /\ "UNKNOWN" \in Statuses
    BY DEF Statuses
  <2> QED
    BY <1>2, <2>1, <2>2
<1>5. CASE \E status \in Statuses, cites \in SUBSET Sections : ModelAnswers(status, cites)
  <2>1. PICK status \in Statuses, cites \in SUBSET Sections : ModelAnswers(status, cites)
    BY <1>5
  <2>2. CASE Accepted(policy, cites)
    <3>1. Conclude({Check("AI", status, cites)}, FALSE) /\ cites \subseteq Supplied(policy)
      BY <2>1, <2>2 DEF ModelAnswers, Accepted
    <3> QED
      BY <1>2, <3>1
  <2>3. CASE ~Accepted(policy, cites)
    <3>1. Conclude({}, TRUE)
      BY <2>1, <2>3 DEF ModelAnswers
    <3> QED
      BY <1>3, <3>1
  <2> QED
    BY <2>2, <2>3
<1>6. CASE ModelFails
  <2>1. Conclude({}, TRUE)
    BY <1>6 DEF ModelFails
  <2> QED
    BY <1>3, <2>1
<1> QED
  BY <1>4, <1>5, <1>6 DEF Semantic

-----------------------------------------------------------------------------
(* The invariant is inductive.                                             *)

LEMMA JudgeInvInit == Init => JudgeInv
<1> SUFFICES ASSUME Init
             PROVE  JudgeInv
  OBVIOUS
<1>1. TypeOK
  BY AssessmentAssumption
  DEF Init, TypeOK, NoClaim, NoJob, Idle, ClaimType, JobType, RunType, NoAmount, NoDate
<1>2. Filed /\ Scheduled /\ Exhausted /\ Findings /\ Judged
  BY DEF Init, Filed, Scheduled, Exhausted, Findings, Judged, NoClaim, NoJob, Idle
<1> QED
  BY <1>1, <1>2 DEF JudgeInv

(* Submission.                                                             *)
LEMMA SubmitKeeps ==
  ASSUME JudgeInv, NEW ls \in LineLists, NEW purpose \in Purposes, Submit(ls, purpose)
  PROVE  JudgeInv'
<1> DEFINE c == [NoClaim EXCEPT !.state = "SUBMITTED", !.purpose = purpose, !.submitted = today]
<1>1. TypeOK /\ Filed /\ Scheduled /\ Exhausted /\ Findings /\ Judged
  BY DEF JudgeInv
<1>2. ls \in Seq(LineType) /\ ls # <<>> /\ Len(ls) <= MaxLines
  BY ReportsAreLines
<1>3. /\ c \in ClaimType /\ c.state = "SUBMITTED" /\ c.purpose = purpose
  <2>1. today \in Nat
    BY <1>1, AssessmentAssumption DEF TypeOK
  <2> QED
    BY <2>1 DEF NoClaim, ClaimType, NoAmount, NoDate
<1> HIDE DEF c
<1>4. /\ claim' = Headed(c, ls) /\ lines' = ls
      /\ claim.state = "NONE"
      /\ job' = [NoJob EXCEPT !.state = "READY"]
      /\ UNCHANGED <<policy, today, attempts, run, faults>>
  BY DEF Submit, c
<1>5. /\ claim' \in ClaimType /\ claim'.merchant \in Merchants /\ claim'.purpose = purpose
      /\ claim'.state = "SUBMITTED" /\ Matches(claim', ls)
  BY <1>2, <1>3, <1>4, HeadedMatches
<1>6. attempts' = <<>> /\ run'.node = "IDLE"
  BY <1>1, <1>4 DEF Filed, Scheduled, TypeOK, RunType
<1>7. job' \in JobType /\ job'.state = "READY" /\ job'.tries = 0
  BY <1>4, AssessmentAssumption DEF NoJob, JobType
<1>8. TypeOK'
  BY <1>1, <1>2, <1>4, <1>5, <1>7 DEF TypeOK
<1>9. Filed'
  BY <1>4, <1>5, <1>6 DEF Filed
<1>10. Scheduled'
  BY <1>5, <1>6, <1>7, AssessmentAssumption DEF Scheduled
<1>11. Exhausted'
  BY <1>7, <1>8 DEF Exhausted, TypeOK
<1>12. Findings' /\ Judged'
  BY <1>6 DEF Findings, Judged
<1> QED
  BY <1>8, <1>9, <1>10, <1>11, <1>12 DEF JudgeInv

(* A step that leaves the attempts and the time of submission alone leaves *)
(* the attempts judged.                                                    *)
LEMMA JudgedStays ==
  ASSUME Judged, attempts' = attempts, policy' = policy, claim'.submitted = claim.submitted
  PROVE  Judged'
<1>1. ASSUME NEW n \in DOMAIN attempts
      PROVE  JudgedAttempt(attempts[n], policy, claim')
  <2>1. JudgedAttempt(attempts[n], policy, claim)
    BY <1>1 DEF Judged
  <2> QED
    BY <2>1 DEF JudgedAttempt
<1> QED
  BY <1>1 DEF Judged

LEMMA RequestInformationKeeps ==
  ASSUME JudgeInv, RequestInformation
  PROVE  JudgeInv'
<1>1. TypeOK /\ Filed /\ Scheduled /\ Exhausted /\ Findings /\ Judged
  BY DEF JudgeInv
<1>2. /\ claim' = [claim EXCEPT !.state = "INFORMATION_REQUESTED"]
      /\ claim.state = "AWAITING_REVIEW" /\ claim \in ClaimType
      /\ UNCHANGED <<policy, today, lines, attempts, job, run, faults>>
  BY <1>1 DEF RequestInformation, TypeOK
<1>3. /\ claim' \in ClaimType /\ claim'.state = "INFORMATION_REQUESTED"
      /\ claim'.merchant = claim.merchant /\ claim'.purpose = claim.purpose
      /\ claim'.amount = claim.amount /\ claim'.date = claim.date
      /\ claim'.submitted = claim.submitted
  BY <1>2 DEF ClaimType
<1>4. job.state = "NONE" /\ run.node = "IDLE"
  BY <1>1, <1>2 DEF Scheduled, TypeOK, JobType, RunType
<1>5. TypeOK'
  BY <1>1, <1>2, <1>3 DEF TypeOK
<1>6. Filed'
  BY <1>1, <1>2, <1>3 DEF Filed, Matches
<1>7. Scheduled' /\ Exhausted' /\ Findings'
  BY <1>2, <1>3, <1>4 DEF Scheduled, Exhausted, Findings
<1>8. Judged'
  BY <1>1, <1>2, <1>3, JudgedStays
<1> QED
  BY <1>5, <1>6, <1>7, <1>8 DEF JudgeInv

LEMMA ResubmissionKeeps ==
  ASSUME JudgeInv, Resubmission
  PROVE  JudgeInv'
<1>1. TypeOK /\ Filed /\ Scheduled /\ Exhausted /\ Findings /\ Judged
  BY DEF JudgeInv
<1>2. PICK h, ls, purpose : Answers(h, ls, purpose)
  BY <1>1, ResubmissionAnswers
<1>3. /\ claim' = [h EXCEPT !.state = "SUBMITTED", !.purpose = purpose]
      /\ claim.state = "INFORMATION_REQUESTED" /\ Len(attempts) < MaxRevision
      /\ lines' = ls
      /\ job' = [NoJob EXCEPT !.state = "READY"]
      /\ UNCHANGED <<policy, today, attempts, run, faults>>
  BY <1>2 DEF Answers, Resubmit
<1>4. /\ h \in ClaimType /\ h.merchant \in Merchants /\ h.submitted = claim.submitted
      /\ ls \in Seq(LineType) /\ ls # <<>> /\ Len(ls) <= MaxLines
      /\ Matches(h, ls) /\ purpose \in Purposes
  BY <1>2 DEF Answers
<1>5. /\ claim' \in ClaimType /\ claim'.state = "SUBMITTED"
      /\ claim'.merchant = h.merchant /\ claim'.purpose = purpose
      /\ claim'.amount = h.amount /\ claim'.date = h.date
      /\ claim'.submitted = claim.submitted
  BY <1>3, <1>4 DEF ClaimType
<1>6. job' \in JobType /\ job'.state = "READY" /\ job'.tries = 0
  BY <1>3, AssessmentAssumption DEF NoJob, JobType
<1>7. run'.node = "IDLE"
  BY <1>1, <1>3 DEF Scheduled, TypeOK, RunType
<1>8. TypeOK'
  BY <1>1, <1>3, <1>4, <1>5, <1>6 DEF TypeOK
<1>9. Filed'
  BY <1>3, <1>4, <1>5 DEF Filed, Matches
<1>10. Scheduled'
  BY <1>3, <1>5, <1>6, <1>7 DEF Scheduled
<1>11. Exhausted'
  BY <1>6, <1>8 DEF Exhausted, TypeOK
<1>12. Findings'
  BY <1>7 DEF Findings
<1>13. Judged'
  BY <1>1, <1>3, <1>5, JudgedStays
<1> QED
  BY <1>8, <1>9, <1>10, <1>11, <1>12, <1>13 DEF JudgeInv

(* A check fails exactly when a rule is broken.                            *)
LEMMA FailingMeansBroken ==
  ASSUME NEW p \in Policies, NEW c, NEW ls
  PROVE  Failing(AllChecks(p, c, ls)) <=>
           \E r \in p.rules : ~Unjudged(r) /\ Broken(r, c.amount, c.date, c.submitted, c.purpose)
<1>1. \A r : RuleStatus(r, c.amount, c.date, c.submitted, c.purpose) = "FAIL" <=>
        ~Unjudged(r) /\ Broken(r, c.amount, c.date, c.submitted, c.purpose)
  BY DEF RuleStatus
<1>2. \A k \in ReceiptChecks(p, ls) : k.status # "FAIL"
  BY ReceiptChecksTyped
<1>3. Failing(RuleChecks(p, c)) <=>
        \E r \in p.rules : RuleStatus(r, c.amount, c.date, c.submitted, c.purpose) = "FAIL"
  <2>1. \A status, cites : Check("DETERMINISTIC", status, cites).status = status
    BY DEF Check
  <2>2. \A k : k \in RuleChecks(p, c) <=>
          \E r \in p.rules :
            k = Check("DETERMINISTIC", RuleStatus(r, c.amount, c.date, c.submitted, c.purpose),
                      {r.section})
    BY DEF RuleChecks
  <2> HIDE DEF Check
  <2>3. ASSUME NEW r \in p.rules,
               RuleStatus(r, c.amount, c.date, c.submitted, c.purpose) = "FAIL"
        PROVE  Failing(RuleChecks(p, c))
    <3>1. Check("DETERMINISTIC", "FAIL", {r.section}) \in RuleChecks(p, c)
      BY <2>2, <2>3
    <3> QED
      BY <2>1, <3>1 DEF Failing
  <2>4. ASSUME NEW k \in RuleChecks(p, c), k.status = "FAIL"
        PROVE  \E r \in p.rules :
                 RuleStatus(r, c.amount, c.date, c.submitted, c.purpose) = "FAIL"
    <3>1. PICK r \in p.rules :
            k = Check("DETERMINISTIC", RuleStatus(r, c.amount, c.date, c.submitted, c.purpose),
                      {r.section})
      BY <2>2, <2>4
    <3>2. k.status = RuleStatus(r, c.amount, c.date, c.submitted, c.purpose)
      BY <2>1, <3>1
    <3> QED
      BY <2>4, <3>2
  <2> QED
    BY <2>3, <2>4 DEF Failing
<1> QED
  BY <1>1, <1>2, <1>3 DEF Failing, AllChecks

(* The model's turn comes only in a job that is not settled: the rules     *)
(* passed on a header that matches the lines, and the guard let it through. *)
LEMMA ModelMeansUnsettled ==
  ASSUME JudgeInv, run.node = "SEMANTIC", ~Guarded
  PROVE  ~Settled
<1>1. /\ policy \in Policies
      /\ run.checks = AllChecks(policy, claim, lines) /\ ~Failing(run.checks)
  BY DEF JudgeInv, TypeOK, Findings
<1>2. claim.amount = Total(Claimed(lines)) /\ claim.date = Oldest(lines)
  <2>1. claim.state = "SUBMITTED"
    <3>1. run.node # "IDLE"
      OBVIOUS
    <3> QED
      BY <3>1 DEF JudgeInv, Scheduled
  <2> QED
    BY <2>1 DEF JudgeInv, Filed, Matches
<1>3. ~\E r \in policy.rules :
         ~Unjudged(r) /\ Broken(r, claim.amount, claim.date, claim.submitted, claim.purpose)
  BY <1>1, FailingMeansBroken
<1>4. ~BreaksRule(policy, lines, claim.submitted, claim.purpose)
  BY <1>2, <1>3 DEF BreaksRule
<1> QED
  BY <1>4 DEF Settled, Guarded

(* A run that raises: the job has one retry less.                          *)
LEMMA RaiseKeeps ==
  ASSUME JudgeInv, Raise, job.state = "READY",
         \/ Hopeless /\ faults' = faults
         \/ faults < MaxFaults /\ faults' = faults + 1
  PROVE  JudgeInv'
<1>1. TypeOK /\ Filed /\ Scheduled /\ Exhausted /\ Findings /\ Judged
  BY DEF JudgeInv
<1>2. /\ job' = Retry(job) /\ run' = Idle
      /\ UNCHANGED <<policy, today, claim, lines, attempts>>
  BY DEF Raise, claimVars
<1>3. /\ job \in JobType /\ job.tries \in 0..MaxAttempts /\ MaxAttempts \in Nat
      /\ faults \in 0..MaxFaults /\ MaxFaults \in Nat
  BY <1>1, AssessmentAssumption DEF TypeOK, JobType
<1>4. \/ job'.state = "READY" /\ job'.tries = job.tries + 1 /\ job.tries < MaxAttempts
      \/ job'.state = "GAVE_UP" /\ job'.tries = job.tries /\ job.tries = MaxAttempts
  BY <1>2, <1>3 DEF Retry, JobType
<1>5. job' \in JobType
  <2>1. job.tries < MaxAttempts => job.tries + 1 \in 0..MaxAttempts
    BY <1>3
  <2> QED
    BY <1>2, <1>3, <2>1 DEF Retry, JobType
<1>6. faults' \in 0..MaxFaults
  BY <1>3
<1>7. run' \in RunType /\ run'.node = "IDLE"
  BY <1>2 DEF Idle, RunType
<1>8. TypeOK'
  BY <1>1, <1>2, <1>5, <1>6, <1>7 DEF TypeOK
<1>9. Filed'
  BY <1>1, <1>2 DEF Filed
<1>10. Scheduled'
  <2>1. claim.state = "SUBMITTED"
    BY <1>1 DEF Scheduled
  <2> QED
    BY <1>1, <1>2, <1>7, <2>1 DEF Scheduled
<1>11. Exhausted'
  <2>1. Hopeless' <=> Hopeless
    BY <1>2 DEF Hopeless, Settled
  <2>2. Hopeless \/ job.tries <= faults
    BY <1>1 DEF Exhausted
  <2>3. CASE Hopeless
    BY <2>1, <2>3 DEF Exhausted
  <2>4. CASE ~Hopeless
    <3>1. faults' = faults + 1 /\ job.tries <= faults
      BY <2>2, <2>4
    <3> QED
      BY <3>1, <1>3, <1>4 DEF Exhausted
  <2> QED
    BY <2>3, <2>4
<1>12. Findings'
  BY <1>7 DEF Findings
<1>13. Judged'
  BY <1>1, <1>2, JudgedStays
<1> QED
  BY <1>8, <1>9, <1>10, <1>11, <1>12, <1>13 DEF JudgeInv

(* A step of the graph from one node to the next.                          *)
LEMMA NodeKeeps ==
  ASSUME JudgeInv, job.state = "READY", run' \in RunType, Findings',
         UNCHANGED <<policy, today, claim, lines, attempts, job, faults>>
  PROVE  JudgeInv'
<1>1. TypeOK /\ Filed /\ Scheduled /\ Exhausted /\ Judged
  BY DEF JudgeInv
<1>2. TypeOK'
  BY <1>1 DEF TypeOK
<1>3. Filed' /\ Scheduled'
  BY <1>1 DEF Filed, Scheduled
<1>4. Exhausted'
  <2>1. Hopeless' <=> Hopeless
    BY DEF Hopeless, Settled
  <2> QED
    BY <1>1, <2>1 DEF Exhausted
<1>5. Judged'
  BY <1>1, JudgedStays
<1> QED
  BY <1>2, <1>3, <1>4, <1>5 DEF JudgeInv

LEMMA BeginKeeps ==
  ASSUME JudgeInv, Begin
  PROVE  JudgeInv'
<1>1. job.state = "READY" /\ faults' = faults
  BY DEF Begin
<1>2. CASE TooMuchEvidence(lines)
  <2>1. Raise /\ Hopeless
    BY <1>2 DEF Begin, Hopeless
  <2> QED
    BY <1>1, <2>1, RaiseKeeps
<1>3. CASE ~TooMuchEvidence(lines)
  <2>1. /\ run' = [Idle EXCEPT !.node = "RULES", !.checks = ReceiptChecks(policy, lines)]
        /\ UNCHANGED <<policy, today, claim, lines, attempts, job, faults>>
    BY <1>1, <1>3 DEF Begin, claimVars
  <2>2. ReceiptChecks(policy, lines) \subseteq CheckType
    <3>1. policy \in Policies
      BY DEF JudgeInv, TypeOK
    <3> QED
      BY <3>1, ReceiptChecksTyped DEF Own
  <2>3. /\ run' \in RunType /\ run'.node = "RULES" /\ ~run'.failed
        /\ run'.checks = ReceiptChecks(policy, lines)
    <3> HIDE DEF ReceiptChecks
    <3> QED
      BY <2>1, <2>2 DEF Idle, RunType
  <2>4. Findings'
    BY <2>1, <2>3 DEF Findings
  <2> QED
    BY <1>1, <2>1, <2>3, <2>4, NodeKeeps
<1> QED
  BY <1>2, <1>3

LEMMA RunRulesKeeps ==
  ASSUME JudgeInv, RunRules
  PROVE  JudgeInv'
<1>1. /\ run.node = "RULES" /\ faults' = faults /\ policy \in Policies /\ run \in RunType
      /\ job.state = "READY" /\ run.checks = ReceiptChecks(policy, lines) /\ ~run.failed
  BY DEF RunRules, JudgeInv, TypeOK, Scheduled, Findings
<1>2. CASE \E r \in policy.rules : Raises(r)
  <2>1. Raise /\ Hopeless
    BY <1>2 DEF RunRules, Hopeless
  <2> QED
    BY <1>1, <2>1, RaiseKeeps
<1>3. CASE ~\E r \in policy.rules : Raises(r)
  <2> DEFINE checks == AllChecks(policy, claim, lines)
  <2>1. /\ run' = [run EXCEPT !.node = AfterRules(checks), !.checks = checks]
        /\ UNCHANGED <<policy, today, claim, lines, attempts, job, faults>>
    BY <1>1, <1>3 DEF RunRules, claimVars, AllChecks
  <2>2. checks \subseteq Own(policy)
    BY <1>1, ReceiptChecksTyped, RuleChecksTyped DEF AllChecks
  <2>3. Deterministic(checks) = checks /\ checks \subseteq CheckType
    BY <2>2 DEF Own, Deterministic
  <2>4. AfterRules(checks) = IF Failing(checks) THEN "AGGREGATE" ELSE "SEMANTIC"
    BY DEF AfterRules, Failing
  <2>5. checks' = checks
    BY <2>1
  <2> HIDE DEF checks
  <2>6. /\ run' \in RunType /\ run'.checks = checks /\ run'.failed = FALSE
        /\ run'.node = AfterRules(checks)
    BY <1>1, <2>1, <2>3, <2>4 DEF RunType
  <2>7. CASE Failing(checks)
    <3>1. run'.node = "AGGREGATE"
      BY <2>4, <2>6, <2>7
    <3>2. Sound(policy, checks, FALSE, claim, lines)
      BY <2>2, <2>3 DEF Sound, Own, checks
    <3>3. Findings'
      BY <2>1, <2>6, <3>1, <3>2 DEF Findings
    <3> QED
      BY <1>1, <2>1, <2>6, <3>3, NodeKeeps
  <2>8. CASE ~Failing(checks)
    <3>1. run'.node = "SEMANTIC"
      BY <2>4, <2>6, <2>8
    <3>2. Findings'
      BY <2>1, <2>6, <2>8, <3>1 DEF Findings, checks
    <3> QED
      BY <1>1, <2>1, <2>6, <3>2, NodeKeeps
  <2> QED
    BY <2>7, <2>8
<1> QED
  BY <1>2, <1>3

LEMMA SemanticKeeps ==
  ASSUME JudgeInv, Semantic
  PROVE  JudgeInv'
<1>1. policy \in Policies /\ run \in RunType
  BY DEF JudgeInv, TypeOK
<1>2. PICK model, failed : Concludes(model, failed)
  BY SemanticConcludes DEF JudgeInv
<1>3. /\ run.node = "SEMANTIC"
      /\ run' = [node |-> "AGGREGATE", checks |-> run.checks \cup model, failed |-> failed]
      /\ UNCHANGED <<policy, today, claim, lines, attempts, job, faults>>
      /\ failed \in BOOLEAN
      /\ \A k \in model : k \in CheckType /\ k.source = "AI" /\ k.cites \subseteq policy.sections
  BY <1>2 DEF Concludes, Conclude, claimVars
<1>4. /\ job.state = "READY"
      /\ run.checks = AllChecks(policy, claim, lines) /\ ~Failing(run.checks)
  BY <1>3 DEF JudgeInv, Scheduled, Findings
<1>5. run' \in RunType /\ run'.node = "AGGREGATE" /\ run'.failed = failed
      /\ run'.checks = run.checks \cup model
  <2>1. run.checks \cup model \in SUBSET CheckType
    BY <1>1, <1>3 DEF RunType
  <2> QED
    BY <1>3, <2>1 DEF RunType
<1>6. \A k \in AllChecks(policy, claim, lines) : k.cites \subseteq policy.sections
  BY <1>1, ReceiptChecksTyped, RuleChecksTyped DEF AllChecks, Own
<1>7. Sound(policy, run.checks \cup model, failed, claim, lines)
  BY <1>1, <1>3, <1>4, <1>6, ModelAddsNothing DEF Sound
<1>8. Findings'
  BY <1>3, <1>5, <1>7 DEF Findings
<1> QED
  BY <1>3, <1>4, <1>5, <1>8, NodeKeeps

LEMMA CommitKeeps ==
  ASSUME JudgeInv, Commit
  PROVE  JudgeInv'
<1> DEFINE a == [lines |-> lines, purpose |-> claim.purpose, submitted |-> claim.submitted,
                 checks |-> run.checks, fallback |-> run.failed,
                 recommendation |-> Aggregate(run.checks, run.failed)]
<1>1. TypeOK /\ Filed /\ Scheduled /\ Exhausted /\ Findings /\ Judged
  BY DEF JudgeInv
<1>2. /\ run.node = "AGGREGATE"
      /\ attempts' = Append(attempts, a)
      /\ claim' = [claim EXCEPT !.state = "AWAITING_REVIEW"]
      /\ job' = NoJob /\ run' = Idle
      /\ UNCHANGED <<policy, today, lines, faults>>
  BY DEF Commit, JobEnds
<1>3. /\ claim \in ClaimType /\ run \in RunType /\ attempts \in Seq(AttemptType)
      /\ claim.state = "SUBMITTED" /\ Len(attempts) < MaxRevision
      /\ lines \in Seq(LineType) /\ lines # <<>>
      /\ claim.purpose \in Purposes /\ Matches(claim, lines)
      /\ Sound(policy, run.checks, run.failed, claim, lines)
  BY <1>1, <1>2 DEF TypeOK, Scheduled, Filed, Findings
<1>4. /\ a \in AttemptType
      /\ a.lines = lines /\ a.purpose = claim.purpose /\ a.submitted = claim.submitted
      /\ a.checks = run.checks /\ a.fallback = run.failed
      /\ a.recommendation = Aggregate(run.checks, run.failed)
  <2>1. Aggregate(run.checks, run.failed) \in {"APPROVE", "REVIEW", "REJECT"}
    BY DEF Aggregate
  <2>2. run.checks \in SUBSET CheckType /\ run.failed \in BOOLEAN /\ claim.submitted \in Nat
    BY <1>3 DEF RunType, ClaimType
  <2> QED
    BY <1>3, <2>1, <2>2 DEF AttemptType
<1> HIDE DEF a
<1>5. /\ claim' \in ClaimType /\ claim'.state = "AWAITING_REVIEW"
      /\ claim'.merchant = claim.merchant /\ claim'.purpose = claim.purpose
      /\ claim'.amount = claim.amount /\ claim'.date = claim.date
      /\ claim'.submitted = claim.submitted
  BY <1>2, <1>3 DEF ClaimType
<1>6. /\ attempts' \in Seq(AttemptType)
      /\ Len(attempts') = Len(attempts) + 1
      /\ \A n \in DOMAIN attempts' : \/ n \in DOMAIN attempts /\ attempts'[n] = attempts[n]
                                     \/ attempts'[n] = a
  BY <1>2, <1>3, <1>4, AppendProperties
<1>7. TypeOK'
  <2>1. Len(attempts') <= MaxRevision
    BY <1>3, <1>6, AssessmentAssumption, LenProperties
  <2>2. job' \in JobType /\ run' \in RunType
    BY <1>2, AssessmentAssumption DEF NoJob, JobType, Idle, RunType
  <2> QED
    BY <1>1, <1>2, <1>3, <1>5, <1>6, <2>1, <2>2 DEF TypeOK
<1>8. Filed'
  BY <1>2, <1>3, <1>5, <1>1 DEF Filed, Matches
<1>9. Scheduled' /\ Exhausted' /\ Findings'
  BY <1>2, <1>5 DEF Scheduled, Exhausted, Findings, NoJob, Idle
<1>10. JudgedAttempt(a, policy, claim)
  <2>1. AllChecks(policy, Facts(a), a.lines) = AllChecks(policy, claim, lines)
    <3>1. /\ Facts(a).amount = claim.amount /\ Facts(a).date = claim.date
          /\ Facts(a).submitted = claim.submitted /\ Facts(a).purpose = claim.purpose
      BY <1>3, <1>4 DEF Facts, Matches
    <3>2. RuleChecks(policy, Facts(a)) = RuleChecks(policy, claim)
      BY <3>1, RulesSeeFacts
    <3> QED
      BY <1>4, <3>2 DEF AllChecks
  <2>2. Sound(policy, a.checks, a.fallback, Facts(a), a.lines)
    BY <1>3, <1>4, <2>1 DEF Sound
  <2> QED
    BY <1>3, <1>4, <2>2 DEF JudgedAttempt
<1>11. Judged'
  <2>1. ASSUME NEW n \in DOMAIN attempts'
        PROVE  JudgedAttempt(attempts'[n], policy', claim')
    <3>1. \/ attempts'[n] = a
          \/ n \in DOMAIN attempts /\ attempts'[n] = attempts[n]
      BY <1>6, <2>1
    <3>2. JudgedAttempt(attempts'[n], policy, claim)
      BY <1>1, <1>10, <3>1 DEF Judged
    <3> QED
      BY <1>2, <1>5, <3>2 DEF JudgedAttempt
  <2> QED
    BY <2>1 DEF Judged
<1> QED
  BY <1>7, <1>8, <1>9, <1>11 DEF JudgeInv

LEMMA JudgeInvNext == JudgeInv /\ [Next]_vars => JudgeInv'
<1> SUFFICES ASSUME JudgeInv, [Next]_vars
             PROVE  JudgeInv'
  OBVIOUS
<1>1. ASSUME NEW ls \in LineLists, NEW purpose \in Purposes, Submit(ls, purpose)
      PROVE  JudgeInv'
  BY <1>1, SubmitKeeps
<1>2. CASE RequestInformation
  BY <1>2, RequestInformationKeeps
<1>3. CASE Resubmission
  BY <1>3, ResubmissionKeeps
<1>4. CASE DayPasses
  <2>1. /\ today' = today + 1 /\ today < LastDay
        /\ UNCHANGED <<policy, claim, lines, attempts, job, run, faults>>
    BY <1>4 DEF DayPasses, claimVars
  <2>2. TypeOK'
    <3>1. today' \in 1..LastDay
      BY <2>1, AssessmentAssumption DEF JudgeInv, TypeOK
    <3>2. TypeOK
      BY DEF JudgeInv
    <3> QED
      BY <2>1, <3>1, <3>2 DEF TypeOK
  <2>3. Filed' /\ Scheduled' /\ Findings'
    BY <2>1 DEF JudgeInv, Filed, Scheduled, Findings
  <2>4. Exhausted'
    <3>1. Hopeless' <=> Hopeless
      BY <2>1 DEF Hopeless, Settled
    <3> QED
      BY <2>1, <3>1 DEF JudgeInv, Exhausted
  <2>5. Judged'
    BY <2>1, JudgedStays DEF JudgeInv
  <2> QED
    BY <2>2, <2>3, <2>4, <2>5 DEF JudgeInv
<1>5. CASE Begin
  BY <1>5, BeginKeeps
<1>6. CASE RunRules
  BY <1>6, RunRulesKeeps
<1>7. CASE Semantic
  BY <1>7, SemanticKeeps
<1>8. CASE ModelUnusable
  <2>1. run.node = "SEMANTIC" /\ ~Guarded /\ Raise /\ faults' = faults
    BY <1>8 DEF ModelUnusable
  <2>2. job.state = "READY"
    BY <2>1 DEF JudgeInv, Scheduled
  <2>3. Hopeless
    BY <2>1, ModelMeansUnsettled DEF Hopeless
  <2> QED
    BY <2>1, <2>2, <2>3, RaiseKeeps
<1>9. CASE Fault
  <2>1. run.node # "IDLE" /\ faults < MaxFaults /\ faults' = faults + 1 /\ Raise
    BY <1>9 DEF Fault
  <2>2. job.state = "READY"
    BY <2>1 DEF JudgeInv, Scheduled
  <2> QED
    BY <2>1, <2>2, RaiseKeeps
<1>10. CASE Commit
  BY <1>10, CommitKeeps
<1>11. CASE UNCHANGED vars
  <2>1. UNCHANGED <<policy, today, claim, lines, attempts, job, run, faults>>
    BY <1>11 DEF vars, claimVars
  <2>2. TypeOK'
    BY <2>1 DEF JudgeInv, TypeOK
  <2>3. Filed' /\ Scheduled' /\ Findings'
    BY <2>1 DEF JudgeInv, Filed, Scheduled, Findings
  <2>4. Exhausted'
    <3>1. Hopeless' <=> Hopeless
      BY <2>1 DEF Hopeless, Settled
    <3> QED
      BY <2>1, <3>1 DEF JudgeInv, Exhausted
  <2>5. Judged'
    BY <2>1, JudgedStays DEF JudgeInv
  <2> QED
    BY <2>2, <2>3, <2>4, <2>5 DEF JudgeInv
<1> QED
  BY <1>1, <1>2, <1>3, <1>4, <1>5, <1>6, <1>7, <1>8, <1>9, <1>10, <1>11 DEF Next, Resubmission

THEOREM JudgeInvHolds == Spec => []JudgeInv
  BY JudgeInvInit, JudgeInvNext, PTL DEF Spec

-----------------------------------------------------------------------------
(* What follows for a judged attempt.                                      *)

(* The checks of a judged attempt say what the rules and receipts say.     *)
LEMMA AttemptFacts ==
  ASSUME JudgeInv, NEW n \in DOMAIN attempts
  PROVE  LET a == attempts[n] IN
         /\ a \in AttemptType /\ a.lines \in Seq(LineType) /\ a.lines # <<>>
         /\ policy \in Policies
         /\ Deterministic(a.checks) = AllChecks(policy, Facts(a), a.lines)
         /\ a.fallback => ~Failing(AllChecks(policy, Facts(a), a.lines))
         /\ a.recommendation = Aggregate(a.checks, a.fallback)
<1> DEFINE a == attempts[n]
<1>1. a \in AttemptType /\ policy \in Policies
  BY DEF JudgeInv, TypeOK
<1>2. a.lines \in Seq(LineType)
  BY <1>1 DEF AttemptType
<1>3. JudgedAttempt(a, policy, claim)
  BY DEF JudgeInv, Judged
<1> QED
  BY <1>1, <1>2, <1>3 DEF JudgedAttempt, Sound

(* A claim is rejected exactly when its lines break a rule (domain.py:98). *)
THEOREM RejectsBreakers == Spec => []RejectsRuleBreakers
<1>1. ASSUME JudgeInv
      PROVE  RejectsRuleBreakers
  <2>1. SUFFICES ASSUME NEW n \in DOMAIN attempts
                 PROVE  LET a == attempts[n] IN
                        a.recommendation = "REJECT" <=> Failing(AllChecks(policy, Facts(a), a.lines))
    <3>1. ASSUME NEW n \in DOMAIN attempts
          PROVE  LET a == attempts[n] IN
                 Failing(AllChecks(policy, Facts(a), a.lines)) <=>
                   \E r \in policy.rules :
                     /\ ~Unjudged(r)
                     /\ Broken(r, Total(Claimed(a.lines)), Oldest(a.lines), a.submitted, a.purpose)
      <4> DEFINE a == attempts[n]
      <4>1. /\ Facts(a).amount = Total(Claimed(a.lines)) /\ Facts(a).date = Oldest(a.lines)
            /\ Facts(a).submitted = a.submitted /\ Facts(a).purpose = a.purpose
        BY DEF Facts
      <4>2. policy \in Policies
        BY <1>1 DEF JudgeInv, TypeOK
      <4> HIDE DEF a
      <4>3. Failing(AllChecks(policy, Facts(a), a.lines)) <=>
              \E r \in policy.rules :
                ~Unjudged(r) /\ Broken(r, Facts(a).amount, Facts(a).date, Facts(a).submitted,
                                       Facts(a).purpose)
        BY <4>2, FailingMeansBroken
      <4> QED
        BY <4>1, <4>3 DEF a
    <3> QED
      BY <3>1 DEF RejectsRuleBreakers, BreaksRule
  <2> DEFINE a == attempts[n]
             own == AllChecks(policy, Facts(a), a.lines)
  <2>2. /\ Deterministic(a.checks) = own
        /\ a.fallback => ~Failing(own)
        /\ a.recommendation = Aggregate(a.checks, a.fallback)
    BY <1>1, AttemptFacts
  <2> HIDE DEF a, own
  <2>3. a.recommendation = "REJECT" <=> Failing(own)
    BY <2>2 DEF Aggregate, Failing, Deterministic
  <2> QED
    BY <2>3 DEF a, own
<1> QED
  BY <1>1, JudgeInvHolds, PTL

(* The model can only make a recommendation more careful (graph.py:101).   *)
THEOREM OnlyDowngrades == Spec => []ModelOnlyDowngrades
<1>1. ASSUME JudgeInv
      PROVE  ModelOnlyDowngrades
  <2>1. SUFFICES ASSUME NEW n \in DOMAIN attempts
                 PROVE  attempts[n].recommendation \in
                          {Aggregate(Deterministic(attempts[n].checks), FALSE), "REVIEW"}
    BY DEF ModelOnlyDowngrades
  <2> DEFINE a == attempts[n]
  <2>2. a.recommendation = Aggregate(a.checks, a.fallback) /\ a.fallback \in BOOLEAN
    BY <1>1, AttemptFacts DEF AttemptType
  <2>3. Deterministic(a.checks) # {}
    <3>1. Deterministic(a.checks) = AllChecks(policy, Facts(a), a.lines)
          /\ policy \in Policies
      BY <1>1, AttemptFacts
    <3>2. PICK r \in policy.rules : TRUE
      BY <3>1, PolicyTyped
    <3> QED
      BY <3>1, <3>2 DEF AllChecks, RuleChecks
  <2> HIDE DEF a
  <2>4. a.recommendation \in {Aggregate(Deterministic(a.checks), FALSE), "REVIEW"}
    BY <2>2, <2>3 DEF Aggregate, Deterministic
  <2> QED
    BY <2>4 DEF a
<1> QED
  BY <1>1, JudgeInvHolds, PTL

(* Every citation kept is a section of the pinned policy (ai.py:80).       *)
THEOREM AllCitationsResolve == Spec => []CitationsResolve
<1>1. JudgeInv => CitationsResolve
  BY DEF JudgeInv, Judged, JudgedAttempt, Sound, CitationsResolve
<1> QED
  BY <1>1, JudgeInvHolds, PTL

(* The same evidence is assessed alike on any day (services.py:195).       *)
THEOREM AlwaysReproducible == Spec => []Reproducible
<1>1. ASSUME JudgeInv
      PROVE  Reproducible
  <2>1. SUFFICES ASSUME NEW m \in DOMAIN attempts, NEW n \in DOMAIN attempts,
                        attempts[m].lines = attempts[n].lines,
                        attempts[m].purpose = attempts[n].purpose
                 PROVE  Deterministic(attempts[m].checks) = Deterministic(attempts[n].checks)
    BY DEF Reproducible
  <2>2. attempts[m].submitted = attempts[n].submitted
    BY <1>1 DEF JudgeInv, Judged, JudgedAttempt
  <2>3. Facts(attempts[m]) = Facts(attempts[n])
    BY <2>1, <2>2 DEF Facts
  <2> QED
    BY <1>1, <2>1, <2>3, AttemptFacts
<1> QED
  BY <1>1, JudgeInvHolds, PTL

(* A claim that is settled without the model is never abandoned over it:   *)
(* it takes more faults than the job has retries (graph.py:39 and :48).    *)
THEOREM SettledNeedsNoModel == Spec => []SettledWithoutModel
<1>1. JudgeInv => SettledWithoutModel
  BY DEF JudgeInv, Exhausted, Hopeless, Settled, SettledWithoutModel
<1> QED
  BY <1>1, JudgeInvHolds, PTL

(* Every record stays of its type.                                         *)
THEOREM AssessmentTyped == Spec => []TypeOK
<1>1. JudgeInv => TypeOK
  BY DEF JudgeInv
<1> QED
  BY <1>1, JudgeInvHolds, PTL

(* An approval is earned by every line and every rule (domain.py:102).     *)
THEOREM ApprovalsEarned == Spec => []ApprovalEarned
<1>1. ASSUME JudgeInv
      PROVE  ApprovalEarned
  <2>1. ASSUME NEW n \in DOMAIN attempts, attempts[n].recommendation = "APPROVE"
        PROVE  LET a == attempts[n] IN
               /\ \A p \in DOMAIN a.lines : Matched(a.lines[p])
               /\ Flagged(a.lines) = {}
               /\ \A r \in policy.rules :
                    RuleStatus(r, Total(Claimed(a.lines)), Oldest(a.lines), a.submitted, a.purpose)
                      = "PASS"
    <3> DEFINE a == attempts[n]
    <3>1. Deterministic(a.checks) = AllChecks(policy, Facts(a), a.lines)
          /\ a.recommendation = Aggregate(a.checks, a.fallback)
      BY <1>1, AttemptFacts
    <3>2. a.recommendation = "APPROVE"
      BY <2>1
    <3> HIDE DEF a
    <3>3. \A k \in a.checks : k.status = "PASS"
      BY <3>1, <3>2 DEF Aggregate
    <3>4. \A k \in ReceiptChecks(policy, a.lines) \cup RuleChecks(policy, Facts(a)) :
            k.status = "PASS"
      BY <3>1, <3>3 DEF Deterministic, AllChecks
    <3>0. \A status, cites : Check("DETERMINISTIC", status, cites).status = status
      BY DEF Check
    <3> HIDE DEF Check
    <3>5. \A p \in DOMAIN a.lines : Matched(a.lines[p])
      <4>1. SUFFICES ASSUME NEW p \in DOMAIN a.lines
                     PROVE  Matched(a.lines[p])
        OBVIOUS
      <4>2. Check("DETERMINISTIC", IF Matched(a.lines[p]) THEN "PASS" ELSE "UNKNOWN",
                  {ReceiptSection(policy)}) \in ReceiptChecks(policy, a.lines)
        BY <4>1 DEF ReceiptChecks
      <4>3. (IF Matched(a.lines[p]) THEN "PASS" ELSE "UNKNOWN") = "PASS"
        BY <4>2, <3>4, <3>0
      <4> QED
        BY <4>3
    <3>6. Flagged(a.lines) = {}
      <4>1. SUFFICES ASSUME NEW p \in Flagged(a.lines)
                     PROVE  FALSE
        OBVIOUS
      <4>2. Check("DETERMINISTIC", "UNKNOWN", {ReceiptSection(policy)})
              \in ReceiptChecks(policy, a.lines)
        BY <4>1 DEF ReceiptChecks
      <4> QED
        BY <4>2, <3>4, <3>0
    <3>7. \A r \in policy.rules :
            RuleStatus(r, Facts(a).amount, Facts(a).date, Facts(a).submitted, Facts(a).purpose)
              = "PASS"
      <4>1. SUFFICES ASSUME NEW r \in policy.rules
                     PROVE  RuleStatus(r, Facts(a).amount, Facts(a).date, Facts(a).submitted,
                                       Facts(a).purpose) = "PASS"
        OBVIOUS
      <4>2. Check("DETERMINISTIC",
                  RuleStatus(r, Facts(a).amount, Facts(a).date, Facts(a).submitted,
                             Facts(a).purpose),
                  {r.section}) \in RuleChecks(policy, Facts(a))
        BY <4>1 DEF RuleChecks
      <4> QED
        BY <4>2, <3>4, <3>0
    <3> QED
      BY <3>5, <3>6, <3>7 DEF a, Facts
  <2>2. ASSUME NEW n \in DOMAIN attempts, attempts[n].recommendation = "APPROVE",
               NEW r \in policy.rules
        PROVE  LET a == attempts[n] IN
               /\ ~Unjudged(r)
               /\ r.kind = "amount_limit" =>
                    Total([p \in DOMAIN a.lines |-> Reading[a.lines[p].receipt].amount]) <= r.bound
               /\ r.kind = "submission_window" =>
                    \A p \in DOMAIN a.lines :
                      a.submitted - Reading[a.lines[p].receipt].date <= r.bound
               /\ r.kind = "prohibited_category" => Category \notin r.banned
               /\ r.kind = "business_purpose_required" => a.purpose \notin Blank
    <3> DEFINE a == attempts[n]
               total == Total(Claimed(a.lines))
               first == Oldest(a.lines)
    <3>1. /\ \A p \in DOMAIN a.lines : Matched(a.lines[p])
          /\ RuleStatus(r, total, first, a.submitted, a.purpose) = "PASS"
      BY <2>1, <2>2
    <3>2. a \in AttemptType /\ a.lines \in Seq(LineType) /\ a.lines # <<>> /\ policy \in Policies
      BY <1>1, AttemptFacts
    <3>3. r \in RuleType
      BY <3>2, PolicyTyped
    <3>4. \A p \in DOMAIN a.lines : /\ Reading[a.lines[p].receipt].amount = a.lines[p].amount
                                    /\ Reading[a.lines[p].receipt].date = a.lines[p].date
      BY <3>1 DEF Matched
    <3>5. [p \in DOMAIN a.lines |-> Reading[a.lines[p].receipt].amount] = Claimed(a.lines)
      BY <3>4 DEF Claimed
    <3>6. /\ first \in Nat
          /\ \A p \in DOMAIN a.lines : a.lines[p].date \in Nat /\ first <= a.lines[p].date
      <4>1. \A p \in DOMAIN a.lines : a.lines[p] \in LineType
        BY <3>2
      <4> QED
        BY <3>2, <4>1, OldestIsLeast DEF LineType
    <3>7. a.submitted \in Nat /\ r.bound \in Nat
      BY <3>2, <3>3 DEF AttemptType, RuleType
    <3>8. total \in Nat
      <4>1. Claimed(a.lines) \in Seq(Nat)
        BY <3>2, ClaimedAreNatural
      <4> QED
        BY <4>1, TotalIsNatural
    <3> HIDE DEF a, total, first
    <3>9. ~Unjudged(r) /\ ~Broken(r, total, first, a.submitted, a.purpose)
      BY <3>1 DEF RuleStatus
    <3>10. r.kind = "amount_limit" => total <= r.bound
      BY <3>7, <3>8, <3>9 DEF Broken
    <3>11. r.kind = "submission_window" =>
             \A p \in DOMAIN a.lines : a.submitted - Reading[a.lines[p].receipt].date <= r.bound
      <4>1. ASSUME r.kind = "submission_window", NEW p \in DOMAIN a.lines
            PROVE  a.submitted - a.lines[p].date <= r.bound
        <5>1. a.submitted - first \in 0..r.bound
          BY <3>9, <4>1 DEF Broken
        <5> QED
          BY <3>6, <3>7, <4>1, <5>1
      <4> QED
        BY <3>4, <4>1
    <3>12. /\ r.kind = "prohibited_category" => Category \notin r.banned
           /\ r.kind = "business_purpose_required" => a.purpose \notin Blank
      BY <3>9 DEF Broken
    <3> QED
      BY <3>5, <3>9, <3>10, <3>11, <3>12 DEF a, total
  <2> QED
    BY <2>1, <2>2 DEF ApprovalEarned
<1> QED
  BY <1>1, JudgeInvHolds, PTL

-----------------------------------------------------------------------------
(* The contract.                                                           *)

LEMMA PhaseOfState ==
  /\ claim.state = "NONE" => Phase = "ABSENT"
  /\ claim.state = "SUBMITTED" => Phase = "FILED"
  /\ claim.state = "AWAITING_REVIEW" => Phase = "REVIEW"
  /\ claim.state = "INFORMATION_REQUESTED" => Phase = "ASKED"
BY Zenon DEF Phase

LEMMA PhaseOfNextState ==
  /\ claim'.state = "SUBMITTED" => Phase' = "FILED"
  /\ claim'.state = "AWAITING_REVIEW" => Phase' = "REVIEW"
  /\ claim'.state = "INFORMATION_REQUESTED" => Phase' = "ASKED"
BY Zenon DEF Phase

(* A step that leaves the claim, its lines and its attempts alone is none  *)
(* of the contract's.                                                      *)
LEMMA ContractStutters ==
  ASSUME UNCHANGED <<claim, lines, attempts>>
  PROVE  UNCHANGED Contract!contractVars
BY DEF Contract!contractVars, Phase, Resting, LastAssessed, NoEvidence

(* What a first submission leaves.                                         *)
LEMMA SubmitFiles ==
  ASSUME JudgeInv, NEW ls \in LineLists, NEW purpose \in Purposes, Submit(ls, purpose)
  PROVE  claim'.state = "SUBMITTED" /\ claim'.purpose = purpose
<1> DEFINE c == [NoClaim EXCEPT !.state = "SUBMITTED", !.purpose = purpose,
                                !.submitted = today]
<1>1. today \in Nat
  BY AssessmentAssumption DEF JudgeInv, TypeOK
<1>2. c \in ClaimType /\ c.state = "SUBMITTED" /\ c.purpose = purpose
  BY <1>1 DEF NoClaim, ClaimType, NoAmount, NoDate
<1>3. claim' = Headed(c, ls)
  BY DEF Submit, c
<1> HIDE DEF c
<1> QED
  BY <1>2, <1>3, ReportsAreLines, HeadedMatches

(* A claim that is submitted, first or again, with lines in order.         *)
LEMMA FilesContract ==
  ASSUME claim.state \in {"NONE", "INFORMATION_REQUESTED"}, claim'.state = "SUBMITTED",
         lines' \in Seq(LineType), lines' # <<>>, claim'.purpose \in Purposes,
         UNCHANGED attempts
  PROVE  Contract!File
<1>1. Phase \in {"ABSENT", "ASKED"} /\ Phase' = "FILED"
  BY PhaseOfState, PhaseOfNextState
<1>2. Resting' \in [lines : Seq(LineType) \ {<<>>}, purpose : Purposes]
  BY DEF Resting
<1>3. LastAssessed' = LastAssessed /\ NoEvidence' = NoEvidence
  BY DEF LastAssessed, NoEvidence
<1> QED
  BY <1>1, <1>2, <1>3 DEF Contract!File

(* The attempt a commit adds is of what the claim rests on.                *)
LEMMA CommitAssesses ==
  ASSUME JudgeInv, Commit
  PROVE  LastAssessed' = Resting
<1> DEFINE a == [lines |-> lines, purpose |-> claim.purpose, submitted |-> claim.submitted,
                 checks |-> run.checks, fallback |-> run.failed,
                 recommendation |-> Aggregate(run.checks, run.failed)]
<1>1. attempts \in Seq(AttemptType) /\ attempts' = Append(attempts, a)
  BY DEF JudgeInv, TypeOK, Commit
<1>2. a.lines = lines /\ a.purpose = claim.purpose
  OBVIOUS
<1> HIDE DEF a
<1>3. Len(attempts') = Len(attempts) + 1 /\ attempts'[Len(attempts')] = a /\ attempts' # <<>>
  <2>1. Len(attempts) \in Nat
    BY <1>1, LenProperties
  <2>2. Len(attempts') = Len(attempts) + 1 /\ attempts'[Len(attempts) + 1] = a
    BY <1>1, AppendProperties, SMT
  <2>3. attempts' # <<>>
    BY <2>1, <2>2
  <2> QED
    BY <2>2, <2>3
<1>4. LastAssessed' = [lines |-> a.lines, purpose |-> a.purpose]
  BY <1>3 DEF LastAssessed
<1> QED
  BY <1>2, <1>4 DEF Resting

(* Every step is a step of the contract, or none.                          *)
LEMMA ContractStep ==
  ASSUME JudgeInv, [Next]_vars
  PROVE  [Contract!ContractNext]_(Contract!contractVars)
<1>1. ASSUME NEW ls \in LineLists, NEW purpose \in Purposes, Submit(ls, purpose)
      PROVE  Contract!File
  <2>1. /\ claim.state = "NONE" /\ lines' = ls /\ UNCHANGED attempts
        /\ claim'.state = "SUBMITTED" /\ claim'.purpose = purpose
    BY <1>1, SubmitFiles DEF Submit
  <2> QED
    BY <2>1, ReportsAreLines, FilesContract
<1>2. ASSUME Resubmission
      PROVE  Contract!File
  <2>1. PICK h, ls, purpose : Answers(h, ls, purpose)
    BY <1>2, ResubmissionAnswers DEF JudgeInv
  <2>2. /\ claim.state = "INFORMATION_REQUESTED" /\ lines' = ls /\ UNCHANGED attempts
        /\ claim' = [h EXCEPT !.state = "SUBMITTED", !.purpose = purpose]
        /\ h \in ClaimType /\ purpose \in Purposes
        /\ ls \in Seq(LineType) /\ ls # <<>>
    BY <2>1 DEF Answers, Resubmit
  <2>3. claim'.state = "SUBMITTED" /\ claim'.purpose = purpose
    BY <2>2 DEF ClaimType
  <2> QED
    BY <2>2, <2>3, FilesContract
<1>3. ASSUME RequestInformation
      PROVE  Contract!Ask
  <2>1. claim \in ClaimType
    BY DEF JudgeInv, TypeOK
  <2>2. /\ claim.state = "AWAITING_REVIEW" /\ claim'.state = "INFORMATION_REQUESTED"
        /\ claim'.purpose = claim.purpose /\ UNCHANGED <<lines, attempts>>
    BY <1>3, <2>1 DEF RequestInformation, ClaimType
  <2>3. Phase = "REVIEW" /\ Phase' = "ASKED"
    BY <2>2, PhaseOfState, PhaseOfNextState
  <2>4. UNCHANGED <<Resting, LastAssessed, NoEvidence>>
    BY <2>2 DEF Resting, LastAssessed, NoEvidence
  <2> QED
    BY <2>3, <2>4 DEF Contract!Ask
<1>4. ASSUME Commit
      PROVE  Contract!Recommend
  <2>1. run.node = "AGGREGATE" /\ claim \in ClaimType
    BY <1>4 DEF Commit, JudgeInv, TypeOK
  <2>2. claim.state = "SUBMITTED"
    BY <2>1 DEF JudgeInv, Scheduled
  <2>3. claim'.state = "AWAITING_REVIEW" /\ claim'.purpose = claim.purpose /\ UNCHANGED lines
    BY <1>4, <2>1 DEF Commit, ClaimType
  <2>4. Phase = "FILED" /\ Phase' = "REVIEW"
    BY <2>2, <2>3, PhaseOfState, PhaseOfNextState
  <2>5. LastAssessed' = Resting
    BY <1>4, CommitAssesses
  <2>6. UNCHANGED <<Resting, NoEvidence>>
    BY <2>3 DEF Resting, NoEvidence
  <2> QED
    BY <2>4, <2>5, <2>6 DEF Contract!Recommend
<1>5. ASSUME DayPasses \/ Begin \/ RunRules \/ Semantic \/ ModelUnusable \/ Fault
      PROVE  UNCHANGED Contract!contractVars
  <2>1. CASE DayPasses
    BY <2>1, ContractStutters DEF DayPasses, claimVars
  <2>2. CASE Begin
    BY <2>2, ContractStutters DEF Begin, Raise, claimVars
  <2>3. CASE RunRules
    BY <2>3, ContractStutters DEF RunRules, Raise, claimVars
  <2>4. CASE Semantic
    <3>1. PICK model, failed : Concludes(model, failed)
      BY <2>4, SemanticConcludes DEF JudgeInv
    <3> QED
      BY <3>1, ContractStutters DEF Concludes, Conclude, claimVars
  <2>5. CASE ModelUnusable \/ Fault
    BY <2>5, ContractStutters DEF ModelUnusable, Fault, Raise, claimVars
  <2> QED
    BY <1>5, <2>1, <2>2, <2>3, <2>4, <2>5
<1>6. CASE UNCHANGED vars
  BY <1>6, ContractStutters DEF vars, claimVars
<1>7. CASE Next
  BY <1>1, <1>2, <1>3, <1>4, <1>5, <1>7 DEF Next, Resubmission, Contract!ContractNext
<1> QED
  BY <1>6, <1>7

(* However often its job is retried, whatever raises and whatever day it   *)
(* is, a claim is assessed once between a submission and the reviewer, on  *)
(* the lines and the purpose submitted (services.py:148, 285).             *)
THEOREM AssessmentImplements == Spec => AssessesUnderContract
<1>1. Init => Contract!ContractInit
  <2> SUFFICES ASSUME Init PROVE Contract!ContractInit
    OBVIOUS
  <2>1. Phase = "ABSENT"
    BY PhaseOfState DEF Init, NoClaim
  <2>2. Resting = NoEvidence /\ LastAssessed = NoEvidence
    BY DEF Init, NoClaim, Resting, LastAssessed, NoEvidence
  <2> QED
    BY <2>1, <2>2 DEF Contract!ContractInit
<1> QED
  BY <1>1, ContractStep, JudgeInvHolds, PTL
     DEF Spec, AssessesUnderContract, Contract!ContractSpec

-----------------------------------------------------------------------------
(* Turns.                                                                  *)

(* A step that files opens a revision, a commit closes it.                 *)
LEMMA OpensRound ==
  ASSUME JudgeInv, claim.state \in {"NONE", "INFORMATION_REQUESTED"},
         claim'.state = "SUBMITTED", UNCHANGED attempts
  PROVE  Rounds!Open
<1>1. Len(attempts) \in Nat /\ DOMAIN attempts = 1..Len(attempts)
  BY LenProperties DEF JudgeInv, TypeOK
<1>2. Submissions = Len(attempts) /\ Submissions' = Len(attempts) + 1
  BY DEF Submissions
<1> QED
  BY <1>1, <1>2 DEF Rounds!Open

LEMMA CommitCloses ==
  ASSUME JudgeInv, Commit
  PROVE  Rounds!Close
<1> DEFINE a == [lines |-> lines, purpose |-> claim.purpose, submitted |-> claim.submitted,
                 checks |-> run.checks, fallback |-> run.failed,
                 recommendation |-> Aggregate(run.checks, run.failed)]
<1>1. /\ attempts \in Seq(AttemptType) /\ attempts' = Append(attempts, a)
      /\ claim \in ClaimType /\ run.node = "AGGREGATE"
  BY DEF JudgeInv, TypeOK, Commit
<1> HIDE DEF a
<1>2. claim.state = "SUBMITTED"
  BY <1>1 DEF JudgeInv, Scheduled
<1>3. claim'.state = "AWAITING_REVIEW"
  BY <1>1 DEF Commit, ClaimType
<1>4. Len(attempts) \in Nat /\ DOMAIN attempts = 1..Len(attempts)
  BY <1>1, LenProperties
<1>5. Len(attempts') = Len(attempts) + 1 /\ DOMAIN attempts' = 1..(Len(attempts) + 1)
  BY <1>1, <1>4, AppendProperties, SMT
<1>6. Submissions = Len(attempts) + 1 /\ Submissions' = Len(attempts) + 1
  BY <1>2, <1>3, <1>5 DEF Submissions
<1> QED
  BY <1>4, <1>5, <1>6 DEF Rounds!Close

(* Every step opens a revision, closes it or leaves it alone.              *)
LEMMA RoundStep ==
  ASSUME JudgeInv, [Next]_vars
  PROVE  [Rounds!Open \/ Rounds!Close]_(Rounds!roundVars)
<1>1. ASSUME UNCHANGED <<claim, attempts>>
      PROVE  UNCHANGED Rounds!roundVars
  BY <1>1 DEF Rounds!roundVars, Submissions
<1>2. ASSUME NEW ls \in LineLists, NEW purpose \in Purposes, Submit(ls, purpose)
      PROVE  Rounds!Open
  <2>1. claim.state = "NONE" /\ UNCHANGED attempts
    BY <1>2 DEF Submit
  <2>2. claim'.state = "SUBMITTED"
    BY <1>2, SubmitFiles
  <2> QED
    BY <2>1, <2>2, OpensRound
<1>3. ASSUME Resubmission
      PROVE  Rounds!Open
  <2>1. PICK h, ls, purpose : Answers(h, ls, purpose)
    BY <1>3, ResubmissionAnswers DEF JudgeInv
  <2>2. /\ claim.state = "INFORMATION_REQUESTED" /\ UNCHANGED attempts
        /\ claim' = [h EXCEPT !.state = "SUBMITTED", !.purpose = purpose] /\ h \in ClaimType
    BY <2>1 DEF Answers, Resubmit
  <2>3. claim'.state = "SUBMITTED"
    BY <2>2 DEF ClaimType
  <2> QED
    BY <2>2, <2>3, OpensRound
<1>4. ASSUME RequestInformation
      PROVE  UNCHANGED Rounds!roundVars
  <2>1. claim.state = "AWAITING_REVIEW" /\ claim'.state = "INFORMATION_REQUESTED"
    BY <1>4 DEF RequestInformation, JudgeInv, TypeOK, ClaimType
  <2>2. UNCHANGED attempts
    BY <1>4 DEF RequestInformation
  <2> QED
    BY <2>1, <2>2 DEF Rounds!roundVars, Submissions
<1>5. CASE DayPasses
  BY <1>1, <1>5 DEF DayPasses, claimVars
<1>6. CASE Begin \/ RunRules \/ ModelUnusable \/ Fault
  BY <1>1, <1>6 DEF Begin, RunRules, ModelUnusable, Fault, Raise, claimVars
<1>7. CASE Semantic
  <2>1. PICK model, failed : Concludes(model, failed)
    BY <1>7, SemanticConcludes DEF JudgeInv
  <2> QED
    BY <1>1, <2>1 DEF Concludes, Conclude, claimVars
<1>8. CASE UNCHANGED vars
  BY <1>1, <1>8 DEF vars, claimVars
<1> QED
  BY <1>2, <1>3, <1>4, <1>5, <1>6, <1>7, <1>8, CommitCloses DEF Next, Resubmission

(* The worker assesses the n-th submission in the n-th attempt, whatever   *)
(* is retried: what the module assumes of its jobs is what the delivery of *)
(* jobs and the handlers promise (services.py:177, 285).                   *)
THEOREM AssessmentTakesTurns == Spec => TakesTurns
<1>1. Init => Rounds!RoundsInit
  BY LenProperties DEF Init, NoClaim, Submissions, Rounds!RoundsInit
<1> QED
  BY <1>1, RoundStep, JudgeInvHolds, PTL DEF Spec, TakesTurns, Rounds!RoundsSpec
=============================================================================
