# ClearSpend in TLA+

Specifications of the ClearSpend backend (`src/services/backend/app`) and of the page
its users see it through (`src/apps/web/app/page.tsx`), the TLC runs that check them on
small instances, and TLAPS proofs about each of them.

## The system

ClearSpend takes expense claims from employees, assesses each against the
organization's published policy, lets a human reviewer decide, and writes an
accounting file for what was approved. It is a FastAPI process, a worker process
and a PostgreSQL database; documents are kept in an object store and scanned by
ClamAV.

| Part | Code | State | Operations |
|---|---|---|---|
| Claim lifecycle | `main.py`, `services.py`, `domain.py` | `expenses`, `expense_receipts`, `assessment_attempts`, `approval_decisions`, `accounting_exports` | submit (one receipt, a report), read, assess, decide, resubmit (append, replace, one receipt, purpose only), export |
| Assessment delivery | `jobs.py`, `worker.py`, the end of each submitting handler | `outbox_events`, Procrastinate's job table | enqueue from the API, relay a batch, fetch, run, retry |
| Organization lock and audit trail | `audit.py` | `audit_events`, the `organizations` row as a lock | append an event, verify the chain |
| Receipt intake | `upload_receipt`, `receipt_security.py`, `receipt_storage.py` | `receipts`, the quarantine and clean prefixes of the object store | store, scan, promote, read |
| Receipt extraction | `receipts.py` | none | OCR and field extraction |
| Policies | `create_policy`, `publish_policy`, `active_policy` | `policy_versions`, `policy_sections`, `policy_rules` | create a draft, publish, pin to a submission |
| Assessment | `rules.py`, `graph.py`, `ai.py`, `domain.py`, `process_assessment` | what a job has found so far | match receipts, evaluate rules, ask a model, aggregate, commit |
| Authentication | `security.py` | `users` | header to user and role |
| Metrics | `product_metrics` | none | sums |
| Web client | `apps/web/app/page.tsx`, `lib/api.ts` | receipts on the form and staged for answers, the list shown, one busy flag | upload, remove, submit, answer, decide, refresh, switch roles |

The parts meet in three ways. Handlers share rows and take `FOR UPDATE` locks on
them: the claim's row for everything that changes a claim, the organization's
row for submission and for appending to the audit trail. The API hands work to
the worker through the outbox and the job table. Clients act on what a tab shows,
which may be old, and send back the `row_version` they saw.

What is hard here: requests from stale tabs; several reviewers on one claim;
resubmission, which rewrites the set of current lines in four different ways;
copies of the same fact (the claim's own amount against its lines, the decision
against the assessment, the accounting file against both); jobs that are
duplicated, retried, or lost with their worker; locks taken in different orders; rules
that see one total and one date of many lines, and a model that may answer anything;
answers that reach a page after it has moved on, or never.

What makes each part correct:

- **Claim**: the current lines are one report, the claim's own amount and hash are
  theirs, the assessment is of them, the decision is on that assessment by somebody
  else than the owner, and the accounting file holds exactly what was approved.
- **Delivery**: every submission is assessed, however often events are relayed.
- **Audit trail**: one chain without gaps; no transaction is lost to another's
  appending.
- **Intake**: nothing unscanned is ever read; nothing stored is ever lost.
- **Policies and submission**: a claim is pinned to the policy active at its commit; a
  repeated submission is one claim; versions are immutable and one is active.
- **Assessment**: what is recommended follows from the evidence and the pinned policy;
  the model can only make it more careful; what is settled without the model does not
  depend on it.
- **Web client**: no receipt the page has taken is lost, and none is filed twice unless
  an answer was.

## Modules

| Module | Models | Extends / instantiates |
|---|---|---|
| `ClaimContract` | what one claim promises: file, recommend, ask, refuse, approve, book | |
| `ClaimRounds` | the turns of submission and assessment, where the claim, its jobs and the worker meet | |
| `ExpenseClaim` | one claim and the tabs that show it | instantiates `ClaimContract` and `ClaimRounds` under refinement mappings |
| `MCExpenseClaim` | values for its constants | extends `ExpenseClaim` |
| `ExpenseClaimProofs`, `ExpenseClaimReviewProofs` | theorems about it | extend it |
| `AssessmentDelivery`, `AssessmentDeliveryProofs` | outbox, relays, jobs, workers | instantiates `ClaimRounds` for each claim |
| `Assessment`, `AssessmentProofs` | what one job finds and recommends | instantiates `ClaimContract` and `ClaimRounds` |
| `MCAssessment` | readings, lines and policies for it | extends `Assessment` |
| `AuditTrail`, `AuditTrailProofs` | the hash chain and the lock order of its writers | |
| `ReceiptIntake`, `ReceiptIntakeProofs` | quarantine, scan, promotion | |
| `PolicyPublication`, `PolicyPublicationProofs` | drafts, publication, submissions up to their commit | |
| `ReportClient`, `ReportClientProofs` | the page, its requests, and what it can tell of the server | |
| `MCReportClient` | values for its constants, and their symmetry | extends `ReportClient` |

Definitions whose comment begins with "mutated form" are not part of the model: each
is what a definition after it would be with a plausible bug, and the property it is
meant for fails when the two are exchanged. `PROJECT.json` pairs them, and gives the
lines of the source each definition stands for.

### ExpenseClaim

`claim`, `links`, `attempts`, `decisions` and `export` are the rows of the five tables
for one claim; `views[t]` is what browser tab `t` shows. A handler that changes the
claim locks its row first, so each is one action: `SubmitExpense`, `SubmitReport`
(`main.py:548-735`), `Assess` (`services.py:164-306`), `Decide` (`services.py:309-386`),
`ResubmitAppend`, `ResubmitReplace`, `ResubmitReceipt`, `ResubmitPurpose` (the four ways
through `main.py:801-949`), `ExportSucceeds` and `ExportFails` (`services.py:389-500`).
Reading is not atomic: the row and its `selectin` children are separate statements
under READ COMMITTED, hence `ReadRow`, `ReadAttempts`, `ReadLinks`. A request uses what
its tab shows, however long ago it was read.

Which recommendation the rules give is left open (`Assess` takes any; `Assessment` has the
rules), dates,
merchants, purposes and currencies are left out, and an extracted amount is a
constant of the receipt. Amounts, positions, revisions, row versions, keys and the
reason and field flags of a decision are kept.

`KeepsContract` says that all this implements `ClaimContract`, with evidence as the set
of current lines, `assessed` as the lines of the latest attempt, `approved` as those the
approving decision was made on, `booked` as the lines in the CSV. `ActsOnWhatIsShown`
follows the chain back to a person: what a decision is stored with, and what an
accounting file holds, is what was on the screen it was sent from.

### AssessmentDelivery

`revision` and `assessed` abstract the claim to "has a revision nobody assessed";
`outbox` is the table in the order of creation, `relay[w]` the open transaction of
worker `w`'s relay loop (`jobs.py:32-60`): the events it has locked and those it has yet
to enqueue; `waiting[c]` and `running[c]` the job in
`todo` and in `doing`, of which Procrastinate's queueing lock and lock allow one each
per claim. `calls` are API handlers between their commit and `enqueue_assessment`. A
deferral commits on a connection of its own while the relay's transaction may still
roll back, so relaying is `RelaySelect`, `RelayDefer` per event, `RelayCommit` or
`RelayFails`. What Procrastinate does when a failed job must go back to `todo` while
another of its claim waits there is not visible in this repository, and is a choice
(`CollisionOutcomes`). `spent[c]` remembers the revision on which a job of the claim used
up its retries: with a job left in `doing` it is the only way to be `Abandoned`.

### Assessment

`run` is where `process_assessment` (`services.py:166-306`) is and what it has found:
`Begin` compares each line with its receipt (`evaluate_receipt_match`) and adds the checks
of flagged receipts, `RunRules` evaluates the policy on the claim's header
(`evaluate_rules`), the actions of `Semantic` are the provider's outcomes and the guard
in front of it (`graph.py:43-107`, `ai.py:62-101`), `Commit` aggregates and stores the
attempt. A check is its source, status and citations. The claim's row is locked all the
way, so only the job's own steps come in between; whatever raises (`Raise`) rolls back
and leaves the job to be run again, until `Retry` gives it up. The evidence may raise
(`TooMuchEvidence`), and so may the policy (`Raises`), the model's answer (`ModelUnusable`)
and the connection or the process (`Fault`); only the last is bounded, by `faults`. Around it are the handlers
that change what is assessed: submission, information requests and the four answers,
with the header they compute, and days going by, since a window is counted from
`submitted_at`. What extraction reads from a receipt (`Reading`), which names contain one
another (`Substring`, `Nameless`) and which texts look like instructions (`Suspicious`)
are constants; the model's answer is any. `AssessesUnderContract` says that all this is the
contract's File, Recommend and Ask, with lines and purpose as the evidence.

### ReportClient

`drafts` and `staged` are the receipts on the form and those staged for each claim's
information request (`page.tsx:27-39`), `shown` the list on the page, `late` lists read
but not shown yet, `busy` the flag that disables the buttons. `requests` keeps every
request with two facts: what became of it at the server and what the page was told.
They come apart, because `api` (`api.ts:61-71`) reports a lost answer and a refusal
alike, and a request the page has given up on may still arrive. A press is
`PressSubmit`, `PressResubmit` or `PressDecide`, its answer one of the `Succeeds` actions
or `RequestFails`, and a success is followed by reading the list again (`RefreshEnds`).
Uploads add to whatever is staged when they settle (`page.tsx:117-143`). Removing a
receipt, refreshing and switching roles are possible at any time. The server's side
(`FileReport`, `Resubmit`, `Decide`, `Refuse`, `Assess`, `DecideElsewhere`) is what
a tab can tell of it; `ExpenseClaim` has the rest.

### AuditTrail

A transaction is a program over the steps CLAIM (lock the claim's row), LOCK (lock the
organization `FOR UPDATE`), INSERT (rows with a foreign key to the organization, which
take `FOR KEY SHARE` on it), AUDIT and READ (the two statements of `append_audit`) and
COMMIT. There are twelve kinds of transaction, from `SubmitReport` to `ExportAgain`, each
with the order of these steps in its handler; the locks `publish_policy` takes on policy
versions are in `PolicyPublication`.
`orgLock` and `claimLock` are PostgreSQL's row locks, a deadlock is a cycle of waiting
transactions and makes one of them its `Victim`. An event is its sequence, its author
and whom it names as predecessor, which is what `verify_chain` looks at.

### ReceiptIntake

`row` is the committed `receipts` row, `quarantine` and `clean` the two buckets,
`step` where `upload_receipt` is (`main.py:384-501`). A call to the store fails without
effect or after it; the process dies between any two steps (`Die`), which is also what
an exception outside `(OSError, S3Error, RuntimeError)` amounts to. The verdict of the
scanner and the structure checks is a choice. Content kept in the row itself, which
`receipt_content` would serve too (`main.py:526`), is never stored by an upload.

### PolicyPublication

`phase[s]` is where request `s` is in `create_policy`, `publish_policy` or a submission.
Reads, row locks, the flush of the superseded rows and the commit are separate actions,
because that is where requests interleave; locking the organization, appending and
committing at the end of a draft or a publication is one, since nothing is read in
between (`AuditTrail` has the inside of it). `Fail` rolls a request back anywhere. It and
`AnswerAgain` are the close of the session (`get_session`, `db.py:296-298`), where the
transaction ends and its locks go: a handler that has answered without a commit, or
raised, stands where it was until then.

## Runs

| Run | Asks | Result |
|---|---|---|
| `ExpenseClaim_lines` | Does one claim stay consistent, whatever stale tab a request comes from? | 10 properties hold; 208,037 states |
| `ExpenseClaim_answer` | Does an answer match the information request it answers? | no |
| `AssessmentDelivery_safety` | With jobs and relays failing more often than a job is retried, and a killed worker, who can be forgotten, and is everybody else assessed? | only a claim whose own job is left in `doing` or out of retries, and yes; the outbox drains; 236,818 states |
| `AssessmentDelivery_crash` | Is a claim always assessed in the end, when a worker is killed? | no |
| `Assessment_recommendation` | What can be recommended, on which evidence, how often, and what does not depend on the model? | 8 properties hold; 1.43 million states |
| `Assessment_blocked` | Does a claim always come to a reviewer, whatever the model answers? | no |
| `AuditTrail_chain` | Does the chain verify, and does the lock order protect those that keep it? | yes; 1.4 million states |
| `AuditTrail_decisions` | Do two decisions on different claims get through? | no: deadlock |
| `ReceiptIntake_upload` | Is anything unscanned ever readable, or anything stored lost? | no; 676 states |
| `PolicyPublication_pinning` | Pinning, retries, version order, a policy at all times, none in force twice | hold; 305,284 states |
| `ReportClient_staging` | Is a receipt ever lost on the page, or filed twice with no answer lost? | no; 1.6 million states |
| `ReportClient_retry` | Is a report one claim when Submit is pressed again after a lost answer? | no |

**Bounds.** `ExpenseClaim_lines` has two lines, two clean receipts (one readable, one
not) and an infected one, two revisions, two decision keys and two accounting codes:
two lines are what it takes for positions, totals and carried lines to come apart, two
revisions for a supersedes chain and for an attempt to be out of date. `ExpenseClaim_answer`
has one line and goes to a third revision, which a stale answer needs. `MaxRowVersion`
bounds how often a failing export is retried. `AssessmentDelivery_safety` has two workers with
a relay each, a batch of two and three revisions of a claim, so that a job of one revision
meets the event of the next, one claim's job is retried while another of it waits, and a
relay fails with half of its batch enqueued; it has one retry and two faults, so that a
job can use its retries up. Three transactions are what it takes for a
cycle of two with a bystander; the six kinds cover every program shape.
`ReceiptIntake` has no interaction between receipts, so two are plenty. Two requests at
a time and four versions let two publications overlap and leave two versions PUBLISHED
behind each other, and let a later one, of a lower number or a higher, come after both. `Assessment_recommendation` has four receipts (two in order, two flagged, one
of them without a date), five lines of which one disagrees with its receipt, reports of
two lines, two revisions, two days, one retry, two faults and one reference per check, so
that a second flagged receipt is one too many and a second fault one more than the
retries; its five policies have a limit between one line and two, a window of no days, a
banned category, a limit in another currency and a window that is no number.
`Assessment_blocked` takes two references per check and no fault, so that what it finds
is the model's doing alone. `ReportClient`
has three receipts, two to a report, two claims, two requests and one late list: a request
to lose and one to repeat it, a claim to answer for while another is being filled, and a
list that is older than the page. That nothing hangs on these numbers is what the
theorems add: they hold for any.

**Deadlock.** Every run states `CHECK_DEADLOCK FALSE`: a claim that is exported, a
transaction that has ended and a receipt that is decided are final, and so is any state
at a bound.

**Fairness.** Only `AssessmentDelivery` assumes any. The relay loop never ends and runs
a batch every two seconds whatever the last one did (`worker.py:11-19`): weak fairness of
each worker's relay. The worker's loop fetches jobs for ever; which one it takes depends
on the locks of others, so a waiting job is enabled again and again rather than
throughout: strong fairness of a claim's fetch. A fetched job runs and its outcome
is recorded: weak fairness. Nothing is assumed of the API's own attempt to enqueue, of
people, or of failures. The page assumes none either: `fetch` is called without a timeout
(`api.ts:61`), so that an answer need not come and the buttons need not be enabled again.

## Findings

Five places where the code does something else than the documents say; each has a run
whose counterexample shows it.

1. `main.py:819`: `resubmit` takes no row version and no key. A tab that shows the first
   information request is accepted as the answer to the second
   (`ExpenseClaim_answer`), against "409 state/version" in the endpoint table.
2. `worker.py:26`: no periodic task retries jobs of a killed worker
   (`AssessmentDelivery_crash`); the job's lock also holds back the claim's later jobs.
3. `services.py:376`: `decide` inserts before it locks the organization, as do
   assessment, export, resubmission and policy drafts. Two of them each hold
   `FOR KEY SHARE` and wait for `FOR UPDATE` (`AuditTrail_decisions`). Uploads and
   submissions lock first, and `LockFirstIsSafe` shows that this is enough to be safe
   whatever the others do: a deadlock takes two transactions that inserted first. Only
   such a transaction is ever a victim (`OnlyInsertersAreVictims`).
4. `ai.py:93`: an answer of the model whose reason code is empty passes
   `CandidateAssessment` and is refused by `PolicyCheck`, outside the provider's `try`. The
   job raises and is retried; if the model repeats itself the claim stays SUBMITTED and no
   reviewer may decide on it (`Assessment_blocked`). The as-built architecture, which
   takes precedence over the plans, says "AI timeout/provider/schema failure becomes
   `NEEDS_REVIEW` and never blocks human review"
   (`docs/architecture/as-built-architecture.md:137`). `ReviewNeverBlocked` fails in a
   second way: more than ten flagged receipts in a report are more references than one
   check may hold (`services.py:270`, `domain.py:55`), so every attempt raises, where lines
   13 and 111 of the same document promise a review. `SettledWithoutModel` shows what does
   hold: a claim its rules reject, or whose receipts or words are kept from the model, is
   not abandoned over anything the model does.
5. `page.tsx:153`: every press of Submit draws a new idempotency key, so that after a lost
   answer the same receipts become a second claim (`ReportClient_retry`), against "Retry
   produces one claim/job/event". `TwiceOnlyAfterLoss` shows that it takes a lost answer.

Smaller ones are among the hazards of `PROJECT.json`: two drafts published at once both
find the same predecessor and both end PUBLISHED (`main.py:319`), where the plan wants
exactly one version active (`TECHNICAL_ARCHITECTURE_IMPLEMENTATION_PLAN.md:343`) and the
as-built document says nothing; `SomePolicyActive` shows that the two never supersede each
other altogether, `InForceOnce` that the mistake does not spread, since a version that
another has taken over from is never in force again; a replacement receipt writes the
extracted amount over the confirmed one (`main.py:915`); a promotion that fails after its
write leaves a receipt SCAN_FAILED with its object in the clean bucket (`main.py:474`); a
rule that is no number makes every attempt raise (`rules.py:79`); an
administrator's claim cannot be resubmitted (`main.py:806`); drafts created at the same
moment answer 500 (`main.py:256`); a claim answered with a receipt of a later day has a
negative age and is recommended for rejection as late (`db.py:140`).

## Proofs

All theorems hold for every value of the constants that satisfies the module's named
assumption, and every leaf is checked by tlapm. Those that state a property of a run:

| Theorem | States | Rests on |
|---|---|---|
| `TypeCorrect`, `FreshViews` | types; `FreshViewIsTrue` | `RowsInv`, `VersionInv` |
| `AssessedAsReviewed`, `SoundDecisions` | `AssessedOnCurrentEvidence`, `DecisionsSound` | `ReviewInv` |
| `ImplementsContract` | `KeepsContract` | `ReviewInv` |
| `ActsAsShown` | `ActsOnWhatIsShown` | `ReviewInv`, `FreshViews` |
| `EvidenceIsWellFormed`, `HeadersMatch`, `EvidenceGrows` | `EvidenceWellFormed`, `HeaderMatchesLines`, `EvidenceOnlyGrows` | `EvidenceInv` |
| `AppendKeeps` | `AppendKeepsLines` | `ReviewInv` (`LinesPaid`) |
| `DeliveryTypes`, `ForgottenOnlyForAReason` | types; `ForgottenForAReason` | `DeliveryInv`, `Watched`, `Budget`, `Reasons` |
| `AssessmentTyped`, `ApprovalsEarned`, `RejectsBreakers`, `OnlyDowngrades`, `AllCitationsResolve`, `AlwaysReproducible`, `SettledNeedsNoModel` | the seven invariants of `Assessment_recommendation` | `JudgeInv` |
| `AssessmentImplements` | `AssessesUnderContract` | `JudgeInv` |
| `TrailTypes`, `ChainAlwaysVerifies`, `SequencesNeverCollide` | types; `ChainVerifies`, `NoCollision` | `TrailInv` |
| `LockOrderIsSafe` | `LockFirstIsSafe` | `TrailInv`, `OrderInv` |
| `IntakeTypes`, `OnlyCleared`, `CleanStored`, `NeverLost` | the four of `ReceiptIntake_upload` | `Custody` |
| `PolicyTypes`, `PinsTheActive`, `OneAnswer`, `AlwaysSomePolicy`, `AlwaysAdvance`, `InForceOnceOnly` | the six of `PolicyPublication_pinning` | `PolicyInv`, `Gone` |
| `ClientTypes`, `NoReceiptIsLost`, `FiledReceiptsAreCleared`, `DuplicatesTakeALoss` | the four of `ReportClient_staging` | `ClientInv` |

And those about what no run states:

| Theorem | States | Rests on |
|---|---|---|
| `ClaimTakesTurns`, `DeliveryTakesTurns`, `AssessmentTakesTurns` | `ExpenseClaim`, `AssessmentDelivery` (for each claim) and `Assessment` implement `ClaimRounds` | `ReviewInv`, `TypeOK`, `JudgeInv` |
| `OnlyInsertersAreVictims` | only transactions that insert before they lock are deadlock victims | `TrailInv`, `OrderInv` |
| `RelaysKeepApart` | two relays never hold the same event | `DeliveryInv` |

**The claim.** `RowsInv` is the type invariant with what keeps it inductive: current
lines in positions 1..n, because resubmission rebuilds a list from them, and attempts
of no later revision than the claim. `VersionInv` adds that nothing of a claim exists
before its row and `FreshViewIsTrue` itself; the argument is that every action that
changes what a view shows raises `row_version`, and that a view in the middle of its
three reads either saw the present version, and then the present row, or is already
known to be stale. `ReviewInv` then says that a revision has one attempt, that
decisions belong to revisions already behind the claim or closed it, and that an
approval's lines are the current ones from then on. With `FreshViewIsTrue` this
makes `row_version != expected_version` a sufficient check in `decide`, which looks at
the latest attempt and not at what the tab shows. For `ImplementsContract` each action maps
to one step of the contract: submitting and resubmitting to File, assessing to
Recommend, a decision to Ask, Refuse or Approve, a successful export to Book, reading
and a failing export to a stutter.

`ActsAsShown` joins the two halves: a decision and an export pass their version check only
from a tab whose view is of the stored version, `FreshViewIsTrue` says such a view shows
the stored lines and the recommendation of the latest attempt (`ShownIsStored`), and
`ReviewInv` that these are what the decision is stored with and the file is written from.

**The evidence.** `EvidenceInv` adds to `RowsInv` that no link is of a later revision than
the claim and that the links are `Chained`: identities and receipts unique within a
revision, nothing superseded twice, everything superseded older and no longer current.
The last is what makes it inductive: a resubmission supersedes only links that were
current, and so none that was superseded before (`ChainsGrow`). The header is compared
with the items it was computed from as one function of a list (`ReportReadsBack`), so the
total need not be unfolded. `AppendKeeps` needs that no stored line is worth nothing:
otherwise `or` would take another amount for it.

**Delivery.** A submitted claim is looked after (`Cared`) by a job, or its event is `Due`:
unpublished, and in no relay's batch unless that relay has yet to enqueue it; or it is
`Abandoned`. A relay commits only after it enqueued every event of its batch and found or
made a waiting job for each (`DeferWaits`). A job that ends without an assessment goes
back to waiting, leaves another one waiting, or abandons the claim; and since no job has
been retried more often than there were faults (`Budget`), abandoning takes more of them
than retries, or a job left in `doing` (`Reasons`). A resubmission starts afresh: `spent` is
of an older revision by then.

**Turns.** `ExpenseClaim` leaves open when a job comes, `AssessmentDelivery` what a claim
is, `Assessment` who else runs jobs. What each assumes of the others is one alternation,
`ClaimRounds`: a revision is opened when the last has been assessed, and closed by one
assessment. All three are proved to implement it, the first with the set of revisions that
have attempts, the second with the last revision assessed, the third with the number of
attempts. So each assumes of the others' steps what they promise, and what
`ForgottenForAReason` says of delivery, `AssessedOnCurrentEvidence` of the claim and
`AssessesUnderContract` of the worker are said of the same revisions.

**Assessment.** `JudgeInv` says what a job holds at each node (`Findings`), that a job is
of a submitted claim that still has an attempt to come (`Scheduled`), that a job which
needs no model, and whose evidence and rules can be used, raised by faults alone
(`Exhausted`; the model's turn means that no rule is broken and nothing is flagged,
`ModelMeansUnsettled`), that the header is the one
of its lines (`Filed`) and that each attempt is what its checks say (`Judged`). The rules
see a total and the oldest date; that every single line keeps the window, and the lines
together the limit, is then a fact about these two. The total is a recursive function,
and that it is a natural number, `TotalIsNatural`, is proved by a least counterexample, since
the induction theorems of the library take an operator as a parameter. For the contract,
a submission and each of the four answers is a File whose evidence is in order (`Answers`),
a commit a Recommend because the attempt it appends is of the lines and the purpose the
claim still has (`CommitAssesses`), and whatever raises is a stutter.

**The page.** `ClientInv` says that at most one upload or request is open and that the
buttons are then disabled (`Alone`), that a receipt has one place, on the page and in the
requests (`Places`), that claims hold exactly what accepted requests carried (`Filings`),
and that while a request has no answer its place on the page holds nothing it does not
carry (`Pending`): what a success clears has therefore been filed. A request the page gave
up on may be accepted later, so a submission under way repeats what is filed only
after one that failed (`Retried`).

**The trail.** Between AUDIT and COMMIT a transaction holds `FOR UPDATE` alone
(`Exclusive`, `Appending`), so the event it drafted still follows the trail (`Drafted`).
Because the trail is a chain, the event with the highest sequence is its last. For the lock order,
`OrderInv` says a transaction that locks first never holds only a share, and claims' rows
are taken before the organization's. From it follows who can be in a cycle of waits
(`DeadlockedShares`): one that holds the organization's row alone waits for nobody, one that
holds nothing of it is waited for by nobody it waits for, and so everybody in the cycle
shares the row and asks for it alone, which takes an insert before the lock.

**Intake.** `Custody` says for each step of an upload where the object must be; a
receipt whose row exists has an object because promotion writes before it removes.

**Policies.** A publication holds the row of a DRAFT, which nobody else publishes, until
it commits; a submission holds the organization's row from before its first read, and
every commit that changes a status or adds a claim needs that row. That no version comes
back into force is not an invariant of one state. A version that has been replaced is
`Gone`: superseded, or `Overtaken`, that is, a higher one is PUBLISHED beside it which no
publication under way has found without finding it too. Being gone survives every step,
although its witness may be superseded: whoever supersedes the higher one supersedes both
(`OthersKeepForce`, `PublicationMovesForce`).

**Only model-checked.** `OutboxDrains` and `AssessedUnlessAbandoned`: liveness under fairness,
and `ENABLED`, are out of the prover's reach. Every other property of a passing run is
stated by a theorem.

## Not modelled

- **Receipt extraction** (`receipts.py`): regular expressions and OCR over document bytes.
  What it may find of a receipt is the constant `Reading` of `Assessment`; the properties do
  not tell apart how it was found.
- **Authentication** (`security.py`): stateless; a header names a user whose row has the
  role. Each handler's role and ownership guards are in the modules of the handlers.
- **Metrics**, **seed data**, **settings**, **scripts**, **deployment** and the **migrations**:
  no behaviour of their own at run time. The tables, with their unique and check
  constraints, are the variables and guards of the modules.
- Of the **web client**, previewing a receipt, downloading the accounting file, the panels
  for metrics and audit events, and what is typed into a draft: nothing of it is kept or
  sent with a request that the model tells apart.
- The **event loop** of the API. `submit_expense`, `submit_expense_report` and `resubmit` are
  `async def` and wait for `FOR UPDATE` on the loop itself (`main.py:556`), while the loop has
  to schedule the close of sessions that hold such locks; a request that hangs there is
  out of what `PolicyPublication` and `AuditTrail` can show.
- **Encryption** of stored objects, what the scanner and the structure checks look for,
  wording, currencies other than INR, and the page numbers and quotations of citations.

## Plan

Built in this order, the most important behaviour first: the claim and its contract,
delivery, the audit trail, intake, policies, the assessment, the page; then the proofs
about delivery, the evidence and the page, and about what joins modules: the contract
of the worker, the turns, and a decision with what its reviewer saw. What is left:

1. A module that runs `ExpenseClaim` and `AssessmentDelivery` together, with an outbox event
   in every submitting step and an assessment in `Execute`, so that the properties of the one
   are stated of the state of the other. `ClaimRounds` is what it would rest on.
2. Several tabs in `ReportClient` over the server of `ExpenseClaim`, to relate the
   `row_version` a page sends to `FreshViewIsTrue` for the page's own lists.
