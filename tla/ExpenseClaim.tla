---------------------------- MODULE ExpenseClaim ----------------------------
(***************************************************************************)
(* One expense claim, from submission to the accounting file, as the API   *)
(* and the assessment worker store it: the expenses row, its               *)
(* expense_receipts links, its assessment attempts, its decisions and its  *)
(* accounting export, together with what the browser tabs of the people    *)
(* involved are showing.                                                   *)
(*                                                                         *)
(* Every handler runs in one transaction under SELECT ... FOR UPDATE on    *)
(* the expense row (or, before the row exists, on the organization row),   *)
(* so a handler is one step.  Readers take no lock: a row and its          *)
(* selectin-loaded children come from separate statements and so from      *)
(* separate snapshots (READ COMMITTED), and a tab goes on showing what it  *)
(* read while the claim moves on.  A request is made from whatever a tab   *)
(* shows, however old, and may be repeated.                                *)
(***************************************************************************)
EXTENDS Integers, Sequences, FiniteSets

CONSTANTS
  Receipts,        \* receipts uploaded by the submitter
  CleanReceipts,   \* those whose scan_status is CLEAN
  Extracted,       \* Extracted[r]: the amount read from receipt r, or NoAmount
  Amounts,         \* amounts the form accepts, in minor units
  ItemLimit,       \* ExpenseItemIn.amount_minor's upper bound
  MaxLines,        \* receipts in one report (20 in the code)
  Users, Submitter, RoleOf,
  Tabs, UserOf,    \* browser tabs, and who is signed in to each
  Keys,            \* decision idempotency keys
  Codes,           \* accounting codes
  MaxRevision,     \* bound: revisions of the claim
  MaxRowVersion    \* bound: row versions at which an export may still fail

NoAmount == 0      \* None and 0 are both falsy in `a or b`
NoLink == <<0, 0>>
NoReceipt == "none"
NoCsv == "no csv"

Roles == {"EMPLOYEE", "REVIEWER", "ADMIN", "AUDITOR"}
\* DRAFT and APPROVED are declared too, and never stored
States == {"SUBMITTED", "ASSESSING", "AWAITING_REVIEW", "INFORMATION_REQUESTED",
           "READY_TO_EXPORT", "REJECTED", "EXPORTED", "EXPORT_FAILED"}
Recommendations == {"APPROVE", "REVIEW", "REJECT"}
Actions == {"APPROVE", "REJECT", "REQUEST_INFORMATION"}
Kinds == {"PRIMARY_RECEIPT", "CARRIED_FORWARD", "REPLACEMENT_RECEIPT", "ADDITIONAL_RECEIPT"}

ASSUME ConstantsAssumption ==
  /\ CleanReceipts \subseteq Receipts
  /\ NoReceipt \notin Receipts
  /\ Amounts \subseteq 1..ItemLimit
  /\ ItemLimit \in Nat /\ MaxLines \in Nat \ {0}
  /\ Extracted \in [Receipts -> Nat]
  /\ Submitter \in Users
  /\ RoleOf \in [Users -> Roles]
  /\ UserOf \in [Tabs -> Users]
  /\ MaxRevision \in Nat /\ MaxRowVersion \in Nat

VARIABLES
  claim,           \* the expenses row
  links,           \* its expense_receipts rows
  attempts,        \* its assessment_attempts rows
  decisions,       \* its approval_decisions rows
  export,          \* its accounting_exports row
  views            \* what each tab shows of the claim

stored == <<claim, links, attempts, decisions, export>>
vars == <<stored, views>>

Items == [receipt : Receipts, amount : Amounts]
Line == [receipt : Receipts, amount : Nat]

(* ExpenseReportIn and ResubmissionIn: one to MaxLines items, each receipt *)
(* at most once.                                                           *)
Distinct(items) ==
  \A p, q \in DOMAIN items : items[p].receipt = items[q].receipt => p = q
ItemLists == {items \in UNION {[1..n -> Items] : n \in 1..MaxLines} : Distinct(items)}

-----------------------------------------------------------------------------
(* The links.  A link's identity is its <<revision, position>>, which a    *)
(* unique constraint of expense_receipts keeps one per claim.              *)

LinkId(l) == <<l.revision, l.position>>
Current(ls) == {l \in ls : l.current}
Positions(ls) == {l.position : l \in ls}

(* Current links in the order of their positions, as                       *)
(* sorted(..., key=position) gives them; a sequence because the positions  *)
(* of current links are 1..n (EvidenceWellFormed).                         *)
ByPosition(ls) ==
  [p \in Positions(ls) |-> CHOOSE l \in ls : l.position = p]

(* What a link says a receipt is worth.                                    *)
LineOf(l) == [receipt |-> l.receipt, amount |-> l.amount]
LinesOf(ls) == {[position |-> l.position, line |-> LineOf(l)] : l \in Current(ls)}

\* `a or b` on amounts
Or(a, b) == IF a # NoAmount THEN a ELSE b

Total(items) ==
  LET sum[n \in 0..Len(items)] ==
        IF n = 0 THEN 0 ELSE sum[n - 1] + items[n].amount
  IN  sum[Len(items)]

(* report_header: the claim's own amount, receipt and receipt hash are     *)
(* computed from the items.  The hash stands for the receipts, in order.   *)
Header(items) ==
  [amount |-> Total(items),
   receipt |-> items[1].receipt,
   bundle |-> [p \in DOMAIN items |-> items[p].receipt]]

\* mutated forms: the old links stay current; the old links are deleted
SupersededStillCurrent(ls) == ls
SupersededDeleted(ls) == {}
Superseded(ls) == {[l EXCEPT !.current = FALSE] : l \in ls}

\* mutated form: a kind no reader of the table knows
AttachmentTypeUnknown(revision, item, previous) ==
  IF previous = {} THEN "PRIMARY_RECEIPT" ELSE "SUPPLEMENT"
AttachmentType(revision, item, previous) ==
  IF revision = 1 THEN "PRIMARY_RECEIPT"
  ELSE IF previous = {} THEN "ADDITIONAL_RECEIPT"
  ELSE IF \E l \in previous : l.receipt = item.receipt THEN "CARRIED_FORWARD"
  ELSE "REPLACEMENT_RECEIPT"

\* load_report_receipts: the submitter's own receipts, all of them clean
Loaded(items) == \A p \in DOMAIN items : items[p].receipt \in CleanReceipts

(* add_report_links: one current link per item, in order, each superseding *)
(* the previously current link at its position, if there is one.           *)
NewLink(revision, position, item, previous) ==
  [revision |-> revision, position |-> position,
   receipt |-> item.receipt, amount |-> item.amount,
   kind |-> AttachmentType(revision, item, previous),
   current |-> TRUE,
   supersedes |-> IF previous = {} THEN NoLink ELSE LinkId(CHOOSE l \in previous : TRUE)]

ReportLinks(revision, items, old) ==
  {NewLink(revision, p, items[p], {l \in old : l.position = p}) : p \in DOMAIN items}

-----------------------------------------------------------------------------
(* Rows before they exist, and their types.                                *)

NoHeader == [amount |-> 0, receipt |-> NoReceipt, bundle |-> <<>>]
NoClaim == [state |-> "NONE", revision |-> 0, rowVersion |-> 0,
            header |-> NoHeader, asked |-> FALSE]
EmptyCsv == [code |-> NoCsv, lines |-> {}]
NoExport == [status |-> "NONE", code |-> NoCsv, csv |-> EmptyCsv]
NoView == [stage |-> "NONE", version |-> 0, state |-> "NONE", amount |-> 0,
           recommendation |-> "NONE", lines |-> {}]

HeaderType == [amount : Nat, receipt : Receipts \cup {NoReceipt}, bundle : Seq(Receipts)]
ClaimType == [state : States \cup {"NONE"}, revision : Nat, rowVersion : Nat,
              header : HeaderType, asked : BOOLEAN]
LinkType == [revision : Nat, position : Nat, receipt : Receipts, amount : Nat,
             kind : Kinds, current : BOOLEAN, supersedes : Nat \X Nat]
Shown == [position : Nat, line : Line]
AttemptType == [revision : Nat, recommendation : Recommendations, evidence : SUBSET Shown]
BodyType == [action : Actions, reason : BOOLEAN, fields : BOOLEAN]
DecisionType == [actor : Users, key : Keys, body : BodyType, version : Nat,
                 revision : Nat, observed : Recommendations, evidence : SUBSET Shown]
CsvType == [code : Codes \cup {NoCsv}, lines : SUBSET Shown]
ExportType == [status : {"NONE", "EXPORTED", "EXPORT_FAILED"},
               code : Codes \cup {NoCsv}, csv : CsvType]
ViewType == [stage : {"NONE", "ROW", "ASSESSMENT", "SHOWN"}, version : Nat,
             state : States \cup {"NONE"}, amount : Nat,
             recommendation : Recommendations \cup {"NONE"}, lines : SUBSET Shown]

\* Every table holds rows of its own type.
TypeOK ==
  /\ claim \in ClaimType
  /\ links \in SUBSET LinkType
  /\ attempts \in SUBSET AttemptType
  /\ decisions \in SUBSET DecisionType
  /\ export \in ExportType
  /\ views \in [Tabs -> ViewType]

Init ==
  /\ claim = NoClaim
  /\ links = {}
  /\ attempts = {}
  /\ decisions = {}
  /\ export = NoExport
  /\ views = [t \in Tabs |-> NoView]

-----------------------------------------------------------------------------
(* The state machine of domain.py, and the version stamp every handler     *)
(* puts on the row it changes.                                             *)

AllowedTransitions ==
  [s \in States |->
    CASE s = "SUBMITTED" -> {"ASSESSING"}
      [] s = "ASSESSING" -> {"AWAITING_REVIEW"}
      [] s = "AWAITING_REVIEW" -> {"INFORMATION_REQUESTED", "READY_TO_EXPORT", "REJECTED"}
      [] s = "INFORMATION_REQUESTED" -> {"SUBMITTED"}
      [] s = "READY_TO_EXPORT" -> {"EXPORTED", "EXPORT_FAILED"}
      [] s = "EXPORT_FAILED" -> {"EXPORTED"}
      [] OTHER -> {}]

\* ensure_transition raises, and so rolls the handler back, when this is false
CanMove(from, to) == to \in AllowedTransitions[from]

\* mutated form: the handler forgets row_version += 1
MovedUnversioned(to) == [claim EXCEPT !.state = to]
Moved(to) == [claim EXCEPT !.state = to, !.rowVersion = @ + 1]

\* amount_minor is an integer column with the check ck_expense_positive_amount
Storable(header) == header.amount \in Nat \ {0}

Role(t) == RoleOf[UserOf[t]]
IsOwner(t) == UserOf[t] = Submitter

-----------------------------------------------------------------------------
(* Reading.  GET /expenses and GET /expenses/{id} read the row, then its   *)
(* attempts, then its links, each in a statement of its own.               *)

Readable(t) == claim.state # "NONE" /\ (Role(t) = "EMPLOYEE" => IsOwner(t))

LatestAttempts(as) == {a \in as : \A b \in as : b.revision <= a.revision}
Recommended(as) ==
  IF as = {} THEN "NONE" ELSE (CHOOSE a \in LatestAttempts(as) : TRUE).recommendation

ReadRow(t) ==
  /\ Readable(t)
  /\ views' = [views EXCEPT ![t] =
       [NoView EXCEPT !.stage = "ROW", !.version = claim.rowVersion,
                      !.state = claim.state, !.amount = claim.header.amount]]
  /\ UNCHANGED stored

ReadAttempts(t) ==
  /\ views[t].stage = "ROW"
  /\ views' = [views EXCEPT ![t] =
       [@ EXCEPT !.stage = "ASSESSMENT", !.recommendation = Recommended(attempts)]]
  /\ UNCHANGED stored

ReadLinks(t) ==
  /\ views[t].stage = "ASSESSMENT"
  /\ views' = [views EXCEPT ![t] = [@ EXCEPT !.stage = "SHOWN", !.lines = LinesOf(links)]]
  /\ UNCHANGED stored

-----------------------------------------------------------------------------
(* Submission, by an employee or an admin, of one receipt or of a report.  *)

Submit(t, items) ==
  /\ claim.state = "NONE"
  /\ IsOwner(t) /\ Role(t) \in {"EMPLOYEE", "ADMIN"}
  /\ Loaded(items)
  /\ Storable(Header(items))
  /\ claim' = [NoClaim EXCEPT !.state = "SUBMITTED", !.revision = 1, !.rowVersion = 1,
                              !.header = Header(items)]
  /\ links' = ReportLinks(1, items, {})
  /\ UNCHANGED <<attempts, decisions, export, views>>

SubmitExpense(t, item) == Submit(t, <<item>>)
SubmitReport(t, items) == Submit(t, items)

-----------------------------------------------------------------------------
(* The worker.  A job names only the claim, so it may find the claim at    *)
(* any point of its life; process_assessment returns without a change      *)
(* unless the claim waits for an assessment of its current revision.  What *)
(* the rules recommend is left open here.  SUBMITTED to ASSESSING to       *)
(* AWAITING_REVIEW is one transaction.                                     *)

Assess(recommendation) ==
  /\ claim.state \in {"SUBMITTED", "ASSESSING"}
  /\ \A a \in attempts : a.revision # claim.revision
  /\ attempts' = attempts \cup
       {[revision |-> claim.revision, recommendation |-> recommendation,
         evidence |-> LinesOf(links)]}
  /\ claim' = Moved("AWAITING_REVIEW")
  /\ UNCHANGED <<links, decisions, export, views>>

-----------------------------------------------------------------------------
(* Decisions.  The request carries the version of the row the tab shows.   *)
(* A key this actor has used before never reaches the state: the same body *)
(* is answered with the stored decision, another body with a conflict.     *)

Observed == IF attempts = {} THEN "REVIEW" ELSE Recommended(attempts)

\* mutated form: approving against the recommendation is no override
OverridesOnlyReject(action, observed) == action = "REJECT" /\ observed # "REJECT"

Overrides(action, observed) ==
  \/ action = "APPROVE" /\ observed # "APPROVE"
  \/ action = "REJECT" /\ observed # "REJECT"

Target == [APPROVE |-> "READY_TO_EXPORT", REJECT |-> "REJECTED",
           REQUEST_INFORMATION |-> "INFORMATION_REQUESTED"]

KeyUsed(actor, key) == \E d \in decisions : d.actor = actor /\ d.key = key

\* mutated form: the version the request carries is not compared
MatchesAny(version) == claim.rowVersion >= 0
\* the optimistic concurrency check, shared by decide and export_expense
Matches(version) == claim.rowVersion = version

Decide(t, key, body) ==
  /\ views[t].stage = "SHOWN"
  /\ Role(t) \in {"REVIEWER", "ADMIN"}
  /\ ~IsOwner(t)
  /\ ~KeyUsed(UserOf[t], key)
  /\ Matches(views[t].version) /\ claim.state = "AWAITING_REVIEW"
  /\ Overrides(body.action, Observed) \/ body.action # "APPROVE" => body.reason
  /\ body.action = "REQUEST_INFORMATION" => body.fields
  /\ CanMove(claim.state, Target[body.action])
  /\ decisions' = decisions \cup
       {[actor |-> UserOf[t], key |-> key, body |-> body, version |-> views[t].version,
         revision |-> claim.revision, observed |-> Observed, evidence |-> LinesOf(links)]}
  /\ claim' = [Moved(Target[body.action]) EXCEPT
                 !.asked = body.action = "REQUEST_INFORMATION"]
  /\ UNCHANGED <<links, attempts, export, views>>

-----------------------------------------------------------------------------
(* Answering an information request: append lines, replace them all,       *)
(* replace the receipt, or only explain.  None of these requests carries a *)
(* row version or an idempotency key.                                      *)

MayResubmit(t) ==
  /\ views[t].stage = "SHOWN" /\ views[t].state = "INFORMATION_REQUESTED"
  /\ Role(t) = "EMPLOYEE"
  /\ IsOwner(t)
  /\ claim.state = "INFORMATION_REQUESTED"
  /\ CanMove(claim.state, "SUBMITTED")
  /\ claim.revision < MaxRevision

\* mutated form: the handler forgets revision += 1
ResubmittedSameRevision(header, newLinks) ==
  /\ Storable(header)
  /\ claim' = [Moved("SUBMITTED") EXCEPT !.header = header, !.asked = FALSE]
  /\ links' = newLinks
  /\ UNCHANGED <<attempts, decisions, export, views>>

Resubmitted(header, newLinks) ==
  /\ Storable(header)
  /\ claim' = [Moved("SUBMITTED") EXCEPT !.revision = @ + 1, !.header = header,
                                         !.asked = FALSE]
  /\ links' = newLinks
  /\ UNCHANGED <<attempts, decisions, export, views>>

\* mutated form: the links change and the claim's own columns do not
ReportStaleHeader(items) ==
  Resubmitted(claim.header,
    Superseded(links) \cup ReportLinks(claim.revision + 1, items, Current(links)))

Report(items) ==
  Resubmitted(Header(items),
    Superseded(links) \cup ReportLinks(claim.revision + 1, items, Current(links)))

(* The lines an APPEND carries over are rebuilt through ExpenseItemIn,     *)
(* which refuses (an error 500) an amount above its limit.                 *)
\* mutated form: what was extracted goes before what was claimed
CarriedAmountExtracted(l) == Or(Extracted[l.receipt], Or(l.amount, claim.header.amount))
CarriedAmount(l) == Or(l.amount, Or(Extracted[l.receipt], claim.header.amount))
Carried ==
  LET lines == ByPosition(Current(links))
  IN  [p \in DOMAIN lines |->
        [receipt |-> lines[p].receipt, amount |-> CarriedAmount(lines[p])]]

Appended(items) == Carried \o items

ResubmitAppend(t, items) ==
  /\ MayResubmit(t)
  /\ Loaded(items)
  /\ \A p \in DOMAIN Carried : Carried[p].amount \in 1..ItemLimit
  /\ Len(Appended(items)) <= MaxLines
  /\ Distinct(Appended(items))
  /\ Report(Appended(items))

ResubmitReplace(t, items) ==
  /\ MayResubmit(t)
  /\ Loaded(items)
  /\ Report(items)

(* The claim takes the amount read from the new receipt, if there is one.  *)
(* The new link supersedes whichever current link the query returned first. *)
ResubmitReceipt(t, receipt) ==
  LET item == [receipt |-> receipt, amount |-> Or(Extracted[receipt], claim.header.amount)]
  IN  /\ MayResubmit(t)
      /\ receipt \in CleanReceipts
      /\ \E previous \in Current(links) :
           Resubmitted(Header(<<item>>),
             Superseded(links) \cup
               {[NewLink(claim.revision + 1, 1, item, {previous})
                   EXCEPT !.kind = "REPLACEMENT_RECEIPT"]})

ResubmitPurpose(t) ==
  /\ MayResubmit(t)
  /\ Resubmitted(claim.header, links)

-----------------------------------------------------------------------------
(* The accounting export.  A rendering error is itself committed, as       *)
(* EXPORT_FAILED, and may be retried with other codes.                     *)

\* mutated form: superseded lines are exported too
CsvLinesOfHistory ==
  {[position |-> l.position, line |-> LineOf(l)] : l \in links}
CsvLines ==
  IF Current(links) = {}
  THEN {[position |-> 1, line |-> [receipt |-> claim.header.receipt,
                                   amount |-> claim.header.amount]]}
  ELSE {[position |-> l.position,
         line |-> [receipt |-> l.receipt, amount |-> Or(l.amount, claim.header.amount)]]
          : l \in Current(links)}

MayExport(t) ==
  /\ views[t].stage = "SHOWN"
  /\ Role(t) \in {"REVIEWER", "ADMIN"}
  /\ Matches(views[t].version) /\ claim.state \in {"READY_TO_EXPORT", "EXPORT_FAILED"}

ExportSucceeds(t, code) ==
  /\ MayExport(t)
  /\ CanMove(claim.state, "EXPORTED")
  /\ export' = [status |-> "EXPORTED", code |-> code,
                csv |-> [code |-> code, lines |-> CsvLines]]
  /\ claim' = Moved("EXPORTED")
  /\ UNCHANGED <<links, attempts, decisions, views>>

ExportFails(t, code) ==
  /\ MayExport(t)
  /\ claim.rowVersion < MaxRowVersion
  /\ export' = [status |-> "EXPORT_FAILED", code |-> code, csv |-> EmptyCsv]
  /\ claim' = Moved("EXPORT_FAILED")
  /\ UNCHANGED <<links, attempts, decisions, views>>

-----------------------------------------------------------------------------
Next ==
  \/ \E t \in Tabs : ReadRow(t) \/ ReadAttempts(t) \/ ReadLinks(t)
  \/ \E t \in Tabs, item \in Items : SubmitExpense(t, item)
  \/ \E t \in Tabs, items \in ItemLists : SubmitReport(t, items)
  \/ \E recommendation \in Recommendations : Assess(recommendation)
  \/ \E t \in Tabs, key \in Keys, body \in BodyType : Decide(t, key, body)
  \/ \E t \in Tabs, items \in ItemLists :
       ResubmitAppend(t, items) \/ ResubmitReplace(t, items)
  \/ \E t \in Tabs, receipt \in Receipts : ResubmitReceipt(t, receipt)
  \/ \E t \in Tabs : ResubmitPurpose(t)
  \/ \E t \in Tabs, code \in Codes : ExportSucceeds(t, code) \/ ExportFails(t, code)

Spec == Init /\ [][Next]_vars

-----------------------------------------------------------------------------
(* Safety.                                                                 *)

(* Optimistic concurrency: a tab whose row version is still the stored one *)
(* shows the stored claim, its recommendation and its lines, even though   *)
(* it read them in three statements.  This is what makes                   *)
(* `row_version != expected_version` in decide and export_expense a        *)
(* sufficient check.                                                       *)
FreshViewIsTrue ==
  \A t \in Tabs :
    LET view == views[t]
    IN  /\ view.version <= claim.rowVersion
        /\ view.stage # "NONE" /\ view.version = claim.rowVersion =>
             /\ view.state = claim.state
             /\ view.amount = claim.header.amount
             /\ view.stage \in {"ASSESSMENT", "SHOWN"} =>
                  view.recommendation = Recommended(attempts)
             /\ view.stage = "SHOWN" => view.lines = LinesOf(links)

(* The current links are the report: positions 1..n, one link each.        *)
ReportInOrder ==
  /\ \E n \in 0..MaxLines : Positions(Current(links)) = 1..n
  /\ \A l, m \in Current(links) : l.position = m.position => l = m

\* A claim never loses its last line.
ReportNotEmpty == claim.state # "NONE" => Current(links) # {}

(* The current links are a report in order, of at least one line; both     *)
(* unique constraints of expense_receipts hold, so no resubmission fails   *)
(* on them; and the history is made of chains: a superseded link is older, *)
(* no longer current, and superseded by one link only.                     *)
EvidenceWellFormed ==
  /\ ReportInOrder
  /\ ReportNotEmpty
  /\ \A l, m \in links :
       /\ LinkId(l) = LinkId(m) => l = m
       /\ l.revision = m.revision /\ l.receipt = m.receipt => l = m
       /\ l.supersedes = m.supersedes /\ l.supersedes # NoLink => l = m
  /\ \A l \in links : l.supersedes # NoLink =>
       \E m \in links : /\ l.supersedes = LinkId(m)
                        /\ m.revision < l.revision
                        /\ ~m.current

(* The claim's own amount, receipt and hash, set by each handler apart     *)
(* from the links, are those of the current lines.                         *)
HeaderMatchesLines ==
  claim.state # "NONE" =>
    LET lines == ByPosition(Current(links))
    IN  /\ claim.header = Header([p \in DOMAIN lines |-> LineOf(lines[p])])
        /\ Len(lines) <= MaxLines

(* A claim under review, or past it, was assessed at its present revision  *)
(* on the lines it has now; a submitted one still can be, which is what    *)
(* keeps the early return on an existing attempt from stranding it.        *)
AssessedOnCurrentEvidence ==
  /\ claim.state \in {"SUBMITTED", "ASSESSING"} =>
       \A a \in attempts : a.revision < claim.revision
  /\ claim.state \notin {"NONE", "SUBMITTED", "ASSESSING"} =>
       \E a \in LatestAttempts(attempts) :
         a.revision = claim.revision /\ a.evidence = LinesOf(links)

(* No two decisions were made in one revision, none by the                 *)
(* submitter, none against the recommendation without a reason; a decision *)
(* that closes the review is the last one.                                 *)
DecisionsSound ==
  /\ \A d, e \in decisions : d.revision = e.revision => d = e
  /\ \A d \in decisions :
       /\ d.actor # Submitter
       /\ ~d.body.reason => d.body.action = "APPROVE" /\ d.observed = "APPROVE"
       /\ d.body.action # "REQUEST_INFORMATION" =>
            /\ d.revision = claim.revision
            /\ claim.state \in {"READY_TO_EXPORT", "REJECTED", "EXPORTED", "EXPORT_FAILED"}

(* Evidence is never lost: a link row stays, and all that ever changes in  *)
(* it is that it stops being current.                                      *)
EvidenceOnlyGrows ==
  [][\A l \in links : l \in links' \/ [l EXCEPT !.current = FALSE] \in links']_links

DecidedAsShown ==
  \A d \in decisions' \ decisions :
    \E t \in Tabs : /\ views[t].stage = "SHOWN" /\ UserOf[t] = d.actor
                    /\ d.evidence = views[t].lines
                    /\ d.observed = views[t].recommendation

ExportedAsShown ==
  export'.csv.lines \notin {{}, export.csv.lines} =>
    \E t \in Tabs : /\ views[t].stage = "SHOWN" /\ Role(t) \in {"REVIEWER", "ADMIN"}
                    /\ export'.csv.lines = views[t].lines

(* What you see is what you sign.  A decision is stored with the lines and *)
(* the recommendation its reviewer's tab was showing, and an accounting    *)
(* file holds the lines the exporting tab was showing, although the        *)
(* handlers never look at a tab: they reread the tables and compare one    *)
(* number.                                                                 *)
ActsOnWhatIsShown == [][DecidedAsShown /\ ExportedAsShown]_vars

(* Appending evidence leaves every line already in the report as it was.   *)
AppendKeepsLines ==
  [][(\E t \in Tabs, items \in ItemLists : ResubmitAppend(t, items))
       => LinesOf(links) \subseteq LinesOf(links')]_vars

(* The claim keeps the contract: see ClaimContract.                        *)
Phase ==
  CASE claim.state = "NONE" -> "ABSENT"
    [] claim.state \in {"SUBMITTED", "ASSESSING"} -> "FILED"
    [] claim.state = "AWAITING_REVIEW" -> "REVIEW"
    [] claim.state = "INFORMATION_REQUESTED" -> "ASKED"
    [] claim.state = "REJECTED" -> "REFUSED"
    [] claim.state \in {"READY_TO_EXPORT", "EXPORT_FAILED"} -> "APPROVED"
    [] OTHER -> "BOOKED"

AssessedLines == UNION {a.evidence : a \in LatestAttempts(attempts)}
ApprovedLines == UNION {d.evidence : d \in {d \in decisions : d.body.action = "APPROVE"}}

Contract == INSTANCE ClaimContract WITH
  Evidence <- (SUBSET Shown) \ {{}},
  None <- {},
  phase <- Phase,
  evidence <- LinesOf(links),
  assessed <- AssessedLines,
  approved <- ApprovedLines,
  booked <- export.csv.lines

(* The accounting file holds exactly the lines a reviewer approved, which  *)
(* are the lines assessed, and it is written once.                         *)
KeepsContract == Contract!ContractSpec

(* The claim takes its turns, see ClaimRounds: every revision is assessed  *)
(* once before the next is opened, whatever stale tab opens it.            *)
Rounds == INSTANCE ClaimRounds WITH
  revision <- claim.revision,
  assessed <- {a.revision : a \in attempts}

TakesTurns == Rounds!RoundsSpec

-----------------------------------------------------------------------------
(* What the documents say of resubmission.                                 *)

(* An answer is accepted only for the information request it answers:      *)
(* the resubmission endpoint answers "409 state/version".                  *)
AnswerMatchesRequest ==
  [][\A t \in Tabs :
       (ResubmitPurpose(t) \/ \E items \in ItemLists : ResubmitReplace(t, items))
         => views[t].version = claim.rowVersion]_vars
=============================================================================
