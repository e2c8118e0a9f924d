---------------------------- MODULE ReportClient ----------------------------
(***************************************************************************)
(* The web page, as the one tab somebody has open, and the claims behind   *)
(* it.                                                                     *)
(*                                                                         *)
(* The page keeps what it holds in React state: the receipts of the report *)
(* that is being put together, those staged for an answer to an            *)
(* information request, the list of claims it last showed, and one flag    *)
(* that every pressed button raises until its request has been answered    *)
(* and the list read again.  A handler closes over the state of the moment *)
(* it was pressed in; the answer is applied to the state of the moment it  *)
(* arrives in.  An answer may be lost while its request is still           *)
(* underway, and a list may be shown after one that was read later.        *)
(*                                                                         *)
(* The server side is no more than what a tab can tell of it; ExpenseClaim *)
(* has the rest.  A receipt is a file that was picked: picking it again    *)
(* uploads another receipt.  What is typed into a draft is left out.       *)
(***************************************************************************)
EXTENDS Naturals, Sequences, FiniteSets

CONSTANTS
  Files,           \* the receipts that may be picked
  Limit,           \* receipts a report may contain
  Asks,            \* the fields a reviewer may request; none is a final decision
  MaxClaims, MaxRequests, MaxLate      \* bounds of the instance


VARIABLES
  claims,          \* the employee's claims, as the server has them
  requests,        \* every request that was sent, with what became of it
  role,            \* whom the page is viewed as
  shown,           \* the list of claims on the page
  late,            \* lists that were read and are not shown yet
  drafts,          \* receipts of the report to be submitted
  staged,          \* receipts staged for each claim's information request
  uploads,         \* uploads under way, with the place they are meant for
  busy,            \* whether the buttons are disabled
  kept,            \* receipts the page was told are stored and clean
  removed          \* receipts the employee took away again

server == <<claims, requests>>
screen == <<role, shown, late>>
staging == <<drafts, staged, uploads, kept, removed>>
vars == <<server, screen, staging, busy>>

Ids == 1..MaxClaims
Fields == {"purpose", "receipt"}

ASSUME ClientAssumption ==
  Limit \in Nat /\ MaxClaims \in Nat /\ Asks \subseteq SUBSET Fields

Claim == [items : SUBSET Files,
          state : {"SUBMITTED", "AWAITING_REVIEW", "INFORMATION_REQUESTED", "CLOSED"},
          fields : SUBSET Fields, row_version : Nat]
Request == [kind : {"SUBMIT", "RESUBMIT", "DECIDE"}, claim : Ids \cup {0},
            items : SUBSET Files, fields : SUBSET Fields, row_version : Nat,
            server : {"SENT", "DONE", "REFUSED"},
            told : {"NOTHING", "DONE", "REFRESHED", "ERROR"}]

Staged == drafts \cup UNION {staged[c] : c \in Ids}

\* The rows of the server and of the page, and no receipt on the page that the
\* server has not cleared (page.tsx:27-37).
TypeOK ==
  /\ claims \in Seq(Claim)
  /\ requests \in Seq(Request)
  /\ role \in {"Employee", "Reviewer"}
  /\ shown \in Seq(Claim)
  /\ late \subseteq Seq(Claim)
  /\ drafts \subseteq kept
  /\ staged \in [Ids -> SUBSET kept]
  /\ uploads \subseteq [to : Ids \cup {0}, files : SUBSET Files]
  /\ busy \in BOOLEAN
  /\ kept \subseteq Files
  /\ removed \subseteq kept

Init ==
  /\ claims = <<>> /\ requests = <<>>
  /\ role = "Employee" /\ shown = <<>> /\ late = {}
  /\ drafts = {} /\ staged = [c \in Ids |-> {}] /\ uploads = {}
  /\ kept = {} /\ removed = {}
  /\ busy = FALSE

-----------------------------------------------------------------------------
(***************************************************************************)
(* Picking receipts and taking them away                                   *)
(***************************************************************************)
Unpicked == Files \ (kept \cup UNION {u.files : u \in uploads})

Asked(c) == c \in DOMAIN shown /\ shown[c].state = "INFORMATION_REQUESTED"
ReceiptAsked(c) == Asked(c) /\ "receipt" \in shown[c].fields

\* The files that fit are sent, each in a request of its own.
Upload(to, files) ==
  /\ files # {}
  /\ uploads' = uploads \cup {[to |-> to, files |-> files]}
  /\ busy' = TRUE
  /\ UNCHANGED <<server, screen, drafts, staged, kept, removed>>

PickForReport(files) ==
  /\ role = "Employee" /\ ~busy
  /\ Cardinality(drafts) + Cardinality(files) <= Limit
  /\ Upload(0, files)

\* mutated form: the file input is enabled while a request is under way
PickForRequestBusy(c, files) ==
  /\ role = "Employee"
  /\ ReceiptAsked(c)
  /\ Cardinality(shown[c].items) + Cardinality(staged[c]) + Cardinality(files) <= Limit
  /\ Upload(c, files)

PickForRequest(c, files) ==
  /\ role = "Employee" /\ ~busy
  /\ ReceiptAsked(c)
  /\ Cardinality(shown[c].items) + Cardinality(staged[c]) + Cardinality(files) <= Limit
  /\ Upload(c, files)

\* mutated form: receipts the scanner blocked are put on the form
UploadSettlesUnscanned(u, clean) ==
  /\ clean \subseteq u.files
  /\ IF u.to = 0 THEN drafts' = drafts \cup u.files /\ staged' = staged
     ELSE staged' = [staged EXCEPT ![u.to] = @ \cup u.files] /\ drafts' = drafts
  /\ kept' = kept \cup clean
  /\ uploads' = uploads \ {u}
  /\ busy' = FALSE
  /\ UNCHANGED <<server, screen, removed>>

\* All requests of an upload have been answered or lost: the receipts that
\* passed the scanner are added to whatever is staged by now.
UploadSettles(u, clean) ==
  /\ clean \subseteq u.files
  /\ IF u.to = 0 THEN drafts' = drafts \cup clean /\ staged' = staged
     ELSE staged' = [staged EXCEPT ![u.to] = @ \cup clean] /\ drafts' = drafts
  /\ kept' = kept \cup clean
  /\ uploads' = uploads \ {u}
  /\ busy' = FALSE
  /\ UNCHANGED <<server, screen, removed>>

\* "Remove" is enabled at any time, a pending request or not.
RemoveDraft(r) ==
  /\ role = "Employee"
  /\ r \in drafts
  /\ drafts' = drafts \ {r}
  /\ removed' = removed \cup {r}
  /\ UNCHANGED <<server, screen, staged, uploads, kept, busy>>

RemoveStaged(c, r) ==
  /\ role = "Employee"
  /\ ReceiptAsked(c)
  /\ r \in staged[c]
  /\ staged' = [staged EXCEPT ![c] = @ \ {r}]
  /\ removed' = removed \cup {r}
  /\ UNCHANGED <<server, screen, drafts, uploads, kept, busy>>

-----------------------------------------------------------------------------
(***************************************************************************)
(* Requests, pressed and answered                                          *)
(***************************************************************************)
Sends(kind, c, items, fields, version) ==
  /\ Len(requests) < MaxRequests
  /\ requests' = Append(requests,
       [kind |-> kind, claim |-> c, items |-> items, fields |-> fields,
        row_version |-> version, server |-> "SENT", told |-> "NOTHING"])
  /\ busy' = TRUE
  /\ UNCHANGED <<claims, screen, staging>>

\* mutated form: the button stays enabled while a submission is under way
PressSubmitBusy ==
  /\ role = "Employee"
  /\ drafts # {}
  /\ Sends("SUBMIT", 0, drafts, {}, 0)

\* Every press is a request with a key of its own (crypto.randomUUID).
PressSubmit ==
  /\ role = "Employee" /\ ~busy
  /\ drafts # {}
  /\ Sends("SUBMIT", 0, drafts, {}, 0)

PressResubmit(c) ==
  /\ role = "Employee" /\ ~busy
  /\ Asked(c)
  /\ ReceiptAsked(c) => staged[c] # {}
  /\ Sends("RESUBMIT", c, IF ReceiptAsked(c) THEN staged[c] ELSE {}, {}, 0)

\* No fields: an approval or a rejection.  An administrator has the same buttons.
PressDecide(c, fields) ==
  /\ role = "Reviewer" /\ ~busy
  /\ c \in DOMAIN shown /\ shown[c].state = "AWAITING_REVIEW"
  /\ Sends("DECIDE", c, {}, fields, shown[c].row_version)

Told(q, what) == requests' = [requests EXCEPT ![q].told = what]
Answered(q, kind) ==
  requests[q].kind = kind /\ requests[q].told = "NOTHING" /\ requests[q].server = "DONE"

\* mutated form: the form is reset and its receipts are not
SubmitSucceedsKeeping(q) ==
  /\ Answered(q, "SUBMIT")
  /\ Told(q, "DONE")
  /\ UNCHANGED <<claims, screen, staging, busy>>

SubmitSucceeds(q) ==
  /\ Answered(q, "SUBMIT")
  /\ Told(q, "DONE")
  /\ drafts' = {}
  /\ UNCHANGED <<claims, screen, staged, uploads, kept, removed, busy>>

\* The answer, the claim after the resubmission, is shown in place of the old
\* row.  (An answer that took longer shows an older row, as a late list would.)
ResubmitSucceeds(q) ==
  LET c == requests[q].claim IN
  /\ Answered(q, "RESUBMIT")
  /\ Told(q, "DONE")
  /\ shown' = [d \in DOMAIN shown |-> IF d = c THEN claims[c] ELSE shown[d]]
  /\ staged' = IF requests[q].items = {} THEN staged ELSE [staged EXCEPT ![c] = {}]
  /\ UNCHANGED <<claims, role, late, drafts, uploads, kept, removed, busy>>

DecideSucceeds(q) ==
  /\ Answered(q, "DECIDE")
  /\ Told(q, "DONE")
  /\ UNCHANGED <<claims, screen, staging, busy>>

\* After a success the handler reads the list again, which may fail, and only
\* then enables the buttons.
RefreshEnds(q) ==
  /\ requests[q].told = "DONE"
  /\ Told(q, "REFRESHED")
  /\ shown' \in {claims, shown}
  /\ busy' = FALSE
  /\ UNCHANGED <<claims, role, late, staging>>

\* A refusal, or an answer that does not arrive: an error is shown and the
\* receipts stay where they are.  The request may be underway still.
RequestFails(q) ==
  /\ requests[q].told = "NOTHING"
  /\ Told(q, "ERROR")
  /\ busy' = FALSE
  /\ UNCHANGED <<claims, screen, staging>>

-----------------------------------------------------------------------------
(***************************************************************************)
(* Reading the list                                                        *)
(***************************************************************************)
\* A list is read for "Refresh" and whenever the page is viewed as another role.
\* Neither control is ever disabled.
ReadList ==
  /\ Cardinality(late) < MaxLate
  /\ late' = late \cup {claims}
  /\ UNCHANGED <<server, role, shown, staging, busy>>

ViewAs(r) ==
  /\ role # r
  /\ role' = r
  /\ Cardinality(late \cup {claims}) <= MaxLate
  /\ late' = late \cup {claims}
  /\ UNCHANGED <<server, shown, staging, busy>>

ShowList(list) ==
  /\ shown' = list
  /\ late' = late \ {list}
  /\ UNCHANGED <<server, role, staging, busy>>

-----------------------------------------------------------------------------
(***************************************************************************)
(* The server                                                              *)
(***************************************************************************)
Outcome(q, what) == requests' = [requests EXCEPT ![q].server = what]
Arrives(q, kind) == requests[q].kind = kind /\ requests[q].server = "SENT"

\* A key it has not seen is a new claim, whatever its receipts are.
FileReport(q) ==
  /\ Arrives(q, "SUBMIT")
  /\ Len(claims) < MaxClaims
  /\ claims' = Append(claims, [items |-> requests[q].items, state |-> "SUBMITTED",
                               fields |-> {}, row_version |-> 1])
  /\ Outcome(q, "DONE")
  /\ UNCHANGED <<screen, staging, busy>>

\* Receipts are appended to those the claim has; without any, only the purpose
\* is answered.
Resubmit(q) ==
  LET c == requests[q].claim IN
  /\ Arrives(q, "RESUBMIT")
  /\ claims[c].state = "INFORMATION_REQUESTED"
  /\ claims[c].items \cap requests[q].items = {}
  /\ Cardinality(claims[c].items) + Cardinality(requests[q].items) <= Limit
  /\ claims' = [claims EXCEPT ![c] =
       [items |-> claims[c].items \cup requests[q].items, state |-> "SUBMITTED",
        fields |-> {}, row_version |-> claims[c].row_version + 1]]
  /\ Outcome(q, "DONE")
  /\ UNCHANGED <<screen, staging, busy>>

Moved(claim, state, fields) ==
  [items |-> claim.items, state |-> state, fields |-> fields,
   row_version |-> claim.row_version + 1]

Reviewed(claim, fields) ==
  Moved(claim, IF fields = {} THEN "CLOSED" ELSE "INFORMATION_REQUESTED", fields)

Decide(q) ==
  LET c == requests[q].claim IN
  /\ Arrives(q, "DECIDE")
  /\ claims[c].state = "AWAITING_REVIEW"
  /\ claims[c].row_version = requests[q].row_version
  /\ claims' = [claims EXCEPT ![c] = Reviewed(@, requests[q].fields)]
  /\ Outcome(q, "DONE")
  /\ UNCHANGED <<screen, staging, busy>>

\* A conflict, a validation error or a failure of the handler.
Refuse(q) ==
  /\ requests[q].server = "SENT"
  /\ Outcome(q, "REFUSED")
  /\ UNCHANGED <<claims, screen, staging, busy>>

Assess(c) ==
  /\ claims[c].state = "SUBMITTED"
  /\ claims' = [claims EXCEPT ![c] = Moved(@, "AWAITING_REVIEW", @.fields)]
  /\ UNCHANGED <<requests, screen, staging, busy>>

\* A reviewer at another tab.
DecideElsewhere(c, fields) ==
  /\ claims[c].state = "AWAITING_REVIEW"
  /\ claims' = [claims EXCEPT ![c] = Reviewed(@, fields)]
  /\ UNCHANGED <<requests, screen, staging, busy>>

-----------------------------------------------------------------------------
Next ==
  \/ \E files \in SUBSET Unpicked : PickForReport(files)
  \/ \E c \in Ids, files \in SUBSET Unpicked : PickForRequest(c, files)
  \/ \E u \in uploads, clean \in SUBSET Files : UploadSettles(u, clean)
  \/ \E r \in Files : RemoveDraft(r)
  \/ \E c \in Ids, r \in Files : RemoveStaged(c, r)
  \/ PressSubmit
  \/ \E c \in Ids : PressResubmit(c)
  \/ \E c \in Ids, fields \in Asks : PressDecide(c, fields)
  \/ \E q \in DOMAIN requests :
       \/ SubmitSucceeds(q) \/ ResubmitSucceeds(q) \/ DecideSucceeds(q)
       \/ RefreshEnds(q) \/ RequestFails(q)
       \/ FileReport(q) \/ Resubmit(q) \/ Decide(q) \/ Refuse(q)
  \/ ReadList
  \/ \E r \in {"Employee", "Reviewer"} : ViewAs(r)
  \/ \E list \in late : ShowList(list)
  \/ \E c \in DOMAIN claims : Assess(c)
  \/ \E c \in DOMAIN claims, fields \in Asks : DecideElsewhere(c, fields)

Spec == Init /\ [][Next]_vars

-----------------------------------------------------------------------------
(***************************************************************************)
(* Properties                                                              *)
(***************************************************************************)
Filed == UNION {claims[c].items : c \in DOMAIN claims}

\* A receipt the page said it had taken is on the page, in a claim, or was
\* removed by the employee: emptying the form or a claim's list after a
\* success never takes what arrived meanwhile (page.tsx:133, 155, 196-200).
NothingKeptIsLost == kept \subseteq Staged \cup Filed \cup removed

\* A receipt that is still on the page and already in a claim is there because
\* the page has not been told: its request is pending or its answer was lost.
\* Nobody is asked to remove what the page knows to be filed (page.tsx:155, 194).
FiledIsCleared ==
  \A r \in Staged \cap Filed : \E q \in DOMAIN requests :
    /\ r \in requests[q].items
    /\ requests[q].server = "DONE"
    /\ requests[q].told \in {"NOTHING", "ERROR"}

\* Two claims with one receipt take a submission whose answer was lost: pressing
\* the button twice does not file a report twice (page.tsx:151, 326).
TwiceOnlyAfterLoss ==
  \A c, d \in DOMAIN claims : \A r \in claims[c].items \cap claims[d].items :
    c = d \/ \E q \in DOMAIN requests :
               /\ r \in requests[q].items
               /\ requests[q].kind = "SUBMIT"
               /\ requests[q].told = "ERROR"

\* "The fixes retain the request key for an unchanged pending submission"
\* (docs/community.md:591): a receipt is part of one claim at most.
OneClaimPerReceipt ==
  \A c, d \in DOMAIN claims : claims[c].items \cap claims[d].items # {} => c = d
=============================================================================
