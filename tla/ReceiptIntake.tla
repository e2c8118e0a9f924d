--------------------------- MODULE ReceiptIntake ---------------------------
(***************************************************************************)
(* An uploaded receipt on its way through quarantine, scanning and         *)
(* promotion, and the people who look at it.                               *)
(*                                                                         *)
(* upload_receipt works in two transactions with the object store and the  *)
(* scanner between and inside them.  The store is no part of either        *)
(* transaction: a write or a removal takes effect at once, it may fail     *)
(* without effect, and it may fail after having taken effect, when only    *)
(* the answer is lost.  The process may die anywhere, and so does an       *)
(* upload whose exception no except clause names (the store's client       *)
(* raises some that are neither OSError nor S3Error).                      *)
(***************************************************************************)
EXTENDS FiniteSets

CONSTANT Receipts

VARIABLES
  step,            \* where each upload is in upload_receipt
  verdict,         \* what inspect_receipt said of it
  row,             \* the committed receipts row
  quarantine,      \* objects in the quarantine bucket
  clean,           \* objects in the clean bucket
  audit,           \* committed audit events about receipts
  served           \* receipts whose content has been handed out

handler == <<step, verdict>>
store == <<quarantine, clean>>
vars == <<handler, store, row, audit, served>>

Steps == {"NONE", "PUT", "STORED", "SCAN", "PROMOTE", "REMOVE", "CLEARED", "UNPROMOTED",
          "DONE", "DEAD"}
Blocked == {"INFECTED", "REJECTED", "SCAN_FAILED"}
Statuses == {"SCAN_PENDING", "CLEAN"} \cup Blocked
NoRow == [status |-> "NONE", bucket |-> "none"]
Rows == [status : Statuses, bucket : {"quarantine", "clean"}]
Events == {"receipt.quarantined", "receipt.scan_failed", "receipt.security_cleared",
           "receipt.security_blocked", "receipt.viewed"}

TypeOK ==
  /\ step \in [Receipts -> Steps]
  /\ verdict \in [Receipts -> {"NONE", "CLEAN"} \cup Blocked]
  /\ row \in [Receipts -> Rows \cup {NoRow}]
  /\ quarantine \subseteq Receipts
  /\ clean \subseteq Receipts
  /\ audit \subseteq Receipts \X Events
  /\ served \subseteq Receipts

Init ==
  /\ step = [r \in Receipts |-> "NONE"]
  /\ verdict = [r \in Receipts |-> "NONE"]
  /\ row = [r \in Receipts |-> NoRow]
  /\ quarantine = {} /\ clean = {}
  /\ audit = {}
  /\ served = {}

GoesTo(r, s) == step' = [step EXCEPT ![r] = s]
Audits(r, event) == audit' = audit \cup {<<r, event>>}
Commits(r, status, bucket) ==
  row' = [row EXCEPT ![r] = [status |-> status, bucket |-> bucket]]

-----------------------------------------------------------------------------
(* The first transaction: the row, the object, the event.                  *)

Receive(r) ==
  /\ step[r] = "NONE"
  /\ GoesTo(r, "PUT")
  /\ UNCHANGED <<verdict, store, row, audit, served>>

PutQuarantined(r) ==
  /\ step[r] = "PUT"
  /\ quarantine' = quarantine \cup {r}
  /\ GoesTo(r, "STORED")
  /\ UNCHANGED <<verdict, clean, row, audit, served>>

\* rolled back, and answered with 503; the object may be there all the same
PutFails(r) ==
  /\ step[r] = "PUT"
  /\ \E written \in {{}, {r}} : quarantine' = quarantine \cup written
  /\ GoesTo(r, "DONE")
  /\ UNCHANGED <<verdict, clean, row, audit, served>>

CommitQuarantined(r) ==
  /\ step[r] = "STORED"
  /\ Commits(r, "SCAN_PENDING", "quarantine")
  /\ Audits(r, "receipt.quarantined")
  /\ GoesTo(r, "SCAN")
  /\ UNCHANGED <<verdict, store, served>>

-----------------------------------------------------------------------------
(* Inspection, and the second transaction.                                 *)

\* the scanner is unreachable or answers an error: fail closed
ScanFails(r) ==
  /\ step[r] = "SCAN"
  /\ verdict' = [verdict EXCEPT ![r] = "SCAN_FAILED"]
  /\ Commits(r, "SCAN_FAILED", "quarantine")
  /\ Audits(r, "receipt.scan_failed")
  /\ GoesTo(r, "DONE")
  /\ UNCHANGED <<store, served>>

\* mutated form: a status no reader of the column knows
BlockUnknown(r) ==
  /\ step[r] = "SCAN"
  /\ verdict' = [verdict EXCEPT ![r] = "INFECTED"]
  /\ Commits(r, "BLOCKED", "quarantine")
  /\ Audits(r, "receipt.security_blocked")
  /\ GoesTo(r, "DONE")
  /\ UNCHANGED <<store, served>>

\* malware, or a document structure that is not accepted
Block(r) ==
  /\ step[r] = "SCAN"
  /\ \E v \in {"INFECTED", "REJECTED"} :
       /\ verdict' = [verdict EXCEPT ![r] = v]
       /\ Commits(r, v, "quarantine")
  /\ Audits(r, "receipt.security_blocked")
  /\ GoesTo(r, "DONE")
  /\ UNCHANGED <<store, served>>

\* mutated form: a receipt the scanner could not be asked about passes
ClearUnscanned(r) ==
  /\ step[r] = "SCAN"
  /\ verdict' = [verdict EXCEPT ![r] = "SCAN_FAILED"]
  /\ GoesTo(r, "PROMOTE")
  /\ UNCHANGED <<store, row, audit, served>>

Clear(r) ==
  /\ step[r] = "SCAN"
  /\ verdict' = [verdict EXCEPT ![r] = "CLEAN"]
  /\ GoesTo(r, "PROMOTE")
  /\ UNCHANGED <<store, row, audit, served>>

\* mutated form: promotion moves the object by removing it first
PutCleanAfterRemoval(r) ==
  /\ step[r] \in {"PROMOTE", "REMOVE"}
  /\ IF step[r] = "PROMOTE"
     THEN quarantine' = quarantine \ {r} /\ clean' = clean /\ GoesTo(r, "REMOVE")
     ELSE quarantine' = quarantine /\ clean' = clean \cup {r} /\ GoesTo(r, "CLEARED")
  /\ UNCHANGED <<verdict, row, audit, served>>

PutClean(r) ==
  /\ step[r] = "PROMOTE"
  /\ clean' = clean \cup {r}
  /\ GoesTo(r, "REMOVE")
  /\ UNCHANGED <<verdict, quarantine, row, audit, served>>

RemoveQuarantined(r) ==
  /\ step[r] = "REMOVE"
  /\ quarantine' = quarantine \ {r}
  /\ GoesTo(r, "CLEARED")
  /\ UNCHANGED <<verdict, clean, row, audit, served>>

PutCleanFails(r) ==
  /\ step[r] = "PROMOTE"
  /\ \E written \in {{}, {r}} : clean' = clean \cup written
  /\ GoesTo(r, "UNPROMOTED")
  /\ UNCHANGED <<verdict, quarantine, row, audit, served>>

RemoveFails(r) ==
  /\ step[r] = "REMOVE"
  /\ \E removed \in {{}, {r}} : quarantine' = quarantine \ removed
  /\ GoesTo(r, "UNPROMOTED")
  /\ UNCHANGED <<verdict, clean, row, audit, served>>

CommitCleared(r) ==
  /\ step[r] = "CLEARED"
  /\ Commits(r, "CLEAN", "clean")
  /\ Audits(r, "receipt.security_cleared")
  /\ GoesTo(r, "DONE")
  /\ UNCHANGED <<verdict, store, served>>

\* mutated form: the failed promotion is committed as clean
CommitUnpromotedAsClean(r) ==
  /\ step[r] = "UNPROMOTED"
  /\ Commits(r, "CLEAN", "clean")
  /\ GoesTo(r, "DONE")
  /\ UNCHANGED <<verdict, store, audit, served>>

\* answered with 503; this commit has no audit event
CommitUnpromoted(r) ==
  /\ step[r] = "UNPROMOTED"
  /\ Commits(r, "SCAN_FAILED", "quarantine")
  /\ GoesTo(r, "DONE")
  /\ UNCHANGED <<verdict, store, audit, served>>

Die(r) ==
  /\ step[r] \notin {"NONE", "DONE", "DEAD"}
  /\ GoesTo(r, "DEAD")
  /\ UNCHANGED <<verdict, store, row, audit, served>>

-----------------------------------------------------------------------------
(* GET /receipts/{id}/content.  A blocked receipt is answered with 423, an *)
(* object that cannot be read with 503; neither changes anything.  Content *)
(* kept in the row itself, which the handler would serve too, is of        *)
(* receipts from before the store: an upload never keeps any.              *)

\* mutated form: whatever is in the clean bucket may be read
ViewStored(r) ==
  /\ r \in clean
  /\ served' = served \cup {r}
  /\ Audits(r, "receipt.viewed")
  /\ UNCHANGED <<handler, store, row>>
View(r) ==
  /\ row[r].status = "CLEAN"
  /\ r \in IF row[r].bucket = "clean" THEN clean ELSE quarantine
  /\ served' = served \cup {r}
  /\ Audits(r, "receipt.viewed")
  /\ UNCHANGED <<handler, store, row>>

Next ==
  \E r \in Receipts :
    \/ Receive(r) \/ PutQuarantined(r) \/ PutFails(r) \/ CommitQuarantined(r)
    \/ ScanFails(r) \/ Block(r) \/ Clear(r)
    \/ PutClean(r) \/ PutCleanFails(r) \/ RemoveQuarantined(r) \/ RemoveFails(r)
    \/ CommitCleared(r) \/ CommitUnpromoted(r)
    \/ Die(r)
    \/ View(r)

Spec == Init /\ [][Next]_vars

-----------------------------------------------------------------------------
(* Only what the scanner and the structure checks passed ever reaches the  *)
(* clean bucket or a reader, whatever failed on the way; and nobody has    *)
(* read a receipt whose upload ended in anything but a clearance, be its   *)
(* object in the clean bucket or not.                                      *)
ClearedOnly ==
  /\ clean \cup served \subseteq {r \in Receipts : verdict[r] = "CLEAN"}
  /\ served \subseteq {r \in Receipts : row[r].status = "CLEAN"}

(* A receipt whose row says CLEAN, which may be submitted and viewed, has  *)
(* its object where the row says, and its clearance is on record.          *)
CleanIsStored ==
  \A r \in Receipts : row[r].status = "CLEAN" =>
    row[r].bucket = "clean" /\ r \in clean /\ <<r, "receipt.security_cleared">> \in audit

(* Every receipt is accounted for.  One that has a row has an object:      *)
(* evidence is never lost between the two buckets.  And one whose upload   *)
(* was answered is decided about: only a process that died leaves a        *)
(* receipt pending, and nothing scans such a receipt again.                *)
NothingLost ==
  \A r \in Receipts :
    /\ row[r] # NoRow => r \in quarantine \cup clean
    /\ step[r] = "DONE" => row[r].status # "SCAN_PENDING"
=============================================================================
