------------------------ MODULE ReceiptIntakeProofs ------------------------
(***************************************************************************)
(* What the intake guarantees for any number of receipts, with the store,  *)
(* the scanner and the process failing anywhere.                           *)
(***************************************************************************)
EXTENDS ReceiptIntake, TLAPS

(* Before inspection nothing of a receipt is clean; from inspection to     *)
(* promotion its verdict is CLEAN; and its object is in the clean bucket   *)
(* before it is taken out of quarantine.                                   *)
Inspected == {"PROMOTE", "REMOVE", "CLEARED", "UNPROMOTED"}
NotYet(r) ==
  step[r] \in {"NONE", "PUT", "STORED", "SCAN"} =>
    r \notin clean /\ r \notin served /\ row[r].status # "CLEAN"
Passed(r) == step[r] \in Inspected => verdict[r] = "CLEAN"
Unseen(r) ==
  /\ r \in served => row[r].status = "CLEAN"
  /\ row[r].status = "CLEAN" => step[r] = "DONE"
Promoted(r) == step[r] \in {"REMOVE", "CLEARED"} => r \in clean
Kept(r) == step[r] \in {"STORED", "SCAN"} \cup Inspected => r \in quarantine \cup clean
Undecided(r) == step[r] \in {"NONE", "PUT", "STORED"} => row[r] = NoRow
Answered(r) == step[r] = "DONE" => row[r].status # "SCAN_PENDING"
Stored(r) ==
  row[r].status = "CLEAN" =>
    row[r].bucket = "clean" /\ r \in clean /\ <<r, "receipt.security_cleared">> \in audit
Held(r) == row[r] # NoRow => r \in quarantine \cup clean
ClearedR(r) == r \in clean \/ r \in served => verdict[r] = "CLEAN"

Custody(r) ==
  /\ NotYet(r) /\ Passed(r) /\ Unseen(r) /\ Promoted(r) /\ Kept(r)
  /\ Undecided(r) /\ Answered(r) /\ Stored(r) /\ Held(r) /\ ClearedR(r)

IntakeInv == TypeOK /\ \A r \in Receipts : Custody(r)

Step(r) ==
  \/ Receive(r) \/ PutQuarantined(r) \/ PutFails(r) \/ CommitQuarantined(r)
  \/ ScanFails(r) \/ Block(r) \/ Clear(r)
  \/ PutClean(r) \/ PutCleanFails(r) \/ RemoveQuarantined(r) \/ RemoveFails(r)
  \/ CommitCleared(r) \/ CommitUnpromoted(r)
  \/ Die(r) \/ View(r)

(* A step is about one receipt: nothing stored of another one changes.     *)
LEMMA OthersUntouched ==
  ASSUME TypeOK, NEW r \in Receipts, Step(r), NEW q \in Receipts, q # r
  PROVE  /\ step'[q] = step[q] /\ verdict'[q] = verdict[q] /\ row'[q] = row[q]
         /\ q \in quarantine' <=> q \in quarantine
         /\ q \in clean' <=> q \in clean
         /\ q \in served' <=> q \in served
         /\ audit \subseteq audit'
  BY DEF TypeOK, Step, Receive, PutQuarantined, PutFails, CommitQuarantined, ScanFails, Block,
         Clear, PutClean, PutCleanFails, RemoveQuarantined, RemoveFails, CommitCleared,
         CommitUnpromoted, Die, View, GoesTo, Audits, Commits, store, handler

LEMMA TypeStep ==
  ASSUME TypeOK, NEW r \in Receipts, Step(r)
  PROVE  TypeOK'
  <1> USE DEF TypeOK, GoesTo, Audits, Commits, store, handler, Steps, Rows, Statuses, Blocked, Events
  <1>1. CASE Receive(r) \/ PutQuarantined(r) \/ PutFails(r) \/ CommitQuarantined(r)
    BY <1>1 DEF Receive, PutQuarantined, PutFails, CommitQuarantined
  <1>2. CASE ScanFails(r) \/ Block(r) \/ Clear(r)
    BY <1>2 DEF ScanFails, Block, Clear
  <1>3. CASE PutClean(r) \/ PutCleanFails(r) \/ RemoveQuarantined(r) \/ RemoveFails(r)
    BY <1>3 DEF PutClean, PutCleanFails, RemoveQuarantined, RemoveFails
  <1>4. CASE CommitCleared(r) \/ CommitUnpromoted(r) \/ Die(r) \/ View(r)
    BY <1>4 DEF CommitCleared, CommitUnpromoted, Die, View
  <1> QED
    BY <1>1, <1>2, <1>3, <1>4 DEF Step

(* What a step does to the custody of its own receipt, action by action.   *)
LEMMA CustodyStep ==
  ASSUME TypeOK, NEW r \in Receipts, Custody(r), Step(r)
  PROVE  Custody(r)'
  <1> USE DEF TypeOK, Custody, NotYet, Passed, Unseen, Promoted, Kept, Undecided, Answered,
              Stored, Held, ClearedR, Inspected, GoesTo, Audits, Commits, NoRow, Rows, Statuses,
              Blocked, Steps, store, handler
  <1>1. CASE Receive(r)
    BY <1>1 DEF Receive
  <1>2. CASE PutQuarantined(r)
    BY <1>2 DEF PutQuarantined
  <1>3. CASE PutFails(r)
    BY <1>3 DEF PutFails
  <1>4. CASE CommitQuarantined(r)
    BY <1>4 DEF CommitQuarantined
  <1>5. CASE ScanFails(r)
    BY <1>5 DEF ScanFails
  <1>6. CASE Block(r)
    BY <1>6 DEF Block
  <1>7. CASE Clear(r)
    BY <1>7 DEF Clear
  <1>8. CASE PutClean(r)
    BY <1>8 DEF PutClean
  <1>9. CASE PutCleanFails(r)
    BY <1>9 DEF PutCleanFails
  <1>10. CASE RemoveQuarantined(r)
    BY <1>10 DEF RemoveQuarantined
  <1>11. CASE RemoveFails(r)
    BY <1>11 DEF RemoveFails
  <1>12. CASE CommitCleared(r)
    <2>1. /\ step[r] = "CLEARED" /\ r \in clean /\ verdict[r] = "CLEAN"
          /\ step'[r] = "DONE" /\ row'[r] = [status |-> "CLEAN", bucket |-> "clean"]
          /\ <<r, "receipt.security_cleared">> \in audit'
          /\ UNCHANGED <<verdict, quarantine, clean, served>>
      BY <1>12 DEF CommitCleared
    <2> QED
      BY <2>1
  <1>13. CASE CommitUnpromoted(r)
    <2>1. /\ step[r] = "UNPROMOTED" /\ verdict[r] = "CLEAN" /\ r \notin served
          /\ step'[r] = "DONE" /\ row'[r] = [status |-> "SCAN_FAILED", bucket |-> "quarantine"]
          /\ UNCHANGED <<verdict, quarantine, clean, served, audit>>
      BY <1>13 DEF CommitUnpromoted
    <2> QED
      BY <2>1
  <1>14. CASE Die(r)
    <2>1. /\ step[r] \notin {"NONE", "DONE"} /\ step'[r] = "DEAD"
          /\ UNCHANGED <<verdict, row, quarantine, clean, audit, served>>
      BY <1>14 DEF Die
    <2>2. row[r].status # "CLEAN"
      BY <2>1
    <2> QED
      BY <2>1, <2>2
  <1>15. CASE View(r)
    <2>1. /\ row[r].status = "CLEAN" /\ r \in clean /\ verdict[r] = "CLEAN"
          /\ <<r, "receipt.security_cleared">> \in audit'
          /\ UNCHANGED <<step, verdict, row, quarantine, clean>>
      BY <1>15 DEF View
    <2> QED
      BY <2>1
  <1> QED
    BY <1>1, <1>2, <1>3, <1>4, <1>5, <1>6, <1>7, <1>8, <1>9, <1>10, <1>11, <1>12, <1>13, <1>14,
       <1>15 DEF Step

LEMMA IntakeInvariant == Spec => []IntakeInv
  <1>1. Init => IntakeInv
    <2> SUFFICES ASSUME Init PROVE IntakeInv
      OBVIOUS
    <2>1. TypeOK
      BY DEF Init, TypeOK, Steps
    <2>2. \A r \in Receipts : Custody(r)
      BY DEF Init, NoRow, Custody, NotYet, Passed, Unseen, Promoted, Kept, Undecided, Answered,
             Stored, Held, ClearedR, Inspected
    <2> QED
      BY <2>1, <2>2 DEF IntakeInv
  <1>2. IntakeInv /\ [Next]_vars => IntakeInv'
    <2> SUFFICES ASSUME IntakeInv, [Next]_vars PROVE IntakeInv'
      OBVIOUS
    <2>1. CASE UNCHANGED vars
      BY <2>1 DEF vars, handler, store, IntakeInv, TypeOK, Custody, NotYet, Passed, Unseen,
                  Promoted, Kept, Undecided, Answered, Stored, Held, ClearedR
    <2>2. ASSUME NEW r \in Receipts, Step(r) PROVE IntakeInv'
      <3>1. TypeOK'
        BY <2>2, TypeStep DEF IntakeInv
      <3>2. Custody(r)'
        BY <2>2, CustodyStep DEF IntakeInv
      <3>3. ASSUME NEW q \in Receipts, q # r PROVE Custody(q)'
        <4>1. Custody(q)
          BY DEF IntakeInv
        <4>2. /\ step'[q] = step[q] /\ verdict'[q] = verdict[q] /\ row'[q] = row[q]
              /\ q \in quarantine' <=> q \in quarantine
              /\ q \in clean' <=> q \in clean
              /\ q \in served' <=> q \in served
              /\ audit \subseteq audit'
          BY <2>2, <3>3, OthersUntouched DEF IntakeInv
        <4> QED
          BY <4>1, <4>2 DEF Custody, NotYet, Passed, Unseen, Promoted, Kept, Undecided, Answered,
                            Stored, Held, ClearedR
      <3> QED
        BY <3>1, <3>2, <3>3 DEF IntakeInv
    <2> QED
      BY <2>1, <2>2 DEF Next, Step
  <1> QED
    BY <1>1, <1>2, PTL DEF Spec

(* Handlers, buckets and rows keep their types.                            *)
THEOREM IntakeTypes == Spec => []TypeOK
  BY IntakeInvariant, PTL DEF IntakeInv

(* Nothing reaches the clean bucket or a reader that the scanner and the   *)
(* structure checks have not passed, and nobody reads a receipt whose row  *)
(* does not say so (main.py:514).                                          *)
THEOREM OnlyCleared == Spec => []ClearedOnly
  <1>1. IntakeInv => ClearedOnly
    BY DEF IntakeInv, TypeOK, Custody, ClearedR, Unseen, ClearedOnly
  <1> QED
    BY <1>1, IntakeInvariant, PTL

(* A receipt that may be submitted and viewed is where its row says.       *)
THEOREM CleanStored == Spec => []CleanIsStored
  <1>1. IntakeInv => CleanIsStored
    BY DEF IntakeInv, Custody, Stored, CleanIsStored
  <1> QED
    BY <1>1, IntakeInvariant, PTL

(* A committed receipt never loses its object, and only an upload whose    *)
(* process died leaves its receipt pending.                                *)
THEOREM NeverLost == Spec => []NothingLost
  <1>1. IntakeInv => NothingLost
    BY DEF IntakeInv, Custody, Held, Answered, NothingLost
  <1> QED
    BY <1>1, IntakeInvariant, PTL
=============================================================================
