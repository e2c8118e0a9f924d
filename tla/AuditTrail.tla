----------------------------- MODULE AuditTrail -----------------------------
(***************************************************************************)
(* The audit trail of one organization and the row locks its writers take. *)
(*                                                                         *)
(* Every change the API or the worker stores appends one event to the      *)
(* organization's hash chain, in the same transaction.  append_audit       *)
(* locks the organization row FOR UPDATE, reads the last event in a        *)
(* statement of its own, and adds the next one.  Before it does, most      *)
(* transactions have written rows that refer to the organization, and for  *)
(* each of those PostgreSQL takes FOR KEY SHARE on the organization row.   *)
(* FOR UPDATE conflicts with FOR KEY SHARE, so the order in which a        *)
(* handler writes and locks matters: that order is the program of its      *)
(* transaction here.                                                       *)
(***************************************************************************)
EXTENDS Integers, Sequences, FiniteSets

CONSTANTS
  Transactions,    \* transactions of the API and the worker, each run once
  Kinds,           \* the kinds of transaction that occur
  Claims           \* claims whose rows they lock

Zero == "ZERO_HASH"
NoClaim == "no claim"
Free == "free"

AllKinds == {"submit", "upload", "scanned", "view", "draft", "publish",
             "assess", "decide", "answer", "explain", "export", "exportAgain"}

ASSUME TrailAssumption ==
  /\ Zero \notin Transactions /\ Free \notin Transactions
  /\ NoClaim \notin Claims
  /\ Kinds \subseteq AllKinds

VARIABLES
  kind,            \* what each transaction is
  at,              \* the step of its program it is at
  subject,         \* the claim it works on
  orgLock,         \* what each transaction holds on the organization row
  claimLock,       \* who holds each claim's row
  draft,           \* the event append_audit has built
  trail,           \* the committed events, in the order of their commits
  outcome          \* how each transaction ended, if it has

locks == <<orgLock, claimLock>>
vars == <<kind, at, subject, locks, draft, trail, outcome>>

-----------------------------------------------------------------------------
(* Programs: lock the claim's row, lock the organization, insert rows that *)
(* refer to it, and append to the trail (AUDIT is append_audit's lock, READ *)
(* its second statement).  append_audit's first statement flushes what the *)
(* handler has added so far, so a handler that adds rows and then calls it *)
(* inserts before it locks.  An update takes no lock on the organization.  *)

Updates      == <<"AUDIT", "READ", "COMMIT">>
InsertsFirst == <<"INSERT", "AUDIT", "READ", "COMMIT">>
\* mutated form: the organization is locked where everyone else locks it
LocksFirstNot == <<"INSERT", "AUDIT", "READ", "COMMIT">>
LocksFirst   == <<"LOCK", "INSERT", "AUDIT", "READ", "COMMIT">>
ClaimUpdates == <<"CLAIM", "AUDIT", "READ", "COMMIT">>
ClaimInserts == <<"CLAIM", "INSERT", "AUDIT", "READ", "COMMIT">>

SubmitReport       == LocksFirst     \* expense, links, outbox event
UploadReceipt      == LocksFirst     \* receipt
RecordInspection   == Updates        \* the second transaction of an upload
ViewReceipt        == Updates
DraftPolicy        == InsertsFirst   \* policy version, sections, rules
PublishPolicy      == Updates        \* its locks on policy versions: PolicyPublication
AssessClaim        == ClaimInserts   \* attempt
DecideClaim        == ClaimInserts   \* decision
AnswerWithReceipts == ClaimInserts   \* links
AnswerWithPurpose  == ClaimUpdates
ExportClaim        == ClaimInserts   \* export
ExportAgain        == ClaimUpdates   \* after EXPORT_FAILED, whose export is kept

Program ==
  [submit |-> SubmitReport, upload |-> UploadReceipt, scanned |-> RecordInspection,
   view |-> ViewReceipt, draft |-> DraftPolicy, publish |-> PublishPolicy,
   assess |-> AssessClaim, decide |-> DecideClaim,
   answer |-> AnswerWithReceipts, explain |-> AnswerWithPurpose,
   export |-> ExportClaim, exportAgain |-> ExportAgain]

Step(t) == Program[kind[t]][at[t]]
Running(t) == outcome[t] = "RUNNING"
Doing(t, step) == Running(t) /\ Step(t) = step

-----------------------------------------------------------------------------
Events == [sequence : Nat \ {0}, by : Transactions, prior : Transactions \cup {Zero}]
NoDraft == [sequence |-> 0, by |-> Zero, prior |-> Zero]

TypeOK ==
  /\ kind \in [Transactions -> Kinds]
  /\ at \in [Transactions -> 1..5]
  /\ subject \in [Transactions -> Claims]
  /\ orgLock \in [Transactions -> {"NONE", "KEY SHARE", "UPDATE"}]
  /\ claimLock \in [Claims -> Transactions \cup {Free}]
  /\ draft \in [Transactions -> Events \cup {NoDraft}]
  /\ trail \in Seq(Events)
  /\ outcome \in [Transactions ->
       {"RUNNING", "COMMITTED", "FAILED", "DEADLOCK", "COLLISION"}]

Init ==
  /\ kind \in [Transactions -> Kinds]
  /\ at = [t \in Transactions |-> 1]
  /\ subject \in [Transactions -> Claims]
  /\ orgLock = [t \in Transactions |-> "NONE"]
  /\ claimLock = [c \in Claims |-> Free]
  /\ draft = [t \in Transactions |-> NoDraft]
  /\ trail = <<>>
  /\ outcome = [t \in Transactions |-> "RUNNING"]

-----------------------------------------------------------------------------
(* Locks.  A transaction waits until nobody else holds a conflicting lock; *)
(* one that already holds the row strengthens its own lock in place.       *)

Others(t) == Transactions \ {t}

\* mutated form: appending takes no lock, as before it was introduced
UpdateBlockersNone(t) == {}
UpdateBlockers(t) == {u \in Others(t) : orgLock[u] # "NONE"}
ShareBlockers(t) == {u \in Others(t) : orgLock[u] = "UPDATE"}
ClaimBlockers(t) == {u \in Others(t) : claimLock[subject[t]] = u}

Blockers(t) ==
  IF ~Running(t) THEN {}
  ELSE CASE Step(t) \in {"LOCK", "AUDIT"} -> UpdateBlockers(t)
         [] Step(t) = "INSERT" -> ShareBlockers(t)
         [] Step(t) = "CLAIM" -> ClaimBlockers(t)
         [] OTHER -> {}

(* t waits, through others, for itself: every set that holds the ones it   *)
(* waits for, and the ones they wait for, holds t.                         *)
InDeadlock(t) ==
  \A R \in SUBSET Transactions :
    Blockers(t) \subseteq R /\ (\A u \in R : Blockers(u) \subseteq R) => t \in R

-----------------------------------------------------------------------------
Advance(t) == at' = [at EXCEPT ![t] = @ + 1]

LockClaim(t) ==
  /\ Doing(t, "CLAIM")
  /\ Blockers(t) = {}
  /\ claimLock' = [claimLock EXCEPT ![subject[t]] = t]
  /\ Advance(t)
  /\ UNCHANGED <<kind, subject, orgLock, draft, trail, outcome>>

LockOrganization(t) ==
  /\ Doing(t, "LOCK") \/ Doing(t, "AUDIT")
  /\ Blockers(t) = {}
  /\ orgLock' = [orgLock EXCEPT ![t] = "UPDATE"]
  /\ Advance(t)
  /\ UNCHANGED <<kind, subject, claimLock, draft, trail, outcome>>

InsertRows(t) ==
  /\ Doing(t, "INSERT")
  /\ Blockers(t) = {}
  /\ orgLock' = [orgLock EXCEPT ![t] = IF @ = "UPDATE" THEN @ ELSE "KEY SHARE"]
  /\ Advance(t)
  /\ UNCHANGED <<kind, subject, claimLock, draft, trail, outcome>>

(* ORDER BY sequence DESC LIMIT 1, over what is committed now.             *)
LastEvent ==
  CHOOSE e \in {trail[i] : i \in DOMAIN trail} :
    \A i \in DOMAIN trail : trail[i].sequence <= e.sequence

\* mutated form: the event is linked to the last but one
NextEventSkips(t) ==
  IF trail = <<>> THEN [sequence |-> 1, by |-> t, prior |-> Zero]
  ELSE [sequence |-> LastEvent.sequence + 1, by |-> t, prior |-> LastEvent.prior]
\* mutated form: sequences start at zero
NextEventFromZero(t) ==
  IF trail = <<>> THEN [sequence |-> 0, by |-> t, prior |-> Zero]
  ELSE [sequence |-> LastEvent.sequence + 1, by |-> t, prior |-> LastEvent.by]
\* the writer of an event, which appends only one, stands for its hash
NextEvent(t) ==
  IF trail = <<>> THEN [sequence |-> 1, by |-> t, prior |-> Zero]
  ELSE [sequence |-> LastEvent.sequence + 1, by |-> t, prior |-> LastEvent.by]

ReadLast(t) ==
  /\ Doing(t, "READ")
  /\ draft' = [draft EXCEPT ![t] = NextEvent(t)]
  /\ Advance(t)
  /\ UNCHANGED <<kind, subject, locks, trail, outcome>>

-----------------------------------------------------------------------------
(* The end of a transaction, one way or another, releases its locks.       *)

Ends(t, how) ==
  /\ outcome' = [outcome EXCEPT ![t] = how]
  /\ orgLock' = [orgLock EXCEPT ![t] = "NONE"]
  /\ claimLock' = [c \in Claims |-> IF claimLock[c] = t THEN Free ELSE claimLock[c]]
  /\ UNCHANGED <<kind, at, subject, draft>>

\* UniqueConstraint("organization_id", "sequence")
Unique(e) == \A i \in DOMAIN trail : trail[i].sequence # e.sequence

\* the constraint turns the whole transaction down
Commit(t) ==
  /\ Doing(t, "COMMIT")
  /\ IF Unique(draft[t])
     THEN trail' = Append(trail, draft[t]) /\ Ends(t, "COMMITTED")
     ELSE UNCHANGED trail /\ Ends(t, "COLLISION")

\* a failing statement, an unreachable store, a process killed
Fail(t) ==
  /\ Running(t)
  /\ UNCHANGED trail
  /\ Ends(t, "FAILED")

\* PostgreSQL picks a transaction of the cycle and aborts it
Victim(t) ==
  /\ Running(t) /\ InDeadlock(t)
  /\ UNCHANGED trail
  /\ Ends(t, "DEADLOCK")

Proceed(t) ==
  LockClaim(t) \/ LockOrganization(t) \/ InsertRows(t) \/ ReadLast(t) \/ Commit(t)

Next ==
  \E t \in Transactions : Proceed(t) \/ Fail(t) \/ Victim(t)

Spec == Init /\ [][Next]_vars

-----------------------------------------------------------------------------
(* What verify_chain accepts, and more: each event is linked to the one    *)
(* before, sequences have no gap, and they follow the order of the         *)
(* commits, so that a reader never sees an event appear before one it has  *)
(* already read.                                                           *)
ChainVerifies ==
  \A i \in DOMAIN trail :
    /\ trail[i].sequence = i
    /\ trail[i].prior = IF i = 1 THEN Zero ELSE trail[i - 1].by

(* Two transactions never allocate the same sequence, which would throw    *)
(* away the whole change of the later one (append_audit's lock).           *)
NoCollision == \A t \in Transactions : outcome[t] # "COLLISION"

(* It takes two transactions that inserted before they locked to make a    *)
(* deadlock: both share the organization row and both ask for it alone.    *)
(* One that locks first, or inserts nothing, is never part of a deadlock,  *)
(* whatever the others do: the "one lock order" that upload_receipt's      *)
(* comment asks for.                                                       *)
Orderly == {"submit", "upload", "scanned", "view", "publish", "explain", "exportAgain"}
LockFirstIsSafe ==
  \A t \in Transactions : InDeadlock(t) =>
    /\ kind[t] \notin Orderly
    /\ \E u \in Others(t) : \A v \in {t, u} : Doing(v, "AUDIT") /\ orgLock[v] = "KEY SHARE"

(* Serializing the allocation of sequences is meant to end the races that  *)
(* roll a change back: no transaction is a deadlock's victim.              *)
NoVictim == \A t \in Transactions : outcome[t] # "DEADLOCK"
=============================================================================
