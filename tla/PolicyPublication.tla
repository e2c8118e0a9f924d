------------------------- MODULE PolicyPublication -------------------------
(***************************************************************************)
(* The policy versions of one organization, and the submissions that pin   *)
(* the active one.  Requests run concurrently, each in a transaction of    *)
(* its own: an administrator drafts a version or publishes one, an         *)
(* employee submits a claim and may send the request again.                *)
(*                                                                         *)
(* A submission locks the organization row before it reads anything.  A    *)
(* draft or a publication reads first and locks that row only when         *)
(* append_audit does, right before its commit; what keeps publications     *)
(* apart until then is the lock on the row of the version published.       *)
(***************************************************************************)
EXTENDS Integers

CONSTANTS
  Sessions,        \* requests served at the same time
  Keys,            \* idempotency keys, scoped to a submitter
  Bodies,          \* what a request asks for; its hash tells bodies apart
  MaxVersion       \* bound: policy versions

Nobody == "nobody"
Versions == 1..MaxVersion
Requests == [key : Keys, body : Bodies]
NoRequest == CHOOSE r \in Requests : TRUE

ASSUME PolicyAssumption ==
  /\ MaxVersion \in Nat \ {0}
  /\ Nobody \notin Sessions
  /\ Requests # {}

VARIABLES
  status,          \* status[v]: policy_versions.status, "NONE" without a row
  claims,          \* the committed claims, with the version each is pinned to
  orgLock,         \* who holds the organization row
  phase,           \* where each session's request is
  target,          \* the version it drafts, publishes or pins
  seen,            \* the versions a publication has found PUBLISHED
  request,         \* the submission it serves
  answered         \* submissions answered with a claim, and the claim

work == <<target, seen, request>>
vars == <<status, claims, orgLock, phase, work, answered>>

Claims == [key : Keys, body : Bodies, policy : Versions]

TypeOK ==
  /\ status \in [Versions -> {"NONE", "DRAFT", "PUBLISHED", "SUPERSEDED"}]
  /\ claims \in SUBSET Claims
  /\ orgLock \in Sessions \cup {Nobody}
  /\ phase \in [Sessions -> {"IDLE", "NUMBERED", "DRAFTED", "LOCKED", "SEEN",
                             "FLUSHED", "SUBMITTING", "PINNED"}]
  /\ target \in [Sessions -> Versions]
  /\ seen \in [Sessions -> SUBSET Versions]
  /\ request \in [Sessions -> Requests]
  /\ answered \in SUBSET [request : Requests, claim : Claims]

Published == {v \in Versions : status[v] = "PUBLISHED"}
Exists(v) == status[v] # "NONE"

\* active_policy: of the PUBLISHED versions the one with the highest number
IsActive(v) == v \in Published /\ \A w \in Published : w <= v

\* an organization begins with its seeded first version
Init ==
  /\ status = [v \in Versions |-> IF v = 1 THEN "PUBLISHED" ELSE "NONE"]
  /\ claims = {}
  /\ orgLock = Nobody
  /\ phase = [s \in Sessions |-> "IDLE"]
  /\ target = [s \in Sessions |-> 1]
  /\ seen = [s \in Sessions |-> {}]
  /\ request = [s \in Sessions |-> NoRequest]
  /\ answered = {}

Goes(s, from, to) == phase[s] = from /\ phase' = [phase EXCEPT ![s] = to]

\* a session's commit appends to the audit trail, under the organization lock
MayCommit(s) == orgLock \in {Nobody, s}
Unlocked(s) == IF orgLock = s THEN Nobody ELSE orgLock

-----------------------------------------------------------------------------
(* create_policy: the next number is read without a lock.  The insert waits *)
(* for an uncommitted row of the same number, and fails on a committed one. *)

Number(s) ==
  /\ Goes(s, "IDLE", "NUMBERED")
  /\ \E v \in Versions :
       /\ Exists(v) /\ \A w \in Versions : Exists(w) => w <= v
       /\ v < MaxVersion
       /\ target' = [target EXCEPT ![s] = v + 1]
  /\ UNCHANGED <<status, claims, orgLock, seen, request, answered>>

\* mutated form: without the unique constraint
InsertDuplicate(s) == Goes(s, "NUMBERED", "DRAFTED")
Insert(s) ==
  /\ \A u \in Sessions \ {s} : phase[u] = "DRAFTED" => target[u] # target[s]
  /\ Goes(s, "NUMBERED", IF Exists(target[s]) THEN "IDLE" ELSE "DRAFTED")

InsertDraft(s) ==
  /\ Insert(s)
  /\ UNCHANGED <<status, claims, orgLock, work, answered>>

CommitDraft(s) ==
  /\ Goes(s, "DRAFTED", "IDLE")
  /\ MayCommit(s)
  /\ status' = [status EXCEPT ![target[s]] = "DRAFT"]
  /\ UNCHANGED <<claims, orgLock, work, answered>>

-----------------------------------------------------------------------------
(* publish_policy: lock the version, find the PUBLISHED ones, write them    *)
(* all when append_audit's first query flushes, commit.                     *)

Held(u) == CASE phase[u] \in {"LOCKED", "SEEN"} -> {target[u]}
             [] phase[u] = "FLUSHED" -> {target[u]} \cup seen[u]
             [] OTHER -> {}
\* mutated form: the version is read without with_for_update
RowsFreeIgnored(s, rows) == TRUE
RowsFree(s, rows) == \A u \in Sessions \ {s} : Held(u) \cap rows = {}

\* a version that is not DRAFT is refused with 409
LockVersion(s, v) ==
  /\ Goes(s, "IDLE", "LOCKED")
  /\ RowsFree(s, {v})
  /\ status[v] = "DRAFT"
  /\ target' = [target EXCEPT ![s] = v]
  /\ UNCHANGED <<status, claims, orgLock, seen, request, answered>>

\* mutated form: only the version active_policy would name is superseded
PredecessorActive == {v \in Published : IsActive(v)}
Predecessors == Published

SeePublished(s) ==
  /\ Goes(s, "LOCKED", "SEEN")
  /\ seen' = [seen EXCEPT ![s] = Predecessors]
  /\ UNCHANGED <<status, claims, orgLock, target, request, answered>>

Flush(s) ==
  /\ Goes(s, "SEEN", "FLUSHED")
  /\ RowsFree(s, seen[s])
  /\ UNCHANGED <<status, claims, orgLock, work, answered>>

\* mutated form: the status written is not the one active_policy looks for
RelabelledActive(s, v) == IF v = target[s] THEN "ACTIVE" ELSE status[v]
\* mutated form: the version is published before the others are superseded,
\* and so found among them
RelabelledItself(s, v) ==
  IF v \in seen[s] \cup {target[s]} THEN "SUPERSEDED" ELSE status[v]
Relabelled(s, v) ==
  CASE v = target[s] -> "PUBLISHED"
    [] v \in seen[s] \ {target[s]} -> "SUPERSEDED"
    [] OTHER -> status[v]

CommitPublication(s) ==
  /\ Goes(s, "FLUSHED", "IDLE")
  /\ MayCommit(s)
  /\ status' = [v \in Versions |-> Relabelled(s, v)]
  /\ UNCHANGED <<claims, orgLock, work, answered>>

-----------------------------------------------------------------------------
(* submit_expense and submit_expense_report, up to what they have in        *)
(* common.                                                                  *)

\* mutated form: the organization row is not locked
TakeNot(s) == UNCHANGED orgLock
Take(s) == orgLock = Nobody /\ orgLock' = s

Begin(s, r) ==
  /\ Goes(s, "IDLE", "SUBMITTING")
  /\ Take(s)
  /\ request' = [request EXCEPT ![s] = r]
  /\ UNCHANGED <<status, claims, target, seen, answered>>

Existing(r) == {c \in claims : c.key = r.key}
\* mutated form: the request hash is not compared
RepeatsKey(c, r) == c.key = r.key
Repeats(c, r) == c.key = r.key /\ c.body = r.body

(* A known key is answered with its claim, or refused; nothing is written. *)
(* This step and Fail are the close of the session, where get_session ends *)
(* the transaction and its locks: until then a handler that has answered,  *)
(* or raised, stands where it was and holds what it held.                  *)
AnswerAgain(s) ==
  /\ Goes(s, "SUBMITTING", "IDLE")
  /\ \E c \in Existing(request[s]) :
       answered' = IF Repeats(c, request[s])
                   THEN answered \cup {[request |-> request[s], claim |-> c]} ELSE answered
  /\ orgLock' = Unlocked(s)
  /\ UNCHANGED <<status, claims, work>>

(* active_policy; without one the submission is refused, which is Fail.    *)
Pin(s) ==
  /\ Goes(s, "SUBMITTING", "PINNED")
  /\ Existing(request[s]) = {}
  /\ \E v \in Versions : IsActive(v) /\ target' = [target EXCEPT ![s] = v]
  /\ UNCHANGED <<status, claims, orgLock, seen, request, answered>>

(* The insert fails where uq_expense_actor_idempotency finds the key taken. *)
CommitClaim(s) ==
  /\ Goes(s, "PINNED", "IDLE")
  /\ MayCommit(s)
  /\ LET claim == [key |-> request[s].key, body |-> request[s].body, policy |-> target[s]]
     IN IF Existing(request[s]) = {}
        THEN /\ claims' = claims \cup {claim}
             /\ answered' = answered \cup {[request |-> request[s], claim |-> claim]}
        ELSE UNCHANGED <<claims, answered>>
  /\ orgLock' = Unlocked(s)
  /\ UNCHANGED <<status, work>>

(* Any request may fail before it commits; its session closes.             *)
Fail(s) ==
  /\ phase[s] # "IDLE"
  /\ phase' = [phase EXCEPT ![s] = "IDLE"]
  /\ orgLock' = Unlocked(s)
  /\ UNCHANGED <<status, claims, work, answered>>

-----------------------------------------------------------------------------
Next ==
  \E s \in Sessions :
    \/ Number(s) \/ InsertDraft(s) \/ CommitDraft(s)
    \/ \E v \in Versions : LockVersion(s, v)
    \/ SeePublished(s) \/ Flush(s) \/ CommitPublication(s)
    \/ \E r \in Requests : Begin(s, r)
    \/ AnswerAgain(s) \/ Pin(s) \/ CommitClaim(s)
    \/ Fail(s)

Spec == Init /\ [][Next]_vars

-----------------------------------------------------------------------------
(* A claim is pinned to the version that is active when it commits, not to *)
(* one superseded between the read of active_policy and the commit.        *)
PinnedWhenActive ==
  [][\A c \in claims' \ claims : IsActive(c.policy)]_vars

(* Every submission is answered with a stored claim of its own key and     *)
(* body, and always with the same one; and a request that goes on to       *)
(* insert has a key no claim has, so that a repeated submission never gets *)
(* an error from the unique constraint.                                    *)
AnswersOwnRequest ==
  /\ \A a \in answered : a.claim \in claims /\ a.claim.key = a.request.key
                                            /\ a.claim.body = a.request.body
  /\ \A a, b \in answered : a.request = b.request => a.claim = b.claim
  /\ \A s \in Sessions : phase[s] = "PINNED" => Existing(request[s]) = {}

(* A version goes from DRAFT to PUBLISHED to SUPERSEDED and never back:    *)
(* two administrators who publish it at once do not bring a superseded     *)
(* version back, and a draft's number is never drafted over.               *)
Rank(word) == CASE word = "NONE" -> 0 [] word = "DRAFT" -> 1
                [] word = "PUBLISHED" -> 2 [] OTHER -> 3
VersionsAdvance == [][\A v \in Versions : Rank(status[v]) <= Rank(status'[v])]_vars

(* A version is in force for one stretch of time: once another takes over, *)
(* it never comes back, though publications overlap, leave two versions    *)
(* PUBLISHED behind each other and may publish a lower number last.        *)
InForceOnce ==
  \A v \in Versions : [](IsActive(v) => [](~IsActive(v) => []~IsActive(v)))

(* Publications that supersede what they found PUBLISHED never leave an    *)
(* organization without a policy, which would refuse every submission.     *)
SomePolicyActive == Published # {}
=============================================================================
