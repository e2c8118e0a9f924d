---------------------- MODULE PolicyPublicationProofs ----------------------
(***************************************************************************)
(* Proofs about PolicyPublication, for any number of sessions, keys,       *)
(* bodies and versions.  The argument has two halves that meet in the      *)
(* organization row: a publication holds the row of a DRAFT version until  *)
(* it commits (Drafting), a submission holds the organization row from     *)
(* before its first read until it commits (Submitting), and nothing        *)
(* changes a status or adds a claim while another session holds that row.  *)
(***************************************************************************)
EXTENDS PolicyPublication, TLAPS

(* Between the insert and the commit a number belongs to one session.      *)
Numbering ==
  \A s \in Sessions : phase[s] = "DRAFTED" =>
    /\ status[target[s]] = "NONE"
    /\ \A u \in Sessions \ {s} : phase[u] = "DRAFTED" => target[u] # target[s]

(* A version being published is a DRAFT that nobody else publishes; those  *)
(* it supersedes have been published before.                               *)
Publishing == {"LOCKED", "SEEN", "FLUSHED"}
Drafting ==
  \A s \in Sessions : phase[s] \in Publishing =>
    /\ status[target[s]] = "DRAFT"
    /\ \A u \in Sessions \ {s} : phase[u] \in Publishing => target[u] # target[s]
    /\ phase[s] # "LOCKED" =>
         \A v \in seen[s] : status[v] \in {"PUBLISHED", "SUPERSEDED"}

(* A submission holds the organization row; what it has read is still so.  *)
Submitting ==
  \A s \in Sessions :
    /\ phase[s] \in {"SUBMITTING", "PINNED"} => orgLock = s
    /\ phase[s] = "PINNED" => IsActive(target[s]) /\ Existing(request[s]) = {}

(* Every claim has a key of its own, and answers come from stored claims.  *)
Answering ==
  /\ \A c, d \in claims : c.key = d.key => c = d
  /\ \A a \in answered : a.claim \in claims /\ a.claim.key = a.request.key
                                            /\ a.claim.body = a.request.body

PolicyInv ==
  /\ TypeOK /\ Numbering /\ Drafting /\ Submitting
  /\ Answering /\ SomePolicyActive

-----------------------------------------------------------------------------
(* What a session may do next.                                             *)
Step(s) ==
  \/ Number(s) \/ InsertDraft(s) \/ CommitDraft(s)
  \/ \E v \in Versions : LockVersion(s, v)
  \/ SeePublished(s) \/ Flush(s) \/ CommitPublication(s)
  \/ \E r \in Requests : Begin(s, r)
  \/ AnswerAgain(s) \/ Pin(s) \/ CommitClaim(s)
  \/ Fail(s)

LEMMA TypeStays ==
  ASSUME PolicyInv, NEW s \in Sessions, Step(s)
  PROVE  TypeOK'
  <1> USE DEF PolicyInv, Goes, work
  <1>1. CASE Number(s)
    BY <1>1, PolicyAssumption DEF Number, Versions, TypeOK
  <1>2. CASE InsertDraft(s)
    BY <1>2 DEF InsertDraft, Insert, TypeOK
  <1>3. CASE CommitDraft(s)
    BY <1>3 DEF CommitDraft, TypeOK
  <1>4. ASSUME NEW v \in Versions, LockVersion(s, v) PROVE TypeOK'
    BY <1>4 DEF LockVersion, TypeOK
  <1>5. CASE SeePublished(s)
    BY <1>5 DEF SeePublished, Predecessors, Published, TypeOK
  <1>6. CASE Flush(s)
    BY <1>6 DEF Flush, TypeOK
  <1>7. CASE CommitPublication(s)
    BY <1>7 DEF CommitPublication, Relabelled, TypeOK
  <1>8. ASSUME NEW r \in Requests, Begin(s, r) PROVE TypeOK'
    BY <1>8 DEF Begin, Take, TypeOK
  <1>9. CASE AnswerAgain(s)
    BY <1>9 DEF AnswerAgain, Unlocked, Existing, TypeOK
  <1>10. CASE Pin(s)
    BY <1>10 DEF Pin, TypeOK
  <1>11. CASE CommitClaim(s)
    BY <1>11 DEF CommitClaim, Unlocked, Claims, Requests, TypeOK
  <1>12. CASE Fail(s)
    BY <1>12 DEF Fail, Unlocked, TypeOK
  <1> QED
    BY <1>1, <1>2, <1>3, <1>4, <1>5, <1>6, <1>7, <1>8, <1>9, <1>10, <1>11, <1>12 DEF Step

LEMMA NumberingStays ==
  ASSUME PolicyInv, NEW s \in Sessions, Step(s)
  PROVE  Numbering'
  <1> USE DEF PolicyInv, TypeOK, Numbering, Goes, work
  <1>1. CASE Number(s)
    BY <1>1 DEF Number
  <1>2. CASE InsertDraft(s)
    BY <1>2 DEF InsertDraft, Insert, Exists
  <1>3. CASE CommitDraft(s)
    BY <1>3 DEF CommitDraft
  <1>4. ASSUME NEW v \in Versions, LockVersion(s, v) PROVE Numbering'
    BY <1>4 DEF LockVersion
  <1>5. CASE SeePublished(s)
    BY <1>5 DEF SeePublished
  <1>6. CASE Flush(s)
    BY <1>6 DEF Flush
  <1>7. CASE CommitPublication(s)
    BY <1>7 DEF CommitPublication, Relabelled, Drafting, Publishing
  <1>8. ASSUME NEW r \in Requests, Begin(s, r) PROVE Numbering'
    BY <1>8 DEF Begin
  <1>9. CASE AnswerAgain(s)
    BY <1>9 DEF AnswerAgain
  <1>10. CASE Pin(s)
    BY <1>10 DEF Pin
  <1>11. CASE CommitClaim(s)
    BY <1>11 DEF CommitClaim
  <1>12. CASE Fail(s)
    BY <1>12 DEF Fail
  <1> QED
    BY <1>1, <1>2, <1>3, <1>4, <1>5, <1>6, <1>7, <1>8, <1>9, <1>10, <1>11, <1>12 DEF Step

LEMMA DraftingStays ==
  ASSUME PolicyInv, NEW s \in Sessions, Step(s)
  PROVE  Drafting'
  <1> USE DEF PolicyInv, TypeOK, Drafting, Publishing, Goes, work
  <1>1. CASE Number(s)
    BY <1>1 DEF Number
  <1>2. CASE InsertDraft(s)
    BY <1>2 DEF InsertDraft, Insert
  <1>3. CASE CommitDraft(s)
    BY <1>3 DEF CommitDraft, Numbering
  <1>4. ASSUME NEW v \in Versions, LockVersion(s, v) PROVE Drafting'
    BY <1>4 DEF LockVersion, RowsFree, Held
  <1>5. CASE SeePublished(s)
    BY <1>5 DEF SeePublished, Predecessors, Published
  <1>6. CASE Flush(s)
    BY <1>6 DEF Flush
  <1>7. CASE CommitPublication(s)
    BY <1>7 DEF CommitPublication, Relabelled
  <1>8. ASSUME NEW r \in Requests, Begin(s, r) PROVE Drafting'
    BY <1>8 DEF Begin
  <1>9. CASE AnswerAgain(s)
    BY <1>9 DEF AnswerAgain
  <1>10. CASE Pin(s)
    BY <1>10 DEF Pin
  <1>11. CASE CommitClaim(s)
    BY <1>11 DEF CommitClaim
  <1>12. CASE Fail(s)
    BY <1>12 DEF Fail
  <1> QED
    BY <1>1, <1>2, <1>3, <1>4, <1>5, <1>6, <1>7, <1>8, <1>9, <1>10, <1>11, <1>12 DEF Step

LEMMA SubmittingStays ==
  ASSUME PolicyInv, NEW s \in Sessions, Step(s)
  PROVE  Submitting'
  <1> USE DEF PolicyInv, TypeOK, Submitting, IsActive, Published, Existing, Goes, work
  <1>1. CASE Number(s)
    BY <1>1 DEF Number
  <1>2. CASE InsertDraft(s)
    BY <1>2 DEF InsertDraft, Insert
  <1>3. CASE CommitDraft(s)
    BY <1>3, PolicyAssumption DEF CommitDraft, MayCommit, Numbering
  <1>4. ASSUME NEW v \in Versions, LockVersion(s, v) PROVE Submitting'
    BY <1>4 DEF LockVersion
  <1>5. CASE SeePublished(s)
    BY <1>5 DEF SeePublished
  <1>6. CASE Flush(s)
    BY <1>6 DEF Flush
  <1>7. CASE CommitPublication(s)
    BY <1>7, PolicyAssumption DEF CommitPublication, MayCommit
  <1>8. ASSUME NEW r \in Requests, Begin(s, r) PROVE Submitting'
    BY <1>8, PolicyAssumption DEF Begin, Take
  <1>9. CASE AnswerAgain(s)
    BY <1>9 DEF AnswerAgain, Unlocked
  <1>10. CASE Pin(s)
    BY <1>10 DEF Pin
  <1>11. CASE CommitClaim(s)
    BY <1>11 DEF CommitClaim, Unlocked, MayCommit
  <1>12. CASE Fail(s)
    BY <1>12 DEF Fail, Unlocked
  <1> QED
    BY <1>1, <1>2, <1>3, <1>4, <1>5, <1>6, <1>7, <1>8, <1>9, <1>10, <1>11, <1>12 DEF Step

LEMMA AnsweringStays ==
  ASSUME PolicyInv, NEW s \in Sessions, Step(s)
  PROVE  (Answering /\ SomePolicyActive)'
  <1> USE DEF PolicyInv, TypeOK, Answering, SomePolicyActive, Published, work
  <1>1. CASE Number(s)
    BY <1>1 DEF Number
  <1>2. CASE InsertDraft(s)
    BY <1>2 DEF InsertDraft
  <1>3. CASE CommitDraft(s)
    BY <1>3 DEF CommitDraft, Numbering, Goes
  <1>4. ASSUME NEW v \in Versions, LockVersion(s, v) PROVE (Answering /\ SomePolicyActive)'
    BY <1>4 DEF LockVersion
  <1>5. CASE SeePublished(s)
    BY <1>5 DEF SeePublished
  <1>6. CASE Flush(s)
    BY <1>6 DEF Flush
  <1>7. CASE CommitPublication(s)
    BY <1>7 DEF CommitPublication, Relabelled
  <1>8. ASSUME NEW r \in Requests, Begin(s, r) PROVE (Answering /\ SomePolicyActive)'
    BY <1>8 DEF Begin
  <1>9. CASE AnswerAgain(s)
    BY <1>9 DEF AnswerAgain, Existing, Repeats
  <1>10. CASE Pin(s)
    BY <1>10 DEF Pin
  <1>11. CASE CommitClaim(s)
    BY <1>11 DEF CommitClaim, Existing, Claims, Requests
  <1>12. CASE Fail(s)
    BY <1>12 DEF Fail
  <1> QED
    BY <1>1, <1>2, <1>3, <1>4, <1>5, <1>6, <1>7, <1>8, <1>9, <1>10, <1>11, <1>12 DEF Step

-----------------------------------------------------------------------------
LEMMA PolicyInductive == Spec => []PolicyInv
  <1>1. Init => PolicyInv
    <2> SUFFICES ASSUME Init PROVE PolicyInv
      OBVIOUS
    <2> USE DEF Init
    <2>1. NoRequest \in Requests /\ 1 \in Versions
      BY PolicyAssumption DEF NoRequest, Versions
    <2>2. TypeOK
      BY <2>1 DEF TypeOK
    <2>3. Numbering /\ Drafting /\ Submitting
      BY DEF Numbering, Drafting, Submitting, Publishing
    <2>4. Answering /\ SomePolicyActive
      BY <2>1 DEF Answering, SomePolicyActive, Published
    <2> QED
      BY <2>2, <2>3, <2>4 DEF PolicyInv
  <1>2. PolicyInv /\ [Next]_vars => PolicyInv'
    <2> SUFFICES ASSUME PolicyInv, [Next]_vars PROVE PolicyInv'
      OBVIOUS
    <2>1. CASE Next
      <3>1. PICK s \in Sessions : Step(s)
        BY <2>1 DEF Next, Step
      <3> QED
        BY <3>1, TypeStays, NumberingStays, DraftingStays, SubmittingStays, AnsweringStays
        DEF PolicyInv
    <2>2. CASE UNCHANGED vars
      BY <2>2
      DEF vars, work, PolicyInv, TypeOK, Numbering, Drafting, Submitting, Answering,
          SomePolicyActive, IsActive, Published, Existing
    <2> QED
      BY <2>1, <2>2
  <1> QED
    BY <1>1, <1>2, PTL DEF Spec

(* Rows, sessions and answers keep their types.                            *)
THEOREM PolicyTypes == Spec => []TypeOK
  BY PolicyInductive, PTL DEF PolicyInv

(* A submission, however often repeated and whatever runs beside it, is    *)
(* answered with one stored claim of its own key and body, and never runs  *)
(* into uq_expense_actor_idempotency: the key it found free under the      *)
(* organization lock is free when it inserts.                              *)
THEOREM OneAnswer == Spec => []AnswersOwnRequest
  <1>1. PolicyInv => AnswersOwnRequest
    BY DEF PolicyInv, Answering, Submitting, AnswersOwnRequest
  <1> QED
    BY <1>1, PolicyInductive, PTL

(* Concurrent publications never leave the organization without a policy.  *)
THEOREM AlwaysSomePolicy == Spec => []SomePolicyActive
  BY PolicyInductive, PTL DEF PolicyInv

(* The version a claim is pinned to is the active one at its commit.       *)
THEOREM PinsTheActive == Spec => PinnedWhenActive
  <1>1. PolicyInv /\ [Next]_vars => [\A c \in claims' \ claims : IsActive(c.policy)]_vars
    <2> SUFFICES ASSUME PolicyInv, Next, NEW c \in claims' \ claims
                 PROVE  IsActive(c.policy)
      OBVIOUS
    <2>1. PICK s \in Sessions : Step(s)
      BY DEF Next, Step
    <2>2. CommitClaim(s)
      BY <2>1 DEF Step, Number, InsertDraft, CommitDraft, LockVersion, SeePublished, Flush,
                  CommitPublication, Begin, AnswerAgain, Pin, Fail
    <2>3. IsActive(target[s])
      BY <2>2 DEF CommitClaim, Goes, PolicyInv, Submitting
    <2>4. c.policy = target[s]
      BY <2>2 DEF CommitClaim
    <2> QED
      BY <2>3, <2>4
  <1> QED
    BY <1>1, PolicyInductive, PTL DEF Spec, PinnedWhenActive

(* Nobody brings a superseded version back, publishes one twice, or drafts *)
(* over an existing number.                                                *)
THEOREM AlwaysAdvance == Spec => VersionsAdvance
  <1> DEFINE Advance == \A v \in Versions : Rank(status[v]) <= Rank(status'[v])
  <1>1. PolicyInv /\ [Next]_vars => [Advance]_vars
    <2> SUFFICES ASSUME PolicyInv, Next PROVE Advance
      OBVIOUS
    <2>1. PICK s \in Sessions : Step(s)
      BY DEF Next, Step
    <2>2. \A v \in Versions : Rank(status[v]) \in 0..3
      BY DEF Rank
    <2>3. CASE CommitDraft(s)
      <3>1. status[target[s]] = "NONE" /\ target[s] \in Versions
        BY <2>3 DEF CommitDraft, Goes, PolicyInv, Numbering, TypeOK
      <3>2. status' = [status EXCEPT ![target[s]] = "DRAFT"]
        BY <2>3 DEF CommitDraft
      <3> QED
        BY <2>2, <3>1, <3>2 DEF Rank, PolicyInv, TypeOK
    <2>4. CASE CommitPublication(s)
      <3>1. /\ status[target[s]] = "DRAFT"
            /\ \A v \in seen[s] : status[v] \in {"PUBLISHED", "SUPERSEDED"}
        BY <2>4 DEF CommitPublication, Goes, PolicyInv, Drafting, Publishing
      <3>2. status' = [v \in Versions |-> Relabelled(s, v)]
        BY <2>4 DEF CommitPublication
      <3> QED
        BY <2>2, <3>1, <3>2 DEF Rank, Relabelled, PolicyInv, TypeOK
    <2>5. CASE ~CommitDraft(s) /\ ~CommitPublication(s)
      <3>1. status' = status
        BY <2>1, <2>5 DEF Step, Number, InsertDraft, LockVersion, SeePublished, Flush,
                          Begin, AnswerAgain, Pin, CommitClaim, Fail
      <3> QED
        BY <2>2, <3>1
    <2> QED
      BY <2>3, <2>4, <2>5
  <1> QED
    BY <1>1, PolicyInductive, PTL DEF Spec, VersionsAdvance

-----------------------------------------------------------------------------
(* How a version leaves force for good: it is superseded, or a higher one  *)
(* is PUBLISHED beside it that no publication under way has found without  *)
(* finding it too, so that whoever supersedes the one supersedes both.     *)
Overtaken(v) ==
  \E w \in Published :
    /\ w > v
    /\ \A s \in Sessions : phase[s] \in {"SEEN", "FLUSHED"} /\ w \in seen[s] => v \in seen[s]
Gone(v) == status[v] = "SUPERSEDED" \/ (v \in Published /\ Overtaken(v))

(* A version that is gone is not in force.                                 *)
LEMMA GoneIsInactive ==
  ASSUME NEW v \in Versions, Gone(v)
  PROVE  ~IsActive(v)
<1>1. CASE status[v] = "SUPERSEDED"
  BY <1>1 DEF IsActive, Published
<1>2. CASE Overtaken(v)
  BY <1>2 DEF Overtaken, IsActive, Published, Versions
<1> QED
  BY <1>1, <1>2 DEF Gone

(* The steps that neither look for PUBLISHED versions nor write statuses   *)
(* leave who is in force as it was.                                        *)
LEMMA OthersKeepForce ==
  ASSUME PolicyInv, NEW s \in Sessions, Step(s), ~CommitPublication(s), NEW v \in Versions
  PROVE  /\ IsActive(v) => IsActive(v)'
         /\ Gone(v) => Gone(v)'
  <1> USE DEF PolicyInv, TypeOK
  <1>1. Published' = Published /\ \A w \in Versions : status[w] = "SUPERSEDED" => status'[w] = status[w]
    <2>1. CASE CommitDraft(s)
      BY <2>1 DEF CommitDraft, Goes, Numbering, Published
    <2>2. CASE ~CommitDraft(s)
      <3>1. status' = status
        BY <2>2 DEF Step, Number, InsertDraft, LockVersion, SeePublished, Flush,
                    Begin, AnswerAgain, Pin, CommitClaim, Fail
      <3> QED
        BY <3>1 DEF Published
    <2> QED
      BY <2>1, <2>2
  <1>2. \A u \in Sessions : phase'[u] \in {"SEEN", "FLUSHED"} =>
          \/ seen'[u] = Published
          \/ phase[u] \in {"SEEN", "FLUSHED"} /\ seen'[u] = seen[u]
    BY DEF Step, Number, InsertDraft, Insert, CommitDraft, LockVersion, SeePublished, Predecessors,
           Flush, Begin, AnswerAgain, Pin, CommitClaim, Fail, Goes, work
  <1>3. IsActive(v) => IsActive(v)'
    BY <1>1 DEF IsActive
  <1>4. Gone(v) => Gone(v)'
    BY <1>1, <1>2 DEF Gone, Overtaken
  <1> QED
    BY <1>3, <1>4

(* A publication keeps its new version in force, or puts it behind another *)
(* one, and takes every other it found out of force for good.              *)
LEMMA PublicationMovesForce ==
  ASSUME PolicyInv, NEW s \in Sessions, CommitPublication(s), NEW v \in Versions
  PROVE  /\ IsActive(v) => IsActive(v)' \/ Gone(v)'
         /\ Gone(v) => Gone(v)'
  <1> USE DEF PolicyInv, TypeOK
  <1>1. /\ phase[s] = "FLUSHED" /\ target[s] \in Versions /\ status[target[s]] = "DRAFT"
        /\ \A u \in Sessions : phase'[u] \in {"SEEN", "FLUSHED"} =>
             u # s /\ phase'[u] = phase[u] /\ seen'[u] = seen[u]
    BY DEF CommitPublication, Goes, Drafting, Publishing, work
  <1>2. \A w \in Versions : status'[w] = Relabelled(s, w)
    BY DEF CommitPublication
  <1>3. /\ status'[target[s]] = "PUBLISHED"
        /\ \A w \in Versions \ {target[s]} :
             /\ w \in seen[s] => status'[w] = "SUPERSEDED"
             /\ w \notin seen[s] => status'[w] = status[w]
    BY <1>1, <1>2 DEF Relabelled
  <1>4. \A u \in Sessions : phase'[u] \in {"SEEN", "FLUSHED"} => target[s] \notin seen'[u]
    BY <1>1 DEF Drafting, Publishing
  <1>5. ASSUME v \in Published, v \notin seen[s]
        PROVE  v # target[s] /\ v \in Published'
    BY <1>1, <1>3, <1>5 DEF Published
  <1>6. ASSUME v \in Published, v \in seen[s]
        PROVE  status'[v] = "SUPERSEDED"
    BY <1>1, <1>3, <1>6 DEF Published
  <1>7. ASSUME IsActive(v) PROVE IsActive(v)' \/ Gone(v)'
    <2>1. CASE v \in seen[s]
      BY <1>6, <1>7, <2>1 DEF IsActive, Gone
    <2>2. CASE v \notin seen[s] /\ target[s] > v
      <3>1. target[s] \in Published'
        BY <1>1, <1>3 DEF Published
      <3> QED
        BY <1>4, <1>5, <1>7, <2>2, <3>1 DEF IsActive, Gone, Overtaken
    <2>3. CASE v \notin seen[s] /\ ~(target[s] > v)
      <3>1. \A w \in Published' : w \in Published \/ w = target[s]
        BY <1>3 DEF Published
      <3>2. v \in Int /\ target[s] \in Int
        BY <1>1, PolicyAssumption DEF Versions
      <3>3. \A w \in Published' : w <= v
        <4>1. \A w \in Published : w <= v
          BY <1>7 DEF IsActive
        <4>2. target[s] <= v
          BY <2>3, <3>2
        <4> HIDE DEF PolicyInv, TypeOK
        <4> QED
          BY <3>1, <4>1, <4>2
      <3> QED
        BY <1>5, <1>7, <2>3, <3>3 DEF IsActive
    <2> QED
      BY <2>1, <2>2, <2>3
  <1>8. ASSUME Gone(v) PROVE Gone(v)'
    <2>1. CASE status[v] = "SUPERSEDED"
      BY <1>1, <1>3, <2>1 DEF Gone
    <2>2. CASE v \in Published /\ v \in seen[s]
      BY <1>6, <2>2 DEF Gone
    <2>3. CASE v \in Published /\ v \notin seen[s]
      <3>1. PICK w \in Published :
              /\ w > v
              /\ \A u \in Sessions :
                   phase[u] \in {"SEEN", "FLUSHED"} /\ w \in seen[u] => v \in seen[u]
        BY <1>8, <2>3 DEF Gone, Overtaken, Published
      <3>2. w \notin seen[s]
        BY <1>1, <2>3, <3>1
      <3>3. w \in Published'
        BY <1>1, <1>3, <3>2 DEF Published
      <3> QED
        BY <1>1, <1>5, <2>3, <3>1, <3>3 DEF Gone, Overtaken
    <2> QED
      BY <1>8, <2>1, <2>2, <2>3 DEF Gone
  <1> QED
    BY <1>7, <1>8

(* A policy version is in force once: however publications overlap, none   *)
(* that another has replaced comes back.                                   *)
THEOREM InForceOnceOnly == Spec => InForceOnce
<1> SUFFICES ASSUME NEW v \in Versions
             PROVE  Spec => [](IsActive(v) => [](~IsActive(v) => []~IsActive(v)))
  BY DEF InForceOnce
<1>1. PolicyInv /\ [Next]_vars /\ IsActive(v) => IsActive(v)' \/ Gone(v)'
  <2> SUFFICES ASSUME PolicyInv, [Next]_vars, IsActive(v) PROVE IsActive(v)' \/ Gone(v)'
    OBVIOUS
  <2>1. CASE UNCHANGED vars
    BY <2>1 DEF vars, IsActive, Published
  <2>2. ASSUME NEW s \in Sessions, Step(s)
        PROVE  IsActive(v)' \/ Gone(v)'
    BY <2>2, OthersKeepForce, PublicationMovesForce
  <2> QED
    BY <2>1, <2>2 DEF Next, Step
<1>2. PolicyInv /\ [Next]_vars /\ Gone(v) => Gone(v)'
  <2> SUFFICES ASSUME PolicyInv, [Next]_vars, Gone(v) PROVE Gone(v)'
    OBVIOUS
  <2>1. CASE UNCHANGED vars
    BY <2>1 DEF vars, work, Gone, Overtaken, Published
  <2>2. ASSUME NEW s \in Sessions, Step(s)
        PROVE  Gone(v)'
    BY <2>2, OthersKeepForce, PublicationMovesForce
  <2> QED
    BY <2>1, <2>2 DEF Next, Step
<1>3. Gone(v) => ~IsActive(v)
  BY GoneIsInactive
<1> QED
  BY <1>1, <1>2, <1>3, PolicyInductive, PTL DEF Spec
=============================================================================
