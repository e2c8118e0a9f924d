----------------------- MODULE AssessmentDeliveryProofs -----------------------
(***************************************************************************)
(* Proofs about AssessmentDelivery, for any number of claims, workers,     *)
(* revisions and crashes.  A submitted claim is looked after (Cared) by a  *)
(* job, or by an event no relay has enqueued yet (Due): a relay publishes  *)
(* an event only after it saw a job waiting for its claim, and a job ends  *)
(* without an assessment only when its retries are used up, which takes    *)
(* more faults than retries, because every retry takes one (Budget).       *)
(***************************************************************************)
EXTENDS AssessmentDelivery, FiniteSetTheorems, SequenceTheorems, TLAPS

Cared(c) ==
  \/ waiting[c] # NoJob
  \/ running[c].phase = "FETCHED"
  \/ Abandoned(c)

Due(c, i) ==
  /\ outbox[i].claim = c /\ outbox[i].revision = revision[c] /\ ~outbox[i].published
  /\ \A w \in Workers : i \in relay[w].events => i \in relay[w].left

Watched == \A c \in Claims : Submitted(c) => Cared(c) \/ \E i \in DOMAIN outbox : Due(c, i)

(* No job has been retried more often than there were faults.              *)
Budget == \A c \in Claims : waiting[c].tries <= faults /\ running[c].tries <= faults

(* What it takes to abandon a claim.                                       *)
Reasons ==
  \A c \in Claims :
    /\ spent[c] # 0 => faults > MaxAttempts
    /\ running[c].phase = "STUCK" =>
         crashes > 0 \/ (faults > 0 /\ "STUCK" \in CollisionOutcomes)

DeliveryInv == TypeOK /\ OneRelayPerEvent

JobRow == [tries : -1..MaxAttempts]
RunRow == [phase : {"NONE", "FETCHED", "EXECUTED", "STUCK"},
           tries : 0..MaxAttempts, worker : Workers \cup {"none"}]
EventRow == [claim : Claims, revision : 1..MaxRevision, published : BOOLEAN]

-----------------------------------------------------------------------------
LEMMA EventChanges ==
  ASSUME outbox \in Seq(EventRow), NEW events, Publish(events)
  PROVE  /\ outbox' \in Seq(EventRow)
         /\ DOMAIN outbox' = DOMAIN outbox
         /\ \A i \in DOMAIN outbox :
              /\ outbox'[i].claim = outbox[i].claim
              /\ outbox'[i].revision = outbox[i].revision
              /\ outbox'[i].published = (outbox[i].published \/ i \in events)
  <1>1. \A i \in DOMAIN outbox : outbox[i] \in EventRow
    BY ElementOfSeq, LenProperties
  <1>2. \A i \in DOMAIN outbox :
          outbox'[i] = IF i \in events THEN [outbox[i] EXCEPT !.published = TRUE] ELSE outbox[i]
    BY DEF Publish
  <1>3. \A i \in DOMAIN outbox : outbox'[i] \in EventRow
    BY <1>1, <1>2 DEF EventRow
  <1>4. DOMAIN outbox = 1..Len(outbox) /\ Len(outbox) \in Nat
    BY LenProperties
  <1>5. outbox' = [i \in 1..Len(outbox) |-> outbox'[i]]
    BY <1>4 DEF Publish
  <1>6. outbox' \in Seq(EventRow)
    BY <1>3, <1>4, <1>5, IsASeq
  <1>7. DOMAIN outbox' = DOMAIN outbox
    BY DEF Publish
  <1> QED
    BY <1>1, <1>2, <1>6, <1>7 DEF EventRow

(* A deferral leaves a job waiting, and the jobs that waited as they were. *)
LEMMA DeferWaits ==
  ASSUME TypeOK, NEW c \in Claims, Defer(c)
  PROVE  /\ waiting' \in [Claims -> JobRow]
         /\ waiting'[c] # NoJob
         /\ \A d \in Claims : waiting[d] # NoJob => waiting'[d] = waiting[d]
         /\ \A d \in Claims : waiting'[d] = waiting[d] \/ waiting'[d].tries = 0
  <1>1. Job(0) \in JobRow /\ Job(0) # NoJob /\ Job(0).tries = 0
    <2>1. Job(0).tries = 0 /\ NoJob.tries = -1
      BY DEF Job, NoJob
    <2> QED
      BY <2>1, DeliveryAssumption DEF Job, NoJob, JobRow
  <1> QED
    BY <1>1 DEF TypeOK, Defer, JobRow

LEMMA RelayTypes ==
  ASSUME TypeOK, NEW w \in Workers, RelayStep(w) \/ RelayFails(w) \/ Crash(w)
  PROVE  TypeOK'
  <1>1. /\ outbox \in Seq(EventRow) /\ relay \in [Workers -> [events : SUBSET DOMAIN outbox, left : SUBSET DOMAIN outbox]]
    BY DEF TypeOK, EventRow
  <1>2. CASE RelaySelect(w)
    BY <1>2 DEF RelaySelect, TypeOK, Oldest, Unpublished, claimVars, jobVars
  <1>3. CASE RelayDefer(w)
    <2>1. PICK i \in relay[w].left :
            /\ Defer(outbox[i].claim)
            /\ relay' = [relay EXCEPT ![w] = [events |-> @.events, left |-> @.left \ {i}]]
            /\ UNCHANGED <<claimVars, outbox, calls, running, spent, faults, crashes>>
      BY <1>3 DEF RelayDefer
    <2>2. outbox[i].claim \in Claims
      <3>1. i \in DOMAIN outbox
        BY <1>1
      <3>2. outbox[i] \in EventRow
        BY <1>1, <3>1, ElementOfSeq, LenProperties
      <3> QED
        BY <3>2 DEF EventRow
    <2>3. waiting' \in [Claims -> JobRow]
      BY <2>1, <2>2, DeferWaits
    <2> QED
      BY <1>1, <2>1, <2>3 DEF TypeOK, JobRow, claimVars
  <1>4. CASE RelayCommit(w)
    <2>1. outbox' \in Seq(EventRow) /\ DOMAIN outbox' = DOMAIN outbox
      BY <1>1, <1>4, EventChanges DEF RelayCommit
    <2>2. relay' \in [Workers -> [events : SUBSET DOMAIN outbox, left : SUBSET DOMAIN outbox]]
      BY <1>1, <1>4 DEF RelayCommit, NoBatch
    <2> QED
      BY <1>4, <2>1, <2>2 DEF RelayCommit, TypeOK, EventRow, claimVars, jobVars
  <1>5. CASE RelayFails(w)
    <2>1. faults' \in 0..MaxFaults
      BY <1>5, DeliveryAssumption DEF RelayFails, TypeOK
    <2>2. relay' \in [Workers -> [events : SUBSET DOMAIN outbox, left : SUBSET DOMAIN outbox]]
      BY <1>1, <1>5 DEF RelayFails, Abort, NoBatch
    <2> QED
      BY <1>5, <2>1, <2>2 DEF RelayFails, Abort, TypeOK, claimVars, jobVars
  <1>6. CASE Crash(w)
    <2>1. running' \in [Claims -> RunRow]
      <3>1. \A c \in Claims : running[c] \in RunRow
        BY DEF TypeOK, RunRow
      <3>2. \A c \in Claims : [running[c] EXCEPT !.phase = "STUCK", !.worker = "none"] \in RunRow
        BY <3>1 DEF RunRow
      <3>3. \A c \in Claims :
              (IF running[c].worker = w
               THEN [running[c] EXCEPT !.phase = "STUCK", !.worker = "none"] ELSE running[c]) \in RunRow
        BY <3>1, <3>2
      <3>4. running' = [c \in Claims |->
              IF running[c].worker = w
              THEN [running[c] EXCEPT !.phase = "STUCK", !.worker = "none"] ELSE running[c]]
        BY <1>6 DEF Crash
      <3> HIDE DEF RunRow
      <3> QED
        BY <3>3, <3>4
    <2>2. relay' \in [Workers -> [events : SUBSET DOMAIN outbox, left : SUBSET DOMAIN outbox]]
      BY <1>1, <1>6 DEF Crash, NoBatch
    <2>3. crashes' \in 0..MaxCrashes
      <3>1. crashes \in 0..MaxCrashes /\ crashes < MaxCrashes /\ crashes' = crashes + 1
        BY <1>6 DEF Crash, TypeOK
      <3> QED
        BY <3>1, DeliveryAssumption
    <2> QED
      BY <1>6, <2>1, <2>2, <2>3 DEF Crash, TypeOK, RunRow, claimVars
  <1> QED
    BY <1>2, <1>3, <1>4, <1>5, <1>6 DEF RelayStep

LEMMA SubmitTypes ==
  ASSUME TypeOK, NEW c \in Claims, Submit(c)
  PROVE  /\ TypeOK'
         /\ DOMAIN outbox' = DOMAIN outbox \cup {Len(outbox) + 1}
         /\ Len(outbox) + 1 \notin DOMAIN outbox
         /\ \A i \in DOMAIN outbox : outbox'[i] = outbox[i]
         /\ outbox'[Len(outbox) + 1] = Event(c)
  <1>1. outbox \in Seq(EventRow)
    BY DEF TypeOK, EventRow
  <1>2. revision[c] + 1 \in 1..MaxRevision /\ revision[c] \in 0..MaxRevision
    BY DeliveryAssumption DEF TypeOK, Submit
  <1>3. Event(c) \in EventRow
    BY <1>2 DEF Event, EventRow
  <1>4. outbox' = Append(outbox, Event(c))
    BY DEF Submit
  <1>5. /\ outbox' \in Seq(EventRow)
        /\ DOMAIN outbox' = DOMAIN outbox \cup {Len(outbox) + 1}
        /\ Len(outbox) + 1 \notin DOMAIN outbox
        /\ \A i \in DOMAIN outbox : outbox'[i] = outbox[i]
        /\ outbox'[Len(outbox) + 1] = Event(c)
    BY <1>1, <1>3, <1>4, AppendProperties, LenProperties
  <1>6. revision' \in [Claims -> 0..MaxRevision] /\ \A d \in Claims : revision[d] <= revision'[d]
    BY <1>2 DEF Submit, TypeOK
  <1>7. calls' \in SUBSET [claim : Claims, revision : 1..MaxRevision]
    BY <1>2 DEF Submit, TypeOK
  <1>8. /\ assessed' = assessed /\ waiting' = waiting /\ running' = running
        /\ spent' = spent /\ relay' = relay /\ faults' = faults /\ crashes' = crashes
    BY DEF Submit, jobVars
  <1>9. \A d \in Claims : assessed'[d] <= revision'[d]
    BY <1>6, <1>8, DeliveryAssumption DEF TypeOK
  <1>10. relay' \in [Workers -> [events : SUBSET DOMAIN outbox', left : SUBSET DOMAIN outbox']]
    BY <1>5, <1>8 DEF TypeOK
  <1>11. TypeOK'
    BY <1>5, <1>6, <1>7, <1>8, <1>9, <1>10 DEF TypeOK, EventRow
  <1> QED
    BY <1>5, <1>11

LEMMA JobTypes ==
  ASSUME TypeOK,
         \/ \E c \in Claims : Execute(c) \/ Finish(c) \/ ExecuteFails(c) \/ FetchStep(c)
         \/ \E call \in calls : CallDefers(call) \/ CallLost(call)
         \/ UNCHANGED vars
  PROVE  TypeOK'
  <1>1. ASSUME NEW c \in Claims, Execute(c)
        PROVE  TypeOK'
    <2>1. running' \in [Claims -> RunRow]
      BY <1>1 DEF Execute, TypeOK, RunRow
    <2>2. assessed' \in [Claims -> 0..MaxRevision] /\ \A d \in Claims : assessed'[d] <= revision[d]
      <3>1. /\ revision \in [Claims -> 0..MaxRevision] /\ assessed \in [Claims -> 0..MaxRevision]
            /\ \A d \in Claims : assessed[d] <= revision[d]
            /\ assessed' = [assessed EXCEPT ![c] = revision[c]]
        BY <1>1 DEF Execute, TypeOK
      <3> QED
        BY <3>1, DeliveryAssumption
    <2> QED
      BY <1>1, <2>1, <2>2 DEF Execute, TypeOK, RunRow
  <1>2. Idle \in RunRow
    BY DeliveryAssumption DEF Idle, RunRow
  <1>3. ASSUME NEW c \in Claims, Finish(c)
        PROVE  TypeOK'
    BY <1>2, <1>3 DEF Finish, TypeOK, RunRow, claimVars
  <1>4. ASSUME NEW c \in Claims, ExecuteFails(c)
        PROVE  TypeOK'
    <2>1. running[c] \in RunRow /\ running[c].tries \in 0..MaxAttempts
      BY DEF TypeOK, RunRow
    <2>2. running[c].tries < MaxAttempts => Job(running[c].tries + 1) \in JobRow
      BY <2>1, DeliveryAssumption DEF Job, JobRow
    <2>3. waiting' \in [Claims -> JobRow]
      BY <1>4, <2>2 DEF ExecuteFails, Retry, TypeOK, JobRow
    <2>4. [running[c] EXCEPT !.phase = "STUCK", !.worker = "none"] \in RunRow
      BY <2>1 DEF RunRow
    <2>5. running' \in [Claims -> RunRow]
      <3>1. running \in [Claims -> RunRow]
        BY DEF TypeOK, RunRow
      <3>2. \E row \in RunRow : running' = [running EXCEPT ![c] = row]
        BY <1>2, <1>4, <2>4 DEF ExecuteFails, Retry
      <3> QED
        BY <3>1, <3>2
    <2>6. spent' \in [Claims -> 0..MaxRevision]
      BY <1>4 DEF ExecuteFails, Retry, TypeOK
    <2>7. faults' \in 0..MaxFaults
      BY <1>4, DeliveryAssumption DEF ExecuteFails, TypeOK
    <2> QED
      BY <1>4, <2>3, <2>5, <2>6, <2>7 DEF ExecuteFails, TypeOK, JobRow, RunRow, claimVars
  <1>5. ASSUME NEW c \in Claims, FetchStep(c)
        PROVE  TypeOK'
    <2>1. PICK w \in Workers : Fetch(w, c)
      BY <1>5 DEF FetchStep
    <2>2. waiting[c].tries \in 0..MaxAttempts
      <3>1. waiting[c] \in JobRow /\ waiting[c] # NoJob
        BY <2>1 DEF Fetch, TypeOK, JobRow
      <3>2. waiting[c].tries # -1
        BY <3>1 DEF JobRow, NoJob
      <3> QED
        BY <3>1, <3>2, DeliveryAssumption DEF JobRow
    <2>3. [phase |-> "FETCHED", tries |-> waiting[c].tries, worker |-> w] \in RunRow
      BY <2>2 DEF RunRow
    <2>4. running' \in [Claims -> RunRow] /\ waiting' \in [Claims -> JobRow]
      BY <2>1, <2>3, DeliveryAssumption DEF Fetch, TypeOK, RunRow, JobRow, NoJob
    <2> QED
      BY <2>1, <2>4 DEF Fetch, TypeOK, RunRow, JobRow, claimVars
  <1>6. ASSUME NEW call \in calls, CallDefers(call)
        PROVE  TypeOK'
    <2>1. call.claim \in Claims /\ Defer(call.claim)
      BY <1>6 DEF TypeOK, CallDefers
    <2>2. waiting' \in [Claims -> JobRow]
      BY <2>1, DeferWaits
    <2> QED
      BY <1>6, <2>2 DEF CallDefers, TypeOK, JobRow, claimVars
  <1>7. ASSUME NEW call \in calls, CallLost(call)
        PROVE  TypeOK'
    BY <1>7 DEF CallLost, TypeOK, claimVars, jobVars
  <1>8. CASE UNCHANGED vars
    BY <1>8 DEF vars, TypeOK, claimVars, jobVars
  <1> QED
    BY <1>1, <1>3, <1>4, <1>5, <1>6, <1>7, <1>8

-----------------------------------------------------------------------------
(* The events of two open relays are disjoint: a relay takes what is not   *)
(* locked, and otherwise keeps its batch or drops it.                      *)
LEMMA BatchesApart ==
  ASSUME TypeOK, OneRelayPerEvent, [Next]_vars
  PROVE  OneRelayPerEvent'
  <1>1. relay \in [Workers -> [events : SUBSET DOMAIN outbox, left : SUBSET DOMAIN outbox]]
    BY DEF TypeOK
  <1>2. ASSUME NEW w \in Workers, RelaySelect(w)
        PROVE  OneRelayPerEvent'
    <2>1. Oldest(Unpublished) \subseteq Unpublished
      BY DEF Oldest
    <2>2. \A v \in Workers : relay[v].events \cap Oldest(Unpublished) = {}
      BY <2>1 DEF Unpublished, Locked
    <2>3. \A v \in Workers : relay'[v].events = IF v = w THEN Oldest(Unpublished) ELSE relay[v].events
      BY <1>1, <1>2 DEF RelaySelect
    <2> QED
      BY <2>2, <2>3 DEF OneRelayPerEvent
  <1>3. ASSUME NEW w \in Workers, RelayDefer(w) \/ RelayCommit(w) \/ RelayFails(w) \/ Crash(w)
        PROVE  OneRelayPerEvent'
    <2>1. \A v \in Workers : relay'[v].events \subseteq relay[v].events
      <3>1. CASE RelayDefer(w)
        BY <1>1, <3>1 DEF RelayDefer
      <3>2. CASE RelayCommit(w) \/ RelayFails(w) \/ Crash(w)
        <4>1. relay' = [relay EXCEPT ![w] = NoBatch]
          BY <3>2 DEF RelayCommit, RelayFails, Abort, Crash
        <4> QED
          BY <1>1, <4>1 DEF NoBatch
      <3> QED
        BY <1>3, <3>1, <3>2
    <2> QED
      BY <2>1 DEF OneRelayPerEvent
  <1>4. CASE relay' = relay
    BY <1>4 DEF OneRelayPerEvent
  <1> QED
    BY <1>2, <1>3, <1>4
    DEF Next, RelayStep, FetchStep, Fetch, Submit, Execute, Finish, ExecuteFails, CallDefers,
        CallLost, vars

LEMMA DeliveryInvariant == Spec => []DeliveryInv
  <1>1. Init => DeliveryInv
    BY EmptySeq, DeliveryAssumption
    DEF Init, DeliveryInv, TypeOK, OneRelayPerEvent, NoBatch, NoJob, Idle
  <1>2. DeliveryInv /\ [Next]_vars => DeliveryInv'
    BY RelayTypes, SubmitTypes, JobTypes, BatchesApart DEF DeliveryInv, Next
  <1> QED
    BY <1>1, <1>2, PTL DEF Spec

-----------------------------------------------------------------------------
(***************************************************************************)
(* No claim is forgotten.                                                  *)
(***************************************************************************)
LEMMA BudgetKept ==
  ASSUME TypeOK, Budget, [Next]_vars
  PROVE  Budget'
  <1>1. /\ faults \in Nat /\ waiting \in [Claims -> JobRow] /\ running \in [Claims -> RunRow]
        /\ \A c \in Claims : waiting[c].tries \in Int /\ running[c].tries \in Int
    BY DeliveryAssumption DEF TypeOK, JobRow, RunRow
  <1>2. NoJob.tries = -1 /\ Idle.tries = 0 /\ \A n \in Nat : Job(n).tries = n
    BY DEF NoJob, Idle, Job
  <1>3. ASSUME waiting' = waiting, faults' = faults,
               \A c \in Claims : running'[c].tries \in {0, running[c].tries}
        PROVE  Budget'
    BY <1>1, <1>3 DEF Budget
  <1>4. ASSUME NEW d \in Claims, Defer(d), running' = running, faults' = faults
        PROVE  Budget'
    BY <1>1, <1>4, DeferWaits DEF Budget
  <1>5. ASSUME NEW w \in Workers, RelayDefer(w)
        PROVE  Budget'
    <2>1. PICK i \in relay[w].left : Defer(outbox[i].claim) /\ running' = running /\ faults' = faults
      BY <1>5 DEF RelayDefer
    <2>2. outbox[i].claim \in Claims
      <3>1. outbox \in Seq(EventRow) /\ i \in DOMAIN outbox
        BY DEF TypeOK, EventRow
      <3>2. outbox[i] \in EventRow
        BY <3>1, ElementOfSeq, LenProperties
      <3> QED
        BY <3>2 DEF EventRow
    <2> QED
      BY <1>4, <2>1, <2>2
  <1>6. ASSUME NEW w \in Workers, RelaySelect(w) \/ RelayCommit(w)
        PROVE  Budget'
    BY <1>3, <1>6 DEF RelaySelect, RelayCommit, jobVars
  <1>7. ASSUME NEW w \in Workers, RelayFails(w)
        PROVE  Budget'
    BY <1>1, <1>7 DEF RelayFails, Budget, jobVars
  <1>8. ASSUME NEW w \in Workers, Crash(w)
        PROVE  Budget'
    <2>1. \A c \in Claims : running'[c].tries = running[c].tries
      BY <1>1, <1>8 DEF Crash, RunRow
    <2> QED
      BY <1>3, <1>8, <2>1 DEF Crash
  <1>9. ASSUME NEW c \in Claims, Submit(c) \/ Execute(c) \/ Finish(c)
        PROVE  Budget'
    <2>1. \A d \in Claims : running'[d].tries \in {0, running[d].tries}
      <3>1. CASE Submit(c)
        BY <3>1 DEF Submit, jobVars
      <3>2. CASE Execute(c)
        BY <1>1, <3>2 DEF Execute, RunRow
      <3>3. CASE Finish(c)
        BY <1>1, <1>2, <3>3 DEF Finish
      <3> QED
        BY <1>9, <3>1, <3>2, <3>3
    <2> QED
      BY <1>3, <1>9, <2>1 DEF Submit, Execute, Finish, jobVars
  <1>10. ASSUME NEW c \in Claims, ExecuteFails(c)
         PROVE  Budget'
    <2>1. faults' = faults + 1
      BY <1>10 DEF ExecuteFails
    <2>2. \A d \in Claims : running'[d].tries \in {0, running[d].tries}
      <3>1. PICK row \in {Idle, [running[c] EXCEPT !.phase = "STUCK", !.worker = "none"]} :
              running' = [running EXCEPT ![c] = row]
        BY <1>10 DEF ExecuteFails, Retry
      <3>2. row.tries \in {0, running[c].tries}
        BY <1>1, <1>2 DEF RunRow
      <3> QED
        BY <1>1, <3>1, <3>2
    <2>3. running[c].tries + 1 \in Nat
      BY <1>1 DEF RunRow
    <2>4. \A d \in Claims : waiting'[d].tries \in {waiting[d].tries, running[d].tries + 1}
      BY <1>1, <1>2, <1>10, <2>3 DEF ExecuteFails, Retry
    <2> QED
      BY <1>1, <2>1, <2>2, <2>4 DEF Budget
  <1>11. ASSUME NEW c \in Claims, FetchStep(c)
         PROVE  Budget'
    <2>1. PICK w \in Workers : Fetch(w, c)
      BY <1>11 DEF FetchStep
    <2>2. faults' = faults
      BY <2>1 DEF Fetch
    <2>3. \A d \in Claims : running'[d].tries \in {running[d].tries, waiting[d].tries}
      BY <1>1, <2>1 DEF Fetch
    <2>4. \A d \in Claims : waiting'[d].tries \in {waiting[d].tries, -1}
      BY <1>1, <1>2, <2>1 DEF Fetch
    <2> QED
      BY <1>1, <2>2, <2>3, <2>4 DEF Budget
  <1>12. ASSUME NEW call \in calls, CallDefers(call) \/ CallLost(call)
         PROVE  Budget'
    BY <1>3, <1>4, <1>12 DEF CallDefers, CallLost, jobVars, TypeOK
  <1>13. CASE UNCHANGED vars
    BY <1>3, <1>13 DEF vars, jobVars
  <1> QED
    BY <1>5, <1>6, <1>7, <1>8, <1>9, <1>10, <1>11, <1>12, <1>13 DEF Next, RelayStep

(* A claim is abandoned by a failing job or a killed worker only.          *)
LEMMA ReasonsKept ==
  ASSUME TypeOK, Budget, Reasons, [Next]_vars
  PROVE  Reasons'
  <1>1. /\ faults \in Nat /\ crashes \in Nat /\ running \in [Claims -> RunRow]
        /\ spent \in [Claims -> 0..MaxRevision]
    BY DeliveryAssumption DEF TypeOK, RunRow
  <1>2. ASSUME spent' = spent, faults' \in {faults, faults + 1}, crashes' = crashes,
               \A c \in Claims : running'[c].phase = "STUCK" => running[c].phase = "STUCK"
        PROVE  Reasons'
    BY <1>1, <1>2, DeliveryAssumption DEF Reasons
  <1>3. ASSUME NEW w \in Workers, RelayStep(w) \/ RelayFails(w)
        PROVE  Reasons'
    BY <1>2, <1>3
    DEF RelayStep, RelaySelect, RelayDefer, RelayCommit, RelayFails, jobVars
  <1>4. ASSUME NEW w \in Workers, Crash(w)
        PROVE  Reasons'
    <2>1. crashes' = crashes + 1 /\ spent' = spent /\ faults' = faults
      BY <1>4 DEF Crash
    <2>2. crashes' > 0
      BY <1>1, <2>1
    <2> QED
      BY <2>1, <2>2 DEF Reasons
  <1>5. ASSUME NEW c \in Claims, Submit(c) \/ Execute(c) \/ Finish(c) \/ FetchStep(c)
        PROVE  Reasons'
    <2>1. spent' = spent /\ faults' = faults /\ crashes' = crashes
      BY <1>5 DEF Submit, Execute, Finish, FetchStep, Fetch, jobVars
    <2>2. \A d \in Claims : running'[d].phase = "STUCK" => running[d].phase = "STUCK"
      <3>1. CASE Submit(c)
        BY <3>1 DEF Submit, jobVars
      <3>2. CASE Execute(c)
        BY <1>1, <3>2 DEF Execute, RunRow
      <3>3. CASE Finish(c)
        BY <1>1, <3>3 DEF Finish, Idle
      <3>4. CASE FetchStep(c)
        BY <1>1, <3>4 DEF FetchStep, Fetch
      <3> QED
        BY <1>5, <3>1, <3>2, <3>3, <3>4
    <2> QED
      BY <1>2, <2>1, <2>2
  <1>6. ASSUME NEW c \in Claims, ExecuteFails(c)
        PROVE  Reasons'
    <2>1. faults' = faults + 1 /\ crashes' = crashes
      BY <1>6 DEF ExecuteFails
    <2>2. \A d \in Claims : spent'[d] # 0 => faults' > MaxAttempts
      <3>1. CASE running[c].tries >= MaxAttempts
        <4>1. running[c].tries <= faults /\ running[c].tries \in Nat
          BY <1>1, DeliveryAssumption DEF Budget, RunRow
        <4> QED
          BY <1>1, <2>1, <3>1, <4>1, DeliveryAssumption
      <3>2. CASE ~(running[c].tries >= MaxAttempts)
        <4>1. spent' = spent
          BY <1>6, <3>2 DEF ExecuteFails, Retry
        <4> QED
          BY <1>1, <2>1, <4>1, DeliveryAssumption DEF Reasons
      <3> QED
        BY <3>1, <3>2
    <2>3. ASSUME NEW d \in Claims, running'[d].phase = "STUCK", running[d].phase # "STUCK"
          PROVE  "STUCK" \in CollisionOutcomes
      BY <1>1, <1>6, <2>3, DeliveryAssumption DEF ExecuteFails, Retry, Idle
    <2> QED
      BY <1>1, <2>1, <2>2, <2>3 DEF Reasons
  <1>7. ASSUME NEW call \in calls, CallDefers(call) \/ CallLost(call)
        PROVE  Reasons'
    BY <1>2, <1>7 DEF CallDefers, CallLost, jobVars
  <1>8. CASE UNCHANGED vars
    BY <1>2, <1>8 DEF vars, jobVars
  <1> QED
    BY <1>3, <1>4, <1>5, <1>6, <1>7, <1>8 DEF Next

(* Steps that assess nothing: who was looked after still is.               *)
LEMMA WatchedStays ==
  ASSUME Watched, UNCHANGED claimVars,
         \A c \in Claims : Cared(c) => Cared(c)',
         \A c \in Claims, i \in DOMAIN outbox :
           Due(c, i) => Cared(c)' \/ (i \in DOMAIN outbox' /\ Due(c, i)')
  PROVE  Watched'
  BY DEF Watched, Submitted, claimVars

LEMMA WatchedKept ==
  ASSUME TypeOK, Watched, [Next]_vars
  PROVE  Watched'
  <1>1. /\ waiting \in [Claims -> JobRow] /\ running \in [Claims -> RunRow]
        /\ outbox \in Seq(EventRow)
        /\ relay \in [Workers -> [events : SUBSET DOMAIN outbox, left : SUBSET DOMAIN outbox]]
        /\ spent \in [Claims -> 0..MaxRevision]
    BY DEF TypeOK, JobRow, RunRow, EventRow
  <1>2. /\ \A n \in Nat : Job(n) # NoJob
        /\ NoBatch.events = {}
    <2>1. NoJob.tries = -1 /\ \A n \in Nat : Job(n).tries = n
      BY DEF NoJob, Job
    <2> QED
      BY <2>1 DEF NoBatch
  <1>3. ASSUME NEW c \in Claims, Submit(c)
        PROVE  Watched'
    <2>1. PICK n \in DOMAIN outbox' :
          /\ DOMAIN outbox' = DOMAIN outbox \cup {n} /\ n \notin DOMAIN outbox
          /\ \A i \in DOMAIN outbox : outbox'[i] = outbox[i]
          /\ outbox'[n] = Event(c)
      BY <1>3, SubmitTypes
    <2>2. /\ revision' = [revision EXCEPT ![c] = @ + 1] /\ revision \in [Claims -> 0..MaxRevision]
          /\ assessed' = assessed /\ waiting' = waiting /\ running' = running /\ relay' = relay
          /\ spent' = spent
      BY <1>3 DEF Submit, jobVars, TypeOK
    <2>3. Due(c, n)'
      <3>1. /\ Event(c).claim = c /\ Event(c).revision = revision[c] + 1
            /\ Event(c).published = FALSE
        BY DEF Event
      <3>2. revision'[c] = revision[c] + 1
        BY <2>2
      <3>3. \A w \in Workers : n \notin relay'[w].events
        BY <1>1, <2>1, <2>2
      <3> QED
        BY <2>1, <3>1, <3>2, <3>3 DEF Due
    <2>4. ASSUME NEW d \in Claims, d # c, Submitted(d)'
          PROVE  Cared(d)' \/ \E i \in DOMAIN outbox' : Due(d, i)'
      <3>1. revision'[d] = revision[d] /\ Submitted(d)
        BY <2>2, <2>4 DEF Submitted
      <3>2. CASE Cared(d)
        BY <2>2, <3>1, <3>2 DEF Cared, Abandoned
      <3>3. ASSUME NEW i \in DOMAIN outbox, Due(d, i)
            PROVE  i \in DOMAIN outbox' /\ Due(d, i)'
        BY <2>1, <2>2, <3>1, <3>3 DEF Due
      <3> QED
        BY <3>1, <3>2, <3>3 DEF Watched
    <2>5. ASSUME NEW d \in Claims, Submitted(d)'
          PROVE  Cared(d)' \/ \E i \in DOMAIN outbox' : Due(d, i)'
      BY <2>1, <2>3, <2>4, <2>5
    <2> QED
      BY <2>5 DEF Watched
  <1>4. ASSUME NEW c \in Claims, Execute(c)
        PROVE  Watched'
    <2>1. /\ revision' = revision /\ outbox' = outbox /\ waiting' = waiting /\ relay' = relay
          /\ spent' = spent
          /\ \A d \in Claims : d # c => running'[d] = running[d] /\ assessed'[d] = assessed[d]
          /\ ~Submitted(c)'
      BY <1>1, <1>4, DeliveryAssumption DEF Execute, Submitted, TypeOK
    <2>2. ASSUME NEW d \in Claims, Submitted(d)'
          PROVE  Cared(d)' \/ \E i \in DOMAIN outbox' : Due(d, i)'
      <3>1. d # c /\ Submitted(d)
        BY <2>1, <2>2 DEF Submitted
      <3> QED
        BY <2>1, <3>1 DEF Watched, Cared, Abandoned, Due
    <2> QED
      BY <2>2 DEF Watched
  <1>5. ASSUME NEW c \in Claims, Finish(c)
        PROVE  Watched'
    <2>1. /\ UNCHANGED claimVars /\ outbox' = outbox /\ waiting' = waiting /\ relay' = relay
          /\ running[c].phase = "EXECUTED" /\ spent' = spent
          /\ \A d \in Claims : d # c => running'[d] = running[d]
      BY <1>1, <1>5 DEF Finish
    <2> QED
      BY <2>1, WatchedStays DEF Cared, Abandoned, Due, claimVars
  <1>6. ASSUME NEW c \in Claims, ExecuteFails(c)
        PROVE  Watched'
    <2>1. /\ UNCHANGED claimVars /\ outbox' = outbox /\ relay' = relay
          /\ \A d \in Claims : d # c => running'[d] = running[d] /\ waiting'[d] = waiting[d]
      BY <1>1, <1>6 DEF ExecuteFails, Retry
    <2>2. \A d \in Claims : d # c => spent'[d] = spent[d]
      <3>1. spent' = spent \/ spent' = [spent EXCEPT ![c] = revision[c]]
        BY <1>6 DEF ExecuteFails, Retry
      <3> QED
        BY <1>1, <3>1
    <2>3. CASE running[c].tries < MaxAttempts /\ waiting[c] = NoJob
      <3>1. ~(running[c].tries >= MaxAttempts) /\ running[c].tries + 1 \in Nat
        BY <1>1, <2>3, DeliveryAssumption DEF RunRow
      <3>2. waiting' = [waiting EXCEPT ![c] = Job(running[c].tries + 1)]
        BY <1>6, <2>3, <3>1 DEF ExecuteFails, Retry
      <3>3. waiting'[c] # NoJob
        BY <1>1, <1>2, <3>1, <3>2
      <3> QED
        BY <2>1, <2>2, <3>3, WatchedStays DEF Cared, Abandoned, Due, claimVars
    <2>4. CASE running[c].tries < MaxAttempts /\ waiting[c] # NoJob
      <3>1. ~(running[c].tries >= MaxAttempts)
        BY <1>1, <2>4, DeliveryAssumption DEF RunRow
      <3>2. waiting' = waiting
        BY <1>6, <2>4, <3>1 DEF ExecuteFails, Retry
      <3> QED
        BY <2>1, <2>2, <2>4, <3>2, WatchedStays DEF Cared, Abandoned, Due, claimVars
    <2>5. CASE running[c].tries >= MaxAttempts
      <3>1. ~(running[c].tries < MaxAttempts)
        BY <1>1, <2>5, DeliveryAssumption DEF RunRow
      <3>2. spent' = [spent EXCEPT ![c] = revision[c]]
        BY <1>6, <3>1 DEF ExecuteFails, Retry
      <3>3. spent'[c] = revision'[c]
        BY <1>1, <2>1, <3>2 DEF claimVars
      <3> QED
        BY <2>1, <2>2, <3>3, WatchedStays DEF Cared, Abandoned, Due, claimVars
    <2>6. running[c].tries < MaxAttempts \/ running[c].tries >= MaxAttempts
      BY <1>1, DeliveryAssumption DEF RunRow
    <2> QED
      BY <2>3, <2>4, <2>5, <2>6
  <1>7. ASSUME NEW c \in Claims, FetchStep(c)
        PROVE  Watched'
    <2>1. PICK w \in Workers : Fetch(w, c)
      BY <1>7 DEF FetchStep
    <2>2. /\ UNCHANGED claimVars /\ outbox' = outbox /\ relay' = relay
          /\ \A d \in Claims : d # c => running'[d] = running[d] /\ waiting'[d] = waiting[d]
          /\ running'[c].phase = "FETCHED" /\ spent' = spent
      BY <1>1, <2>1 DEF Fetch
    <2> QED
      BY <2>2, WatchedStays DEF Cared, Abandoned, Due, claimVars
  <1>8. ASSUME NEW d \in Claims, Defer(d), UNCHANGED <<claimVars, outbox, running, spent, relay>>
        PROVE  Watched'
    <2>1. \A c \in Claims : Cared(c) => Cared(c)'
      BY <1>8, DeferWaits DEF Cared, Abandoned, claimVars
    <2>2. \A c \in Claims, i \in DOMAIN outbox : Due(c, i) => Due(c, i)'
      BY <1>8 DEF Due, claimVars
    <2> QED
      BY <1>8, <2>1, <2>2, WatchedStays
  <1>9. ASSUME NEW call \in calls, CallDefers(call) \/ CallLost(call)
        PROVE  Watched'
    <2>1. CASE CallDefers(call)
      BY <1>8, <1>9, <2>1 DEF CallDefers, TypeOK
    <2>2. CASE CallLost(call)
      BY <2>2, WatchedStays DEF CallLost, Cared, Abandoned, Due, claimVars, jobVars
    <2> QED
      BY <1>9, <2>1, <2>2
  <1>10. ASSUME NEW w \in Workers, RelaySelect(w)
         PROVE  Watched'
    <2>1. /\ UNCHANGED <<claimVars, outbox, jobVars>>
          /\ relay' = [relay EXCEPT ![w] = [events |-> Oldest(Unpublished), left |-> Oldest(Unpublished)]]
      BY <1>10 DEF RelaySelect
    <2>2. \A v \in Workers : relay'[v].events = relay'[v].left \/ relay'[v] = relay[v]
      BY <1>1, <2>1
    <2>3. \A c \in Claims, i \in DOMAIN outbox : Due(c, i) => Due(c, i)'
      BY <2>1, <2>2 DEF Due, claimVars
    <2> QED
      BY <2>1, <2>3, WatchedStays DEF Cared, Abandoned, claimVars, jobVars
  <1>11. ASSUME NEW w \in Workers, RelayDefer(w)
         PROVE  Watched'
    <2>1. PICK i \in relay[w].left :
            /\ Defer(outbox[i].claim)
            /\ relay' = [relay EXCEPT ![w] = [events |-> @.events, left |-> @.left \ {i}]]
            /\ UNCHANGED <<claimVars, outbox, running, spent>>
      BY <1>11 DEF RelayDefer
    <2>2. outbox[i].claim \in Claims
      <3>1. i \in DOMAIN outbox
        BY <1>1
      <3>2. outbox[i] \in EventRow
        BY <1>1, <3>1, ElementOfSeq, LenProperties
      <3> QED
        BY <3>2 DEF EventRow
    <2>3. /\ waiting'[outbox[i].claim] # NoJob
          /\ \A c \in Claims : waiting[c] # NoJob => waiting'[c] = waiting[c]
      BY <2>1, <2>2, DeferWaits
    <2>4. \A c \in Claims : Cared(c) => Cared(c)'
      BY <2>1, <2>3 DEF Cared, Abandoned, claimVars
    <2>5. ASSUME NEW c \in Claims, NEW j \in DOMAIN outbox, Due(c, j)
          PROVE  Cared(c)' \/ Due(c, j)'
      <3>1. CASE j = i
        BY <2>3, <2>5, <3>1 DEF Due, Cared
      <3>2. CASE j # i
        <4>1. \A v \in Workers : j \in relay'[v].events => j \in relay'[v].left
          BY <1>1, <2>1, <2>5, <3>2 DEF Due
        <4> QED
          BY <2>1, <2>5, <4>1 DEF Due, claimVars
      <3> QED
        BY <3>1, <3>2
    <2> QED
      BY <2>1, <2>4, <2>5, WatchedStays
  <1>12. ASSUME NEW w \in Workers, RelayCommit(w)
         PROVE  Watched'
    <2>1. /\ relay[w].left = {} /\ Publish(relay[w].events)
          /\ relay' = [relay EXCEPT ![w] = NoBatch]
          /\ UNCHANGED <<claimVars, jobVars>>
      BY <1>12 DEF RelayCommit
    <2>2. /\ DOMAIN outbox' = DOMAIN outbox
          /\ \A i \in DOMAIN outbox :
               /\ outbox'[i].claim = outbox[i].claim
               /\ outbox'[i].revision = outbox[i].revision
               /\ outbox'[i].published = (outbox[i].published \/ i \in relay[w].events)
      BY <1>1, <2>1, EventChanges
    <2>3. \A v \in Workers : relay'[v].events = {} \/ relay'[v] = relay[v]
      BY <1>1, <1>2, <2>1
    <2>4. \A c \in Claims, i \in DOMAIN outbox : Due(c, i) => i \in DOMAIN outbox' /\ Due(c, i)'
      BY <2>1, <2>2, <2>3 DEF Due, claimVars
    <2> QED
      BY <2>1, <2>4, WatchedStays DEF Cared, Abandoned, claimVars, jobVars
  <1>13. ASSUME NEW w \in Workers, RelayFails(w) \/ Crash(w)
         PROVE  Watched'
    <2>1. /\ relay' = [relay EXCEPT ![w] = NoBatch]
          /\ UNCHANGED <<claimVars, outbox, waiting, spent>>
      BY <1>13 DEF RelayFails, Abort, Crash, jobVars
    <2>2. \A v \in Workers : relay'[v].events = {} \/ relay'[v] = relay[v]
      BY <1>1, <1>2, <2>1
    <2>3. \A c \in Claims, i \in DOMAIN outbox : Due(c, i) => Due(c, i)'
      BY <2>1, <2>2 DEF Due, claimVars
    <2>4. \A c \in Claims : running'[c] = running[c] \/ running'[c].phase = "STUCK"
      <3>1. CASE RelayFails(w)
        BY <3>1 DEF RelayFails, jobVars
      <3>2. CASE Crash(w)
        BY <1>1, <3>2 DEF Crash, RunRow
      <3> QED
        BY <1>13, <3>1, <3>2
    <2> QED
      BY <2>1, <2>3, <2>4, WatchedStays DEF Cared, Abandoned, claimVars
  <1>14. CASE UNCHANGED vars
    BY <1>14, WatchedStays DEF vars, Cared, Abandoned, Due, claimVars, jobVars
  <1> QED
    BY <1>3, <1>4, <1>5, <1>6, <1>7, <1>9, <1>10, <1>11, <1>12, <1>13, <1>14 DEF Next, RelayStep

(* Tables and batches keep their types, and no claim is assessed ahead of  *)
(* its revision.                                                           *)
THEOREM DeliveryTypes == Spec => []TypeOK
  BY DeliveryInvariant, PTL DEF DeliveryInv

(* Two relays never publish the same event from two open transactions      *)
(* (jobs.py:45), whatever the number of worker processes.                  *)
THEOREM RelaysKeepApart == Spec => []OneRelayPerEvent
  BY DeliveryInvariant, PTL DEF DeliveryInv

(* A submitted claim has an unpublished event, a job that will look at it, *)
(* or a job of its own that abandoned it: left in doing, or out of retries *)
(* on this revision, with more exceptions than retries (main.py:640,       *)
(* jobs.py:15, 49, worker.py:26).  For any number of claims, workers,      *)
(* relays, exceptions and crashes.                                         *)
THEOREM ForgottenOnlyForAReason == Spec => []ForgottenForAReason
  <1>1. Init => Budget /\ Reasons /\ Watched
    BY DEF Init, Budget, Reasons, Watched, Submitted, NoJob, Idle
  <1>2. DeliveryInv /\ Budget /\ Reasons /\ Watched /\ [Next]_vars => (Budget /\ Reasons /\ Watched)'
    BY BudgetKept, ReasonsKept, WatchedKept DEF DeliveryInv
  <1>3. Reasons /\ Watched => ForgottenForAReason
    BY DEF Watched, Reasons, Cared, Due, ForgottenForAReason, Pending
  <1> QED
    BY <1>1, <1>2, <1>3, DeliveryInvariant, PTL DEF Spec

-----------------------------------------------------------------------------
(***************************************************************************)
(* Turns.                                                                  *)
(***************************************************************************)
LEMMA TurnTaken ==
  ASSUME TypeOK, NEW c \in Claims, revision[c] <= assessed[c] + 1, [Next]_vars
  PROVE  /\ revision'[c] <= assessed'[c] + 1
         /\ [Rounds(c)!Open \/ Rounds(c)!Close]_(Rounds(c)!roundVars)
  <1>1. /\ revision \in [Claims -> Nat] /\ assessed \in [Claims -> Nat]
        /\ assessed[c] <= revision[c]
    BY DeliveryAssumption DEF TypeOK
  <1>2. ASSUME UNCHANGED <<revision[c], assessed[c]>>
        PROVE  /\ revision'[c] <= assessed'[c] + 1
               /\ [Rounds(c)!Open \/ Rounds(c)!Close]_(Rounds(c)!roundVars)
    BY <1>2 DEF Rounds!roundVars
  <1>3. CASE Submit(c)
    <2>1. revision'[c] = revision[c] + 1 /\ UNCHANGED assessed /\ assessed[c] = revision[c]
      BY <1>1, <1>3 DEF Submit, Submitted
    <2>2. revision[c] = 0 \/ revision[c] \in 1..assessed[c]
      BY <1>1, <2>1
    <2> QED
      BY <1>1, <2>1, <2>2 DEF Rounds!Open
  <1>4. CASE Execute(c)
    <2>1. UNCHANGED revision /\ assessed'[c] = revision[c]
      BY <1>1, <1>4 DEF Execute
    <2>2. CASE assessed[c] = revision[c]
      BY <1>2, <2>1, <2>2
    <2>3. CASE assessed[c] # revision[c]
      <3>1. revision[c] = assessed[c] + 1
        BY <1>1, <2>3
      <3>2. 1..revision[c] = (1..assessed[c]) \cup {revision[c]}
        BY <1>1, <3>1
      <3>3. revision[c] # 0 /\ revision[c] \notin 1..assessed[c]
        BY <1>1, <3>1
      <3> QED
        BY <1>1, <2>1, <3>2, <3>3 DEF Rounds!Close
    <2> QED
      BY <2>2, <2>3
  <1>5. ASSUME NEW d \in Claims, d # c, Submit(d) \/ Execute(d)
        PROVE  UNCHANGED <<revision[c], assessed[c]>>
    BY <1>1, <1>5 DEF Submit, Execute
  <1>6. ASSUME NEW d \in Claims, Finish(d) \/ ExecuteFails(d) \/ FetchStep(d)
        PROVE  UNCHANGED <<revision[c], assessed[c]>>
    BY <1>6 DEF Finish, ExecuteFails, FetchStep, Fetch, claimVars
  <1>7. ASSUME NEW call \in calls, CallDefers(call) \/ CallLost(call)
        PROVE  UNCHANGED <<revision[c], assessed[c]>>
    BY <1>7 DEF CallDefers, CallLost, claimVars
  <1>8. ASSUME NEW w \in Workers, RelayStep(w) \/ RelayFails(w) \/ Crash(w)
        PROVE  UNCHANGED <<revision[c], assessed[c]>>
    BY <1>8 DEF RelayStep, RelaySelect, RelayDefer, RelayCommit, RelayFails, Crash, claimVars
  <1>9. CASE UNCHANGED vars
    BY <1>2, <1>9 DEF vars, claimVars
  <1> QED
    BY <1>2, <1>3, <1>4, <1>5, <1>6, <1>7, <1>8, <1>9 DEF Next

(* However many jobs are run of a claim, duplicated, retried or late, they *)
(* close each of its revisions once, and none before it is opened          *)
(* (jobs.py:49, services.py:177).                                          *)
THEOREM DeliveryTakesTurns ==
  ASSUME NEW CONSTANT c \in Claims
  PROVE  Spec => ClaimTakesTurns(c)
  <1>1. Init => Rounds(c)!RoundsInit /\ revision[c] <= assessed[c] + 1
    BY DEF Init, Rounds!RoundsInit
  <1>2. TypeOK /\ revision[c] <= assessed[c] + 1 /\ [Next]_vars =>
          /\ (revision[c] <= assessed[c] + 1)'
          /\ [Rounds(c)!Open \/ Rounds(c)!Close]_(Rounds(c)!roundVars)
    BY TurnTaken
  <1> QED
    BY <1>1, <1>2, DeliveryTypes, PTL DEF Spec, ClaimTakesTurns, Rounds!RoundsSpec
=============================================================================
