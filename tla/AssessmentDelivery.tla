------------------------- MODULE AssessmentDelivery -------------------------
(***************************************************************************)
(* How a submitted claim reaches the assessment worker.  The submitting    *)
(* transaction also writes an outbox event; after the commit the API tries *)
(* to enqueue a job itself, and a relay in every worker process enqueues   *)
(* a job for each event it finds unpublished.  Jobs are Procrastinate's:   *)
(* rows with a lock (at most one job of a claim is being run) and a        *)
(* queueing lock (at most one waits), both named after the claim.          *)
(*                                                                         *)
(* Each deferral commits on a connection of its own, while a relay's       *)
(* outbox transaction is still open; a worker runs a job, and marks it     *)
(* finished in a later step.  Anything may fail or die between two steps.  *)
(***************************************************************************)
EXTENDS Integers, Sequences, FiniteSets

CONSTANTS
  Claims,
  Workers,            \* worker processes, each with one relay loop
  BatchSize,          \* events a relay takes at a time (25 in the code)
  Concurrency,        \* jobs a worker runs at a time (4)
  MaxAttempts,        \* retries the retry strategy allows (5)
  CollisionOutcomes,  \* what becomes of a job to be retried while another
                      \* of its claim waits: "FAILED", or "STUCK" in doing
  MaxRevision,        \* bound: revisions per claim
  MaxFaults,          \* bound: exceptions in jobs and relays
  MaxCrashes          \* bound: worker processes killed

ASSUME DeliveryAssumption ==
  /\ BatchSize \in Nat \ {0} /\ Concurrency \in Nat \ {0} /\ MaxAttempts \in Nat
  /\ CollisionOutcomes \subseteq {"FAILED", "STUCK"}
  /\ MaxRevision \in Nat /\ MaxFaults \in Nat /\ MaxCrashes \in Nat

VARIABLES
  revision,           \* revision[c]: the claim's revision, 0 before submission
  assessed,           \* assessed[c]: the last revision with an attempt
  outbox,             \* outbox_events rows, in the order of created_at
  calls,              \* claims whose API handler has still to enqueue
  waiting,            \* waiting[c]: the claim's job in status todo, if any
  running,            \* running[c]: the claim's job in status doing, if any
  spent,              \* spent[c]: the claim's revision when a job of its own last
                      \* used up its retries, 0 if none did
  relay,              \* relay[w]: the events the relay of w has locked, and those
                      \* of them it has yet to enqueue
  faults, crashes     \* how many there have been

claimVars == <<revision, assessed>>
jobVars == <<waiting, running, spent>>
vars == <<claimVars, outbox, calls, jobVars, relay, faults, crashes>>

NoJob == [tries |-> -1]
Job(tries) == [tries |-> tries]
Idle == [phase |-> "NONE", tries |-> 0, worker |-> "none"]
NoBatch == [events |-> {}, left |-> {}]

\* process_assessment would assess the claim: it is SUBMITTED
Submitted(c) == revision[c] > assessed[c]

(* Every table holds rows of its own type; a claim is never assessed ahead *)
(* of its revision.                                                        *)
TypeOK ==
  /\ revision \in [Claims -> 0..MaxRevision]
  /\ assessed \in [Claims -> 0..MaxRevision]
  /\ \A c \in Claims : assessed[c] <= revision[c]
  /\ outbox \in Seq([claim : Claims, revision : 1..MaxRevision, published : BOOLEAN])
  /\ calls \in SUBSET [claim : Claims, revision : 1..MaxRevision]
  /\ waiting \in [Claims -> [tries : -1..MaxAttempts]]
  /\ running \in [Claims -> [phase : {"NONE", "FETCHED", "EXECUTED", "STUCK"},
                             tries : 0..MaxAttempts, worker : Workers \cup {"none"}]]
  /\ spent \in [Claims -> 0..MaxRevision]
  /\ relay \in [Workers -> [events : SUBSET DOMAIN outbox, left : SUBSET DOMAIN outbox]]
  /\ faults \in 0..MaxFaults
  /\ crashes \in 0..MaxCrashes

Init ==
  /\ revision = [c \in Claims |-> 0]
  /\ assessed = [c \in Claims |-> 0]
  /\ outbox = <<>>
  /\ calls = {}
  /\ waiting = [c \in Claims |-> NoJob]
  /\ running = [c \in Claims |-> Idle]
  /\ spent = [c \in Claims |-> 0]
  /\ relay = [w \in Workers |-> NoBatch]
  /\ faults = 0
  /\ crashes = 0

-----------------------------------------------------------------------------
(* The API.  A first submission, or the answer to an information request   *)
(* (which presupposes an assessment), commits with its outbox event.       *)

\* mutated form: the event carries the revision before the resubmission
EventOfOldRevision(c) == [claim |-> c, revision |-> revision[c], published |-> FALSE]
Event(c) == [claim |-> c, revision |-> revision[c] + 1, published |-> FALSE]

Submit(c) ==
  /\ ~Submitted(c)
  /\ revision[c] < MaxRevision
  /\ revision' = [revision EXCEPT ![c] = @ + 1]
  /\ outbox' = Append(outbox, Event(c))
  /\ calls' = calls \cup {[claim |-> c, revision |-> revision[c] + 1]}
  /\ UNCHANGED <<assessed, jobVars, relay, faults, crashes>>

(* defer: a new job waits, unless one of this claim already does, which    *)
(* the queueing lock reports as AlreadyEnqueued.                           *)
\* mutated form: a job being run counts as enqueued too
DeferUnlessRunning(c) ==
  waiting' = IF waiting[c] = NoJob /\ running[c] = Idle
             THEN [waiting EXCEPT ![c] = Job(0)] ELSE waiting
Defer(c) ==
  waiting' = IF waiting[c] = NoJob THEN [waiting EXCEPT ![c] = Job(0)] ELSE waiting

CallDefers(call) ==
  /\ call \in calls
  /\ Defer(call.claim)
  /\ calls' = calls \ {call}
  /\ UNCHANGED <<claimVars, outbox, running, spent, relay, faults, crashes>>

(* The API dies, or cannot reach the job tables: the handler logs that and *)
(* answers all the same.                                                   *)
CallLost(call) ==
  /\ call \in calls
  /\ calls' = calls \ {call}
  /\ UNCHANGED <<claimVars, outbox, jobVars, relay, faults, crashes>>

-----------------------------------------------------------------------------
(* The relay: one transaction from RelaySelect to RelayCommit.  Rows       *)
(* another relay has locked are skipped.                                   *)

Locked == UNION {relay[w].events : w \in Workers}
Unpublished == {i \in DOMAIN outbox : ~outbox[i].published} \ Locked
Oldest(events) == {i \in events : Cardinality({j \in events : j < i}) < BatchSize}

RelaySelect(w) ==
  /\ relay[w] = NoBatch
  /\ Unpublished # {}
  /\ relay' = [relay EXCEPT ![w] =
       [events |-> Oldest(Unpublished), left |-> Oldest(Unpublished)]]
  /\ UNCHANGED <<claimVars, outbox, calls, jobVars, faults, crashes>>

RelayDefer(w) ==
  \E i \in relay[w].left :
    /\ \A j \in relay[w].left : i <= j
    /\ Defer(outbox[i].claim)
    /\ relay' = [relay EXCEPT ![w] = [events |-> @.events, left |-> @.left \ {i}]]
    /\ UNCHANGED <<claimVars, outbox, calls, running, spent, faults, crashes>>

\* mutated form: published_at is never set
PublishForgets(events) == UNCHANGED outbox
Publish(events) ==
  outbox' = [i \in DOMAIN outbox |->
               IF i \in events THEN [outbox[i] EXCEPT !.published = TRUE] ELSE outbox[i]]

RelayCommit(w) ==
  /\ relay[w] # NoBatch
  /\ relay[w].left = {}
  /\ Publish(relay[w].events)
  /\ relay' = [relay EXCEPT ![w] = NoBatch]
  /\ UNCHANGED <<claimVars, calls, jobVars, faults, crashes>>

\* mutated form: a failed batch is committed as published
AbortPublishes(w) ==
  /\ Publish(relay[w].events)
  /\ relay' = [relay EXCEPT ![w] = NoBatch]
(* Any other exception rolls the whole batch back, deferrals made so far   *)
(* excepted; the loop logs it and tries again two seconds later.           *)
Abort(w) ==
  /\ relay' = [relay EXCEPT ![w] = NoBatch]
  /\ UNCHANGED outbox

RelayFails(w) ==
  /\ relay[w] # NoBatch
  /\ faults < MaxFaults
  /\ faults' = faults + 1
  /\ Abort(w)
  /\ UNCHANGED <<claimVars, calls, jobVars, crashes>>

-----------------------------------------------------------------------------
(* The worker.                                                             *)

\* the lock: no job is fetched while another of its claim is doing
Unlocked(c) == running[c] = Idle

Fetch(w, c) ==
  /\ waiting[c] # NoJob
  /\ Unlocked(c)
  /\ Cardinality({d \in Claims : running[d].worker = w}) < Concurrency
  /\ running' = [running EXCEPT ![c] =
       [phase |-> "FETCHED", tries |-> waiting[c].tries, worker |-> w]]
  /\ waiting' = [waiting EXCEPT ![c] = NoJob]
  /\ UNCHANGED <<claimVars, outbox, calls, spent, relay, faults, crashes>>

(* process_assessment commits: it assesses the present revision, or        *)
(* returns because there is nothing to assess.                             *)
Execute(c) ==
  /\ running[c].phase = "FETCHED"
  /\ running' = [running EXCEPT ![c].phase = "EXECUTED"]
  /\ assessed' = [assessed EXCEPT ![c] = revision[c]]
  /\ UNCHANGED <<revision, outbox, calls, waiting, spent, relay, faults, crashes>>

Finish(c) ==
  /\ running[c].phase = "EXECUTED"
  /\ running' = [running EXCEPT ![c] = Idle]
  /\ UNCHANGED <<claimVars, outbox, calls, waiting, spent, relay, faults, crashes>>

(* The transaction is rolled back.  The job goes back to todo while the    *)
(* retry strategy allows; where that collides with the queueing lock of a  *)
(* waiting job, the outcome is Procrastinate's.                            *)
Retry(c) ==
  \/ /\ running[c].tries < MaxAttempts
     /\ waiting[c] = NoJob
     /\ waiting' = [waiting EXCEPT ![c] = Job(running[c].tries + 1)]
     /\ running' = [running EXCEPT ![c] = Idle]
     /\ UNCHANGED spent
  \/ /\ running[c].tries >= MaxAttempts
     /\ running' = [running EXCEPT ![c] = Idle]
     /\ spent' = [spent EXCEPT ![c] = revision[c]]
     /\ UNCHANGED waiting
  \/ /\ running[c].tries < MaxAttempts
     /\ waiting[c] # NoJob
     /\ \E outcome \in CollisionOutcomes :
          running' = [running EXCEPT ![c] =
            IF outcome = "FAILED" THEN Idle
            ELSE [@ EXCEPT !.phase = "STUCK", !.worker = "none"]]
     /\ UNCHANGED <<waiting, spent>>

ExecuteFails(c) ==
  /\ running[c].phase = "FETCHED"
  /\ faults < MaxFaults
  /\ faults' = faults + 1
  /\ Retry(c)
  /\ UNCHANGED <<claimVars, outbox, calls, relay, crashes>>

(* A worker process dies and is started again.  Its relay's transaction    *)
(* rolls back; the jobs it was running stay in doing: no periodic task     *)
(* looks for stalled jobs.                                                 *)
Crash(w) ==
  /\ crashes < MaxCrashes
  /\ crashes' = crashes + 1
  /\ relay' = [relay EXCEPT ![w] = NoBatch]
  /\ running' = [c \in Claims |->
       IF running[c].worker = w
       THEN [running[c] EXCEPT !.phase = "STUCK", !.worker = "none"] ELSE running[c]]
  /\ UNCHANGED <<claimVars, outbox, calls, waiting, spent, faults>>

-----------------------------------------------------------------------------
RelayStep(w) == RelaySelect(w) \/ RelayDefer(w) \/ RelayCommit(w)
FetchStep(c) == \E w \in Workers : Fetch(w, c)

Next ==
  \/ \E c \in Claims : Submit(c) \/ Execute(c) \/ Finish(c) \/ ExecuteFails(c)
  \/ \E call \in calls : CallDefers(call) \/ CallLost(call)
  \/ \E w \in Workers : RelayStep(w) \/ RelayFails(w) \/ Crash(w)
  \/ \E c \in Claims : FetchStep(c)

(* The relay loop and the worker's fetch loop never end; a fetched job is  *)
(* run, and its outcome recorded.  Nothing is asked of the API's own       *)
(* attempt to enqueue.                                                     *)
Fairness ==
  /\ \A w \in Workers : WF_vars(RelayStep(w))
  /\ \A c \in Claims : SF_vars(FetchStep(c)) /\ WF_vars(Execute(c)) /\ WF_vars(Finish(c))

Spec == Init /\ [][Next]_vars
FairSpec == Spec /\ Fairness

-----------------------------------------------------------------------------
(* A claim is on its way: an event for its revision is still unpublished,  *)
(* a job waits, or a job is running that has yet to look at the claim.     *)
Pending(c) ==
  \/ \E i \in DOMAIN outbox :
       outbox[i].claim = c /\ outbox[i].revision = revision[c] /\ ~outbox[i].published
  \/ waiting[c] # NoJob
  \/ running[c].phase = "FETCHED"

(* Nobody will look at the claim any more: a job of its own is left in     *)
(* doing, or has used up its retries on this very revision.                *)
Abandoned(c) == running[c].phase = "STUCK" \/ spent[c] = revision[c]

(* Whatever fails and whatever dies, a claim is forgotten only through a   *)
(* job of its own.  It takes more exceptions than retries to fail that job *)
(* for good, and to leave it in doing a killed worker, or a retry that     *)
(* Procrastinate cannot put back in the queue.                             *)
ForgottenForAReason ==
  \A c \in Claims :
    /\ Submitted(c) => Pending(c) \/ Abandoned(c)
    /\ spent[c] # 0 => faults > MaxAttempts
    /\ running[c].phase = "STUCK" =>
         crashes > 0 \/ (faults > 0 /\ "STUCK" \in CollisionOutcomes)

(* Two relays never publish the same event from two open transactions.     *)
OneRelayPerEvent ==
  \A v, w \in Workers : v # w =>
    relay[v].events \cap relay[w].events = {}

(* Every submission and resubmission is assessed in the end, unless a job  *)
(* of its own claim abandons it.                                           *)
AssessedUnlessAbandoned ==
  \A c \in Claims : Submitted(c) ~> ~Submitted(c) \/ Abandoned(c)

(* Every submission and resubmission is assessed ("A periodic heartbeat-   *)
(* based recovery task retries workers terminated without graceful         *)
(* shutdown").                                                             *)
EventuallyAssessed == \A c \in Claims : Submitted(c) ~> ~Submitted(c)

(* Every event is published, however often a batch is rolled back.         *)
OutboxDrains ==
  []<>(\A i \in DOMAIN outbox : outbox[i].published)

(* Each claim takes its turns, see ClaimRounds: a revision is opened when  *)
(* the last one is closed, and its jobs, however many there are of it,     *)
(* close it once.                                                          *)
Rounds(c) == INSTANCE ClaimRounds WITH revision <- revision[c], assessed <- 1..assessed[c]
ClaimTakesTurns(c) == Rounds(c)!RoundsSpec
=============================================================================
