-------------------------- MODULE AuditTrailProofs --------------------------
(***************************************************************************)
(* The audit trail, for any number of transactions, of any kinds, on any   *)
(* claims.                                                                 *)
(***************************************************************************)
EXTENDS AuditTrail, SequenceTheorems, TLAPS

USE DEF Doing, Running, Step

Modes == {"NONE", "KEY SHARE", "UPDATE"}
Outcomes == {"RUNNING", "COMMITTED", "FAILED", "DEADLOCK", "COLLISION"}

-----------------------------------------------------------------------------
Shapes == {Updates, InsertsFirst, LocksFirst, ClaimUpdates, ClaimInserts}

LEMMA ProgramsKnown ==
  ASSUME NEW k \in Kinds
  PROVE  Program[k] \in Shapes
  BY TrailAssumption
  DEF AllKinds, Program, Shapes, SubmitReport, UploadReceipt, RecordInspection, ViewReceipt,
      DraftPolicy, PublishPolicy, AssessClaim, DecideClaim, AnswerWithReceipts,
      AnswerWithPurpose, ExportClaim, ExportAgain

(* A program reads the last event right after locking the organization,    *)
(* commits right after reading it, and ends there.                         *)
LEMMA ProgramShape ==
  ASSUME NEW k \in Kinds, NEW i \in 1..5, i \in DOMAIN Program[k]
  PROVE  /\ Program[k][i] # "COMMIT" => i + 1 \in 1..5 /\ i + 1 \in DOMAIN Program[k]
         /\ Program[k][i] \in {"CLAIM", "LOCK", "INSERT", "AUDIT", "READ", "COMMIT"}
         /\ Program[k][i] = "AUDIT" => Program[k][i + 1] = "READ"
         /\ Program[k][i] = "READ" => Program[k][i + 1] = "COMMIT"
         /\ Program[k][i] \in {"CLAIM", "LOCK", "INSERT"} =>
              Program[k][i + 1] \in {"INSERT", "AUDIT"}
  BY ProgramsKnown
  DEF Shapes, Updates, InsertsFirst, LocksFirst, ClaimUpdates, ClaimInserts

LEMMA FirstStep ==
  ASSUME NEW k \in Kinds
  PROVE  /\ 1 \in DOMAIN Program[k]
         /\ Program[k][1] \in {"CLAIM", "LOCK", "INSERT", "AUDIT"}
  BY ProgramsKnown
  DEF Shapes, Updates, InsertsFirst, LocksFirst, ClaimUpdates, ClaimInserts

-----------------------------------------------------------------------------
(* The inductive invariant.  Whoever is between append_audit's lock and    *)
(* the commit is alone with the organization row, so that the trail it     *)
(* read is still the trail it appends to.                                  *)

Following(t) ==
  [sequence |-> Len(trail) + 1, by |-> t,
   prior |-> IF trail = <<>> THEN Zero ELSE trail[Len(trail)].by]

Placed == \A t \in Transactions : at[t] \in DOMAIN Program[kind[t]]
Exclusive == \A t, u \in Transactions : t # u /\ orgLock[t] = "UPDATE" => orgLock[u] = "NONE"
Released == \A t \in Transactions : ~Running(t) => orgLock[t] = "NONE"
Appending ==
  \A t \in Transactions : Doing(t, "READ") \/ Doing(t, "COMMIT") => orgLock[t] = "UPDATE"
Drafted == \A t \in Transactions : Doing(t, "COMMIT") => draft[t] = Following(t)

LockInv == TypeOK /\ Placed /\ Exclusive /\ Released /\ Appending
TrailInv == LockInv /\ Drafted /\ ChainVerifies /\ NoCollision

(* In a chain that verifies, ORDER BY sequence DESC LIMIT 1 is the event   *)
(* committed last, and the event built from it follows the trail.          *)
LEMMA LastCommitted ==
  ASSUME TypeOK, ChainVerifies, NEW t \in Transactions
  PROVE  NextEvent(t) = Following(t) /\ NextEvent(t) \in Events
  <1>1. CASE trail = <<>>
    BY <1>1, TrailAssumption DEF NextEvent, Following, Events
  <1>2. CASE trail # <<>>
    <2>1. Len(trail) \in DOMAIN trail /\ trail \in Seq(Events) /\ Len(trail) \in Nat \ {0}
      <3>1. trail \in Seq(Events)
        BY DEF TypeOK
      <3>2. Len(trail) \in Nat \ {0}
        BY <1>2, <3>1, EmptySeq
      <3>3. DOMAIN trail = 1..Len(trail)
        BY <3>1, LenProperties
      <3> QED
        BY <3>1, <3>2, <3>3
    <2> DEFINE committed == {trail[i] : i \in DOMAIN trail}
               isLast(e) == \A i \in DOMAIN trail : trail[i].sequence <= e.sequence
    <2>2. trail[Len(trail)] \in committed /\ isLast(trail[Len(trail)])
      <3>1. \A i \in DOMAIN trail : trail[i].sequence = i /\ i <= Len(trail)
        BY <2>1 DEF ChainVerifies
      <3> QED
        BY <2>1, <3>1
    <2>3. LastEvent \in committed /\ isLast(LastEvent)
      BY <2>2 DEF LastEvent
    <2>4. PICK i \in DOMAIN trail : LastEvent = trail[i]
      BY <2>3
    <2>5. trail[Len(trail)].sequence = Len(trail) /\ trail[i].sequence = i /\ i <= Len(trail)
      BY <2>1, <2>4 DEF ChainVerifies
    <2>6. trail[Len(trail)].sequence <= LastEvent.sequence
      BY <2>1, <2>3
    <2>7. i = Len(trail)
      BY <2>1, <2>4, <2>5, <2>6
    <2>8. trail[Len(trail)] \in Events
      BY <2>1
    <2> QED
      BY <1>2, <2>1, <2>4, <2>5, <2>7, <2>8 DEF NextEvent, Following, Events
  <1> QED
    BY <1>1, <1>2

LEMMA TrailInvInit == Init => TrailInv
  <1> SUFFICES ASSUME Init PROVE TrailInv
    OBVIOUS
  <1>1. TypeOK
    BY EmptySeq DEF Init, TypeOK
  <1>2. \A t \in Transactions :
          /\ 1 \in DOMAIN Program[kind[t]]
          /\ Program[kind[t]][1] \in {"CLAIM", "LOCK", "INSERT", "AUDIT"}
    <2> TAKE t \in Transactions
    <2>1. kind[t] \in Kinds
      BY <1>1 DEF TypeOK
    <2> QED
      BY <2>1, FirstStep
  <1> QED
    BY <1>1, <1>2 DEF Init, TrailInv, LockInv, Placed, Exclusive, Released, Appending, Drafted,
                      ChainVerifies, NoCollision

(* A step that only advances one transaction: what it does to the program  *)
(* counters.                                                               *)
LEMMA AdvanceShape ==
  ASSUME TypeOK, Placed, NEW t \in Transactions, Advance(t), UNCHANGED <<kind, outcome>>,
         Running(t), Step(t) # "COMMIT"
  PROVE  /\ at' \in [Transactions -> 1..5]
         /\ Placed'
         /\ \A u \in Transactions : u # t => Step(u)' = Step(u)
         /\ Step(t) = "AUDIT" => Step(t)' = "READ"
         /\ Step(t) = "READ" => Step(t)' = "COMMIT"
         /\ Step(t) \in {"CLAIM", "LOCK", "INSERT"} => Step(t)' \in {"INSERT", "AUDIT"}
  <1>1. kind[t] \in Kinds /\ at[t] \in 1..5 /\ at[t] \in DOMAIN Program[kind[t]]
    BY DEF TypeOK, Placed
  <1>2. at[t] + 1 \in 1..5 /\ at[t] + 1 \in DOMAIN Program[kind[t]]
    BY <1>1, ProgramShape
  <1>3. at'[t] = at[t] + 1 /\ \A u \in Transactions : u # t => at'[u] = at[u]
    BY DEF Advance, TypeOK
  <1>4. at' \in [Transactions -> 1..5]
    BY <1>2 DEF Advance, TypeOK
  <1>5. Placed'
    BY <1>2, <1>3 DEF Placed
  <1>6. \A u \in Transactions : u # t => Step(u)' = Step(u)
    BY <1>3
  <1>7. Step(t)' = Program[kind[t]][at[t] + 1]
    BY <1>3
  <1> QED
    BY <1>1, <1>4, <1>5, <1>6, <1>7, ProgramShape

(* A step that takes a lock or none: whatever the transaction did, it      *)
(* stays exclusive, and another's lock and draft are untouched.            *)
LEMMA LockingSteps ==
  ASSUME TrailInv, NEW t \in Transactions, LockClaim(t) \/ LockOrganization(t) \/ InsertRows(t)
  PROVE  TrailInv'
  <1> USE DEF TrailInv, LockInv
  <1>1. /\ Advance(t) /\ UNCHANGED <<kind, subject, draft, trail, outcome>>
        /\ Running(t) /\ Step(t) \in {"CLAIM", "LOCK", "INSERT", "AUDIT"}
    BY DEF LockClaim, LockOrganization, InsertRows
  <1>2. /\ at' \in [Transactions -> 1..5]
        /\ Placed'
        /\ \A u \in Transactions : u # t => Step(u)' = Step(u)
        /\ Step(t)' \in {"INSERT", "AUDIT", "READ"}
        /\ Step(t)' = "READ" => Step(t) = "AUDIT"
    BY <1>1, AdvanceShape
  <1>3. /\ orgLock' \in [Transactions -> Modes]
        /\ \A u \in Transactions : u # t => orgLock'[u] = orgLock[u]
        /\ orgLock'[t] = "UPDATE" =>
             orgLock[t] = "UPDATE" \/ \A u \in Transactions : u # t => orgLock[u] = "NONE"
        /\ orgLock'[t] # orgLock[t] => \A u \in Transactions : u # t => orgLock[u] # "UPDATE"
        /\ Step(t) = "AUDIT" => orgLock'[t] = "UPDATE"
    <2>1. CASE LockClaim(t)
      BY <2>1 DEF LockClaim, TypeOK, Modes
    <2>2. CASE LockOrganization(t)
      <3>1. \A u \in Transactions : u # t => orgLock[u] = "NONE"
        BY <2>2 DEF LockOrganization, Blockers, UpdateBlockers, Others, TypeOK
      <3> QED
        BY <2>2, <3>1 DEF LockOrganization, TypeOK, Modes
    <2>3. CASE InsertRows(t)
      <3>1. \A u \in Transactions : u # t => orgLock[u] # "UPDATE"
        BY <2>3 DEF InsertRows, Blockers, ShareBlockers, Others, TypeOK
      <3>2. Step(t) = "INSERT"
        BY <2>3 DEF InsertRows
      <3> QED
        BY <2>3, <3>1, <3>2 DEF InsertRows, TypeOK, Modes
    <2> QED
      BY <2>1, <2>2, <2>3
  <1>4. claimLock' \in [Claims -> Transactions \cup {Free}]
    BY DEF LockClaim, LockOrganization, InsertRows, TypeOK
  <1>5. TypeOK'
    BY <1>1, <1>2, <1>3, <1>4 DEF TypeOK, Modes
  <1>6. Exclusive'
    BY <1>3 DEF Exclusive, Modes, TypeOK
  <1>7. Released'
    BY <1>1, <1>3 DEF Released
  <1>8. Appending'
    BY <1>1, <1>2, <1>3 DEF Appending
  <1>9. Drafted'
    BY <1>1, <1>2 DEF Drafted, Following
  <1>10. ChainVerifies' /\ NoCollision'
    BY <1>1 DEF ChainVerifies, NoCollision
  <1> QED
    BY <1>2, <1>5, <1>6, <1>7, <1>8, <1>9, <1>10

LEMMA ReadingSteps ==
  ASSUME TrailInv, NEW t \in Transactions, ReadLast(t)
  PROVE  TrailInv'
  <1> USE DEF TrailInv, LockInv
  <1>1. /\ Advance(t) /\ UNCHANGED <<kind, subject, locks, trail, outcome>>
        /\ Running(t) /\ Step(t) = "READ"
    BY DEF ReadLast
  <1>2. /\ at' \in [Transactions -> 1..5]
        /\ Placed'
        /\ \A u \in Transactions : u # t => Step(u)' = Step(u)
        /\ Step(t)' = "COMMIT"
    BY <1>1, AdvanceShape
  <1>3. /\ draft' \in [Transactions -> Events \cup {NoDraft}]
        /\ draft'[t] = Following(t)
        /\ \A u \in Transactions : u # t => draft'[u] = draft[u]
    BY LastCommitted DEF ReadLast, TypeOK
  <1>4. TypeOK'
    BY <1>1, <1>2, <1>3 DEF TypeOK, locks
  <1>5. Exclusive' /\ Released' /\ ChainVerifies' /\ NoCollision'
    BY <1>1 DEF Exclusive, Released, ChainVerifies, NoCollision, locks
  <1>6. Appending'
    BY <1>1, <1>2 DEF Appending, locks
  <1>7. Drafted'
    BY <1>1, <1>2, <1>3 DEF Drafted, Following
  <1> QED
    BY <1>2, <1>4, <1>5, <1>6, <1>7

(* A sequence that follows the trail is not in it.                         *)
LEMMA NeverCollides ==
  ASSUME TrailInv, NEW t \in Transactions, Doing(t, "COMMIT")
  PROVE  Unique(draft[t])
  <1> USE DEF TrailInv, LockInv
  <1> SUFFICES ASSUME ~Unique(draft[t]) PROVE FALSE
    OBVIOUS
  <1>2. PICK i \in DOMAIN trail : trail[i].sequence = draft[t].sequence
    BY DEF Unique
  <1>3. draft[t].sequence = Len(trail) + 1
    <2>1. draft[t] = Following(t)
      BY DEF Drafted
    <2> QED
      BY <2>1 DEF Following
  <1>4. trail[i].sequence = i
    BY DEF ChainVerifies
  <1>5. trail \in Seq(Events)
    BY DEF TypeOK
  <1>6. DOMAIN trail = 1..Len(trail) /\ Len(trail) \in Nat
    BY <1>5, LenProperties
  <1> QED
    BY <1>2, <1>3, <1>4, <1>6

(* However a transaction ends, it leaves its locks and nothing else.       *)
LEMMA EndingSteps ==
  ASSUME LockInv, NEW t \in Transactions, NEW how \in Outcomes \ {"RUNNING"}, Ends(t, how)
  PROVE  /\ UNCHANGED <<kind, at, subject, draft>>
         /\ kind' \in [Transactions -> Kinds] /\ at' \in [Transactions -> 1..5]
         /\ subject' \in [Transactions -> Claims]
         /\ orgLock' \in [Transactions -> {"NONE", "KEY SHARE", "UPDATE"}]
         /\ claimLock' \in [Claims -> Transactions \cup {Free}]
         /\ draft' \in [Transactions -> Events \cup {NoDraft}]
         /\ outcome' \in [Transactions -> Outcomes]
         /\ Placed' /\ Exclusive' /\ Released' /\ Appending'
         /\ outcome'[t] = how
         /\ \A u \in Transactions : u # t => outcome'[u] = outcome[u]
  <1> USE DEF LockInv
  <1>1. /\ UNCHANGED <<kind, at, subject, draft>>
        /\ orgLock'[t] = "NONE" /\ outcome'[t] = how
        /\ \A u \in Transactions : u # t => orgLock'[u] = orgLock[u] /\ outcome'[u] = outcome[u]
    BY DEF Ends, TypeOK
  <1>2. /\ orgLock' \in [Transactions -> {"NONE", "KEY SHARE", "UPDATE"}]
        /\ outcome' \in [Transactions -> Outcomes]
    BY DEF Ends, TypeOK, Outcomes
  <1>3. claimLock' \in [Claims -> Transactions \cup {Free}]
    BY DEF Ends, TypeOK
  <1>4. Placed' /\ Exclusive' /\ Released' /\ Appending'
    BY <1>1 DEF Placed, Exclusive, Released, Appending, Outcomes
  <1> QED
    BY <1>1, <1>2, <1>3, <1>4 DEF TypeOK

LEMMA CommitSteps ==
  ASSUME TrailInv, NEW t \in Transactions, Commit(t)
  PROVE  TrailInv'
  <1> USE DEF TrailInv, LockInv
  <1>0. Doing(t, "COMMIT") /\ Unique(draft[t])
    BY NeverCollides DEF Commit
  <1>1. Ends(t, "COMMITTED") /\ Doing(t, "COMMIT")
    BY <1>0 DEF Commit
  <1>2. draft[t] = Following(t) /\ draft[t] \in Events /\ trail \in Seq(Events)
    <2>1. draft[t] = Following(t) /\ trail \in Seq(Events)
      BY <1>1 DEF Drafted, TypeOK
    <2>2. draft[t] # NoDraft
      BY <2>1, TrailAssumption DEF Following, NoDraft
    <2> QED
      BY <2>1, <2>2 DEF TypeOK
  <1>3. /\ trail' = Append(trail, draft[t]) /\ trail' \in Seq(Events)
        /\ Len(trail) \in Nat /\ Len(trail') = Len(trail) + 1
        /\ \A i \in 1..Len(trail) : trail'[i] = trail[i]
        /\ trail'[Len(trail) + 1] = draft[t]
        /\ DOMAIN trail = 1..Len(trail) /\ DOMAIN trail' = 1..(Len(trail) + 1)
    <2>1. trail' = Append(trail, draft[t])
      BY <1>0 DEF Commit
    <2> QED
      BY <1>2, <2>1, LenProperties, AppendProperties
  <1>4. ChainVerifies'
    <2> SUFFICES ASSUME NEW i \in DOMAIN trail'
                 PROVE  /\ trail'[i].sequence = i
                        /\ trail'[i].prior = IF i = 1 THEN Zero ELSE trail'[i - 1].by
      BY DEF ChainVerifies
    <2>1. CASE i \in 1..Len(trail)
      <3>1. /\ trail[i].sequence = i
            /\ trail[i].prior = IF i = 1 THEN Zero ELSE trail[i - 1].by
        BY <2>1, <1>3 DEF ChainVerifies
      <3>2. trail'[i] = trail[i]
        BY <2>1, <1>3
      <3>3. CASE i = 1
        BY <3>1, <3>2, <3>3
      <3>4. CASE i # 1
        <4>1. i - 1 \in 1..Len(trail)
          BY <2>1, <3>4, <1>3
        <4>2. trail'[i - 1] = trail[i - 1]
          BY <4>1, <1>3
        <4> QED
          BY <3>1, <3>2, <3>4, <4>2
      <3> QED
        BY <3>3, <3>4
    <2>2. CASE i = Len(trail) + 1
      <3>1. draft[t].sequence = i
            /\ draft[t].prior = IF trail = <<>> THEN Zero ELSE trail[Len(trail)].by
        BY <2>2, <1>2 DEF Following
      <3>2. CASE trail = <<>>
        BY <3>1, <3>2, <2>2, <1>3, EmptySeq
      <3>3. CASE trail # <<>>
        <4>1. Len(trail) \in Nat \ {0}
          BY <3>3, <1>2, EmptySeq
        <4>2. i # 1 /\ i - 1 = Len(trail) /\ Len(trail) \in 1..Len(trail)
          BY <4>1, <2>2
        <4>3. trail'[i] = draft[t]
          BY <2>2, <1>3
        <4>4. trail'[i - 1] = trail[Len(trail)]
          BY <4>2, <1>3
        <4> QED
          BY <3>1, <3>3, <4>2, <4>3, <4>4
      <3> QED
        BY <3>2, <3>3
    <2> QED
      BY <2>1, <2>2, <1>3
  <1>5. \A u \in Transactions : u # t => ~Doing(u, "COMMIT")
    BY <1>1 DEF Appending, Exclusive
  <1>6. /\ UNCHANGED <<kind, at, subject, draft>> /\ Placed' /\ Exclusive' /\ Released' /\ Appending'
        /\ outcome'[t] = "COMMITTED" /\ \A u \in Transactions : u # t => outcome'[u] = outcome[u]
    BY <1>1, EndingSteps DEF Outcomes
  <1>7. TypeOK'
    BY <1>1, <1>3, EndingSteps DEF TypeOK, Outcomes
  <1>8. Drafted'
    BY <1>5, <1>6 DEF Drafted
  <1>9. NoCollision'
    BY <1>6 DEF NoCollision
  <1> QED
    BY <1>4, <1>6, <1>7, <1>8, <1>9

LEMMA LosingSteps ==
  ASSUME TrailInv, NEW t \in Transactions, Fail(t) \/ Victim(t)
  PROVE  TrailInv'
  <1> USE DEF TrailInv, LockInv
  <1>1. PICK how \in {"FAILED", "DEADLOCK"} : Ends(t, how) /\ UNCHANGED trail
    BY DEF Fail, Victim
  <1>2. /\ UNCHANGED <<kind, at, subject, draft>> /\ Placed' /\ Exclusive' /\ Released' /\ Appending'
        /\ outcome'[t] = how /\ \A u \in Transactions : u # t => outcome'[u] = outcome[u]
    BY <1>1, EndingSteps DEF Outcomes
  <1>3. TypeOK'
    BY <1>1, EndingSteps DEF TypeOK, Outcomes
  <1>4. Drafted'
    BY <1>1, <1>2 DEF Drafted, Following
  <1>5. ChainVerifies' /\ NoCollision'
    BY <1>1, <1>2 DEF ChainVerifies, NoCollision
  <1> QED
    BY <1>2, <1>3, <1>4, <1>5

LEMMA TrailInvariant == Spec => []TrailInv
  <1>1. TrailInv /\ [Next]_vars => TrailInv'
    <2> SUFFICES ASSUME TrailInv, [Next]_vars PROVE TrailInv'
      OBVIOUS
    <2>1. CASE UNCHANGED vars
      BY <2>1 DEF vars, locks, TrailInv, LockInv, TypeOK, Placed, Exclusive, Released, Appending,
                  Drafted, Following, ChainVerifies, NoCollision
    <2>2. ASSUME NEW t \in Transactions, LockClaim(t) \/ LockOrganization(t) \/ InsertRows(t)
          PROVE  TrailInv'
      BY <2>2, LockingSteps
    <2>3. ASSUME NEW t \in Transactions, ReadLast(t) PROVE TrailInv'
      BY <2>3, ReadingSteps
    <2>4. ASSUME NEW t \in Transactions, Commit(t) PROVE TrailInv'
      BY <2>4, CommitSteps
    <2>5. ASSUME NEW t \in Transactions, Fail(t) \/ Victim(t) PROVE TrailInv'
      BY <2>5, LosingSteps
    <2> QED
      BY <2>1, <2>2, <2>3, <2>4, <2>5 DEF Next, Proceed
  <1> QED
    BY <1>1, TrailInvInit, PTL DEF Spec

(* The chain of an organization verifies, without gaps and in the order of *)
(* the commits, whatever its transactions do at once and whichever fail.   *)
THEOREM ChainAlwaysVerifies == Spec => []ChainVerifies
  <1>1. TrailInv => ChainVerifies
    BY DEF TrailInv
  <1> QED
    BY <1>1, TrailInvariant, PTL

(* No transaction loses its change to another that took its sequence.      *)
THEOREM SequencesNeverCollide == Spec => []NoCollision
  <1>1. TrailInv => NoCollision
    BY DEF TrailInv
  <1> QED
    BY <1>1, TrailInvariant, PTL

-----------------------------------------------------------------------------
(* Deadlocks.  A transaction that locks first or inserts nothing never     *)
(* holds FOR KEY SHARE while it waits for more.                            *)

(* An orderly transaction inserts with the organization locked, if it      *)
(* inserts at all; nothing is held of the organization before its turn,    *)
(* and no claim before it has been locked.                                 *)
NoShare ==
  \A t \in Transactions : kind[t] \in Orderly =>
    /\ orgLock[t] # "KEY SHARE"
    /\ Doing(t, "INSERT") => orgLock[t] = "UPDATE"
HeldInTurn ==
  \A t \in Transactions : orgLock[t] # "NONE" => Running(t) /\ Step(t) \notin {"CLAIM", "LOCK"}
ClaimInTurn == \A t \in Transactions : Doing(t, "CLAIM") => \A c \in Claims : claimLock[c] # t

OrderInv == NoShare /\ HeldInTurn /\ ClaimInTurn

LEMMA OrderlyShapes ==
  ASSUME NEW k \in Orderly
  PROVE  Program[k] \in {Updates, LocksFirst, ClaimUpdates}
  BY DEF Orderly, Program, SubmitReport, UploadReceipt, RecordInspection, ViewReceipt,
         PublishPolicy, AnswerWithPurpose, ExportAgain

LEMMA OrderlyInserts ==
  ASSUME NEW k \in Kinds \cap Orderly, NEW i \in 1..5, i \in DOMAIN Program[k],
         Program[k][i] \in {"CLAIM", "LOCK", "INSERT"}, Program[k][i + 1] = "INSERT"
  PROVE  Program[k][i] = "LOCK"
  <1>1. Program[k] \in {Updates, LocksFirst, ClaimUpdates}
    BY OrderlyShapes
  <1> QED
    BY <1>1 DEF Updates, LocksFirst, ClaimUpdates

LEMMA OrderlyStarts ==
  ASSUME NEW k \in Kinds \cap Orderly
  PROVE  Program[k][1] # "INSERT"
  <1>1. Program[k] \in {Updates, LocksFirst, ClaimUpdates}
    BY OrderlyShapes
  <1> QED
    BY <1>1 DEF Updates, LocksFirst, ClaimUpdates

LEMMA OrderInvInit == Init => OrderInv
  <1> SUFFICES ASSUME Init PROVE OrderInv
    OBVIOUS
  <1>1. \A t \in Transactions : kind[t] \in Kinds /\ Step(t) = Program[kind[t]][1]
    BY DEF Init
  <1>2. NoShare
    BY <1>1, OrderlyStarts DEF Init, NoShare
  <1>3. HeldInTurn /\ ClaimInTurn
    BY TrailAssumption DEF Init, HeldInTurn, ClaimInTurn
  <1> QED
    BY <1>2, <1>3 DEF OrderInv

LEMMA OrderAdvances ==
  ASSUME TrailInv, OrderInv, NEW t \in Transactions,
         LockClaim(t) \/ LockOrganization(t) \/ InsertRows(t) \/ ReadLast(t)
  PROVE  OrderInv'
  <1> USE DEF OrderInv, TrailInv, LockInv
  <1>1. /\ Advance(t) /\ UNCHANGED <<kind, outcome>>
        /\ Running(t) /\ Step(t) \in {"CLAIM", "LOCK", "INSERT", "AUDIT", "READ"}
    BY DEF LockClaim, LockOrganization, InsertRows, ReadLast
  <1>2. /\ \A u \in Transactions : u # t => Step(u)' = Step(u)
        /\ Step(t)' \in {"INSERT", "AUDIT", "READ", "COMMIT"}
        /\ Step(t)' = "INSERT" => Step(t) \in {"CLAIM", "LOCK", "INSERT"}
    BY <1>1, AdvanceShape
  <1>3. kind[t] \in Orderly /\ Step(t)' = "INSERT" => Step(t) = "LOCK"
    <2> SUFFICES ASSUME kind[t] \in Orderly, Step(t)' = "INSERT" PROVE Step(t) = "LOCK"
      OBVIOUS
    <2>1. kind[t] \in Kinds \cap Orderly /\ at[t] \in 1..5 /\ at[t] \in DOMAIN Program[kind[t]]
      BY DEF TypeOK, Placed
    <2>2. Program[kind[t]][at[t] + 1] = "INSERT"
      BY <1>1 DEF Advance, TypeOK
    <2>3. Program[kind[t]][at[t]] \in {"CLAIM", "LOCK", "INSERT"}
      BY <1>2
    <2> QED
      BY <2>1, <2>2, <2>3, OrderlyInserts
  <1>4. /\ \A u \in Transactions : u # t => orgLock'[u] = orgLock[u]
        /\ Step(t) = "LOCK" => orgLock'[t] = "UPDATE"
        /\ orgLock'[t] = "KEY SHARE" =>
             orgLock[t] = "KEY SHARE" \/ (Step(t) = "INSERT" /\ orgLock[t] # "UPDATE")
    BY DEF LockClaim, LockOrganization, InsertRows, ReadLast, locks, TypeOK
  <1>5. \A u \in Transactions : u # t => \A c \in Claims : claimLock'[c] = u => claimLock[c] = u
    BY DEF LockClaim, LockOrganization, InsertRows, ReadLast, locks, TypeOK
  <1>6. NoShare'
    BY <1>1, <1>2, <1>3, <1>4 DEF NoShare
  <1>7. HeldInTurn'
    BY <1>1, <1>2, <1>4 DEF HeldInTurn
  <1>8. ClaimInTurn'
    BY <1>1, <1>2, <1>5 DEF ClaimInTurn
  <1> QED
    BY <1>6, <1>7, <1>8

LEMMA OrderEnds ==
  ASSUME TrailInv, OrderInv, NEW t \in Transactions, NEW how \in Outcomes \ {"RUNNING"},
         Ends(t, how)
  PROVE  OrderInv'
  <1> USE DEF OrderInv, TrailInv, LockInv
  <1>1. /\ UNCHANGED <<kind, at>> /\ orgLock'[t] = "NONE" /\ outcome'[t] # "RUNNING"
        /\ \A u \in Transactions : u # t => orgLock'[u] = orgLock[u] /\ outcome'[u] = outcome[u]
    BY DEF Ends, TypeOK, Outcomes
  <1>2. \A c \in Claims : \A u \in Transactions : claimLock'[c] = u => claimLock[c] = u
    BY TrailAssumption DEF Ends
  <1>3. NoShare'
    BY <1>1 DEF NoShare
  <1>4. HeldInTurn'
    BY <1>1 DEF HeldInTurn
  <1>5. ClaimInTurn'
    BY <1>1, <1>2 DEF ClaimInTurn
  <1> QED
    BY <1>3, <1>4, <1>5

LEMMA OrderInvariant == Spec => [](TrailInv /\ OrderInv)
  <1>1. TrailInv /\ OrderInv /\ [Next]_vars => OrderInv'
    <2> SUFFICES ASSUME TrailInv, OrderInv, [Next]_vars PROVE OrderInv'
      OBVIOUS
    <2>1. CASE UNCHANGED vars
      BY <2>1 DEF vars, locks, OrderInv, NoShare, HeldInTurn, ClaimInTurn
    <2>2. ASSUME NEW t \in Transactions,
                 LockClaim(t) \/ LockOrganization(t) \/ InsertRows(t) \/ ReadLast(t)
          PROVE  OrderInv'
      BY <2>2, OrderAdvances
    <2>3. ASSUME NEW t \in Transactions, Commit(t) \/ Fail(t) \/ Victim(t)
          PROVE  OrderInv'
      <3>1. PICK how \in Outcomes \ {"RUNNING"} : Ends(t, how)
        BY <2>3 DEF Commit, Fail, Victim, Outcomes
      <3> QED
        BY <3>1, OrderEnds
    <2> QED
      BY <2>1, <2>2, <2>3 DEF Next, Proceed
  <1> QED
    BY <1>1, OrderInvInit, TrailInvariant, PTL DEF Spec

(* Transactions, locks and the chain keep their types.                     *)
THEOREM TrailTypes == Spec => []TypeOK
  BY TrailInvariant, PTL DEF TrailInv, LockInv

(* Whoever is part of a deadlock shares the organization row and asks for  *)
(* it alone: who holds nothing of it is waited for by nobody it waits for, *)
(* and who holds it alone waits for nobody.                                *)
LEMMA DeadlockedShares ==
  ASSUME TrailInv, OrderInv, NEW t \in Transactions, InDeadlock(t)
  PROVE  Doing(t, "AUDIT") /\ orgLock[t] = "KEY SHARE"
  <1> USE DEF OrderInv, TrailInv, LockInv
  <1> DEFINE closed(R) == \A u \in R : Blockers(u) \subseteq R
  <1>1. \A R \in SUBSET Transactions : Blockers(t) \subseteq R /\ closed(R) => t \in R
    BY DEF InDeadlock
  <1>2. Blockers(t) # {}
    BY <1>1
  <1>3. orgLock[t] # "UPDATE"
    <2> SUFFICES ASSUME orgLock[t] = "UPDATE" PROVE Blockers(t) = {}
      BY <1>2
    <2>1. UpdateBlockers(t) = {} /\ ShareBlockers(t) = {}
      BY DEF Exclusive, UpdateBlockers, ShareBlockers, Others
    <2>2. Step(t) # "CLAIM"
      BY DEF HeldInTurn
    <2> QED
      BY <2>1, <2>2 DEF Blockers
  <1>4. ASSUME orgLock[t] = "NONE", Step(t) = "CLAIM"
        PROVE  FALSE
    <2> DEFINE R == Transactions \ {t}
    <2>1. \A u \in Transactions : t \notin Blockers(u)
      BY <1>2, <1>4 DEF Blockers, UpdateBlockers, ShareBlockers, ClaimBlockers, Others,
                         ClaimInTurn, TypeOK
    <2>2. \A u \in Transactions : Blockers(u) \subseteq Transactions
      BY DEF Blockers, UpdateBlockers, ShareBlockers, ClaimBlockers, Others
    <2>3. Blockers(t) \subseteq R /\ closed(R)
      BY <2>1, <2>2
    <2> QED
      BY <1>1, <2>3
  <1>5. ASSUME orgLock[t] = "NONE", Step(t) # "CLAIM"
        PROVE  FALSE
    <2> DEFINE R == {u \in Transactions : orgLock[u] # "NONE"}
    <2>1. \A u \in Transactions : Step(u) # "CLAIM" => Blockers(u) \subseteq R
      BY DEF Blockers, UpdateBlockers, ShareBlockers, Others
    <2>2. closed(R)
      BY <2>1 DEF HeldInTurn
    <2>3. Blockers(t) \subseteq R /\ t \notin R
      BY <1>5, <2>1
    <2> QED
      BY <1>1, <2>2, <2>3
  <1>6. orgLock[t] = "KEY SHARE"
    BY <1>3, <1>4, <1>5 DEF TypeOK
  <1>7. ShareBlockers(t) = {}
    BY <1>6 DEF Exclusive, ShareBlockers, Others
  <1> QED
    BY <1>2, <1>6, <1>7 DEF Blockers, HeldInTurn

(* It takes two transactions that inserted before they locked to make a    *)
(* deadlock, and one that keeps the lock order is never part of one:       *)
(* whoever the others are, and however many (services.py:376, main.py:396). *)
THEOREM LockOrderIsSafe == Spec => []LockFirstIsSafe
  <1>1. TrailInv /\ OrderInv => LockFirstIsSafe
    <2> SUFFICES ASSUME TrailInv, OrderInv, NEW t \in Transactions, InDeadlock(t)
                 PROVE  /\ kind[t] \notin Orderly
                        /\ \E u \in Others(t) :
                             \A v \in {t, u} : Doing(v, "AUDIT") /\ orgLock[v] = "KEY SHARE"
      BY DEF LockFirstIsSafe
    <2> USE DEF OrderInv, TrailInv, LockInv
    <2>1. Doing(t, "AUDIT") /\ orgLock[t] = "KEY SHARE"
      BY DeadlockedShares
    <2>2. kind[t] \notin Orderly
      BY <2>1 DEF NoShare
    <2>3. Blockers(t) = {u \in Others(t) : orgLock[u] = "KEY SHARE"}
      BY <2>1 DEF Blockers, UpdateBlockers, Exclusive, Others, TypeOK
    <2>4. \E u \in Blockers(t) : Doing(u, "AUDIT")
      <3> SUFFICES ASSUME \A u \in Blockers(t) : ~Doing(u, "AUDIT")
                   PROVE  FALSE
        OBVIOUS
      <3>1. \A u \in Blockers(t) : Blockers(u) = {}
        <4> SUFFICES ASSUME NEW u \in Blockers(t)
                     PROVE  Blockers(u) = {}
          OBVIOUS
        <4>1. u \in Transactions /\ orgLock[u] = "KEY SHARE"
          BY <2>3 DEF Others
        <4>2. Running(u) /\ Step(u) \notin {"CLAIM", "LOCK", "AUDIT"}
          BY <4>1 DEF HeldInTurn
        <4>3. ShareBlockers(u) = {}
          BY <4>1 DEF Exclusive, ShareBlockers, Others
        <4> QED
          BY <4>2, <4>3 DEF Blockers
      <3>2. Blockers(t) \in SUBSET Transactions /\ t \notin Blockers(t)
        BY <2>3 DEF Others
      <3> QED
        BY <3>1, <3>2 DEF InDeadlock
    <2> QED
      BY <2>1, <2>2, <2>3, <2>4
  <1> QED
    BY <1>1, OrderInvariant, PTL

VictimsInsertFirst ==
  \A t \in Transactions : outcome[t] = "DEADLOCK" => kind[t] \notin Orderly

(* PostgreSQL never aborts an upload, a submission or any other transaction *)
(* that keeps the lock order to end a deadlock, even while decisions and   *)
(* assessments that do not keep it run beside it (services.py:376).        *)
THEOREM OnlyInsertersAreVictims == Spec => []VictimsInsertFirst
  <1>1. Init => VictimsInsertFirst
    BY DEF Init, VictimsInsertFirst
  <1>2. TypeOK /\ LockFirstIsSafe /\ VictimsInsertFirst /\ [Next]_vars => VictimsInsertFirst'
    <2> SUFFICES ASSUME TypeOK, LockFirstIsSafe, VictimsInsertFirst, [Next]_vars
                 PROVE  VictimsInsertFirst'
      OBVIOUS
    <2>1. ASSUME NEW t \in Transactions, NEW how \in Outcomes, Ends(t, how),
                 how = "DEADLOCK" => kind[t] \notin Orderly
          PROVE  VictimsInsertFirst'
      BY <2>1 DEF Ends, VictimsInsertFirst, TypeOK
    <2>2. ASSUME NEW t \in Transactions, Victim(t)
          PROVE  VictimsInsertFirst'
      BY <2>1, <2>2 DEF Victim, LockFirstIsSafe, Outcomes
    <2>3. ASSUME NEW t \in Transactions, Commit(t) \/ Fail(t)
          PROVE  VictimsInsertFirst'
      BY <2>1, <2>3 DEF Commit, Fail, Outcomes
    <2>4. CASE UNCHANGED <<kind, outcome>>
      BY <2>4 DEF VictimsInsertFirst
    <2> QED
      BY <2>2, <2>3, <2>4
      DEF Next, Proceed, LockClaim, LockOrganization, InsertRows, ReadLast, vars
  <1> QED
    BY <1>1, <1>2, TrailTypes, LockOrderIsSafe, PTL DEF Spec
=============================================================================
