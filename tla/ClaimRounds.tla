---------------------------- MODULE ClaimRounds ----------------------------
(***************************************************************************)
(* The round of a claim, on which the handlers, the delivery of jobs and   *)
(* the worker have to agree: the submitting side opens a revision when the *)
(* last one has been assessed, and the worker closes it with its one       *)
(* assessment.  Each of the modules ExpenseClaim, AssessmentDelivery and   *)
(* Assessment has one side of this in detail and the other as a step of    *)
(* its environment.                                                        *)
(***************************************************************************)
EXTENDS Integers

VARIABLES revision,      \* the present revision, 0 before the first
          assessed       \* the revisions that have been assessed

roundVars == <<revision, assessed>>

RoundsInit == revision = 0 /\ assessed = {}

(* A submission, or the answer to a request for information.               *)
Open ==
  /\ revision = 0 \/ revision \in assessed
  /\ revision' = revision + 1
  /\ UNCHANGED assessed

(* The only assessment of the revision.                                    *)
Close ==
  /\ revision # 0 /\ revision \notin assessed
  /\ assessed' = assessed \cup {revision}
  /\ UNCHANGED revision

RoundsSpec == RoundsInit /\ [][Open \/ Close]_roundVars
=============================================================================
