----------------------------- MODULE LeasedJob -----------------------------
(***************************************************************************)
(* A job as the handler that runs it sees it: the lease of JobExecution    *)
(* without attempts, messages and processes. A handler holds an epoch. Its *)
(* lease may end while it still runs, and another handler may then hold    *)
(* the next epoch; what the first writes after that must be fenced.        *)
(* The modules of the handlers extend this one.                            *)
(***************************************************************************)
EXTENDS Integers, FiniteSets

CONSTANTS
  Jobs,
  MaxEpochs  \* bound of the model: how often each job is acquired

VARIABLE job

Finished == {"succeeded", "partially_succeeded", "failed", "cancelled"}

JobTypeOK ==
  job \in [Jobs -> [status : {"queued", "running"} \cup Finished,
                    epoch : Nat, held : BOOLEAN, asked : BOOLEAN]]

JobInit ==
  job = [j \in Jobs |-> [status |-> "queued", epoch |-> 0, held |-> FALSE, asked |-> FALSE]]

(* _require_current_lease, and the stricter check of a handler that must   *)
(* not go on once a cancel was requested.                                  *)
Holds(j, epoch) == job[j].status = "running" /\ job[j].held /\ job[j].epoch = epoch
MayWork(j, epoch) == Holds(j, epoch) /\ ~job[j].asked

Acquire(j) ==
  /\ job[j].status = "queued" \/ (job[j].status = "running" /\ ~job[j].held)
  /\ job[j].epoch < MaxEpochs[j]
  /\ job' = [job EXCEPT ![j].status = "running", ![j].epoch = @ + 1, ![j].held = TRUE]

(* The time of the lease is over: its process died or missed heartbeats.   *)
LeaseEnds(j) ==
  /\ job[j].held
  /\ job' = [job EXCEPT ![j].held = FALSE]

(* A job nobody holds is cancelled at once, a held one by its handler.     *)
AskCancel(j) ==
  /\ job[j].status \in {"queued", "running"} /\ ~job[j].asked
  /\ job' = [job EXCEPT ![j].asked = TRUE,
               ![j].status = IF job[j].held THEN @ ELSE "cancelled"]

(* The row after its handler reported outcome; a requested cancel wins.    *)
Released(j, outcome) ==
  [job EXCEPT ![j].held = FALSE, ![j].status = IF job[j].asked THEN "cancelled" ELSE outcome]

RetryByHand(j) ==
  /\ job[j].status = "failed"
  /\ job' = [job EXCEPT ![j].status = "queued"]

-----------------------------------------------------------------------------
(* What JobExecution does to one job. A transaction that acquires or       *)
(* settles the job of a topic which has moved on also cancels it           *)
(* (_cancel_stale_topic_collection); its handler cannot tell that from a   *)
(* cancel just before or after, which is how the handlers' modules have it. *)
AcquireCancelled(j) ==
  /\ job[j].status = "queued" \/ (job[j].status = "running" /\ ~job[j].held)
  /\ job[j].epoch < MaxEpochs[j]
  /\ job' = [job EXCEPT ![j].status = "running", ![j].epoch = @ + 1, ![j].held = TRUE,
               ![j].asked = TRUE]

EndsUnderLease(j) ==
  /\ Holds(j, job[j].epoch)
  /\ \/ \E outcome \in {"queued", "succeeded", "partially_succeeded", "failed"} :
          job' = Released(j, outcome)
     \/ job' = [job EXCEPT ![j].held = FALSE, ![j].status = "cancelled", ![j].asked = TRUE]

LeaseNext ==
  \E j \in Jobs : \/ Acquire(j) \/ AcquireCancelled(j) \/ LeaseEnds(j)
                 \/ AskCancel(j) \/ EndsUnderLease(j) \/ RetryByHand(j)

LeaseSpec == JobInit /\ [][LeaseNext]_job
=============================================================================
