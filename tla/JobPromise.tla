----------------------------- MODULE JobPromise -----------------------------
(***************************************************************************)
(* What the job pipeline promises to the features that use it, without     *)
(* leases, attempts, brokers or processes: the public life of a job        *)
(* (JobControlStatus in jobs/schemas.py) and how many outbox messages      *)
(* still have to be settled for it. There is never more than one, exactly  *)
(* one while the job has to run, and none once it succeeded or failed.     *)
(***************************************************************************)
EXTENDS Naturals

CONSTANT Jobs

VARIABLES
  phase,   \* what the job row says
  asked,   \* a cancel was requested, and is never taken back
  owed     \* messages accepted for the job and not settled

vars == <<phase, asked, owed>>

Outcomes == {"succeeded", "partially_succeeded", "failed"}

PromiseTypeOK ==
  /\ phase \in [Jobs -> {"absent", "queued", "running", "cancelled"} \cup Outcomes]
  /\ asked \in [Jobs -> BOOLEAN]
  /\ owed \in [Jobs -> {0, 1}]

Init ==
  /\ phase = [j \in Jobs |-> "absent"]
  /\ asked = [j \in Jobs |-> FALSE]
  /\ owed = [j \in Jobs |-> 0]

Move(j, from, to) ==
  phase[j] \in from /\ phase' = [phase EXCEPT ![j] = to]

Asked(j) == asked' = [asked EXCEPT ![j] = TRUE]

(* A new job, or a failed one that is retried by hand: one message each.   *)
Accept(j) ==
  /\ Move(j, {"absent", "failed"}, "queued")
  /\ owed' = [owed EXCEPT ![j] = @ + 1]
  /\ UNCHANGED asked

(* The job starts; a collection whose topic was paused starts cancelled.   *)
Start(j) ==
  /\ Move(j, {"queued"}, "running")
  /\ UNCHANGED asked \/ Asked(j)
  /\ UNCHANGED owed

AskCancel(j) ==
  /\ phase[j] = "running" /\ Asked(j)
  /\ UNCHANGED <<phase, owed>>

(* Nobody runs the job: cancelled at once, its message still to settle.    *)
CancelUnheld(j) ==
  /\ Move(j, {"queued", "running"}, "cancelled")
  /\ ~asked[j] /\ Asked(j)
  /\ UNCHANGED owed

(* An executor settles the job together with the message that started it. *)
Settle(j) ==
  /\ ~asked[j]
  /\ \E outcome \in Outcomes : Move(j, {"running"}, outcome)
  /\ owed' = [owed EXCEPT ![j] = @ - 1]
  /\ UNCHANGED asked

(* A transient failure settles one message and owes the next one.          *)
Delay(j) ==
  /\ ~asked[j]
  /\ Move(j, {"running"}, "queued")
  /\ UNCHANGED <<asked, owed>>

SettleCancelled(j) ==
  /\ Move(j, {"running"}, "cancelled")
  /\ Asked(j)
  /\ owed' = [owed EXCEPT ![j] = @ - 1]

(* The message of a job that was cancelled before it was consumed.         *)
Acknowledge(j) ==
  /\ phase[j] = "cancelled" /\ owed[j] > 0
  /\ owed' = [owed EXCEPT ![j] = @ - 1]
  /\ UNCHANGED <<phase, asked>>

Next ==
  \E j \in Jobs :
    \/ Accept(j) \/ Start(j) \/ AskCancel(j) \/ CancelUnheld(j)
    \/ Settle(j) \/ Delay(j) \/ SettleCancelled(j) \/ Acknowledge(j)

Spec == Init /\ [][Next]_vars

(* One message while the job has to run, none once it has its outcome.     *)
OwedWhileLive ==
  \A j \in Jobs :
    /\ phase[j] \in {"queued", "running"} => owed[j] = 1
    /\ phase[j] \in {"absent"} \cup Outcomes => owed[j] = 0
=============================================================================
