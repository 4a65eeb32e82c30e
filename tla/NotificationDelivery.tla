------------------------ MODULE NotificationDelivery ------------------------
(***************************************************************************)
(* One notification on its way to its destination: the delivery row, the   *)
(* notification.send job that sends it, the worker process and the job     *)
(* processes it starts, users who cancel or retry the job, and the         *)
(* operator who looks at the destination.                                  *)
(*                                                                         *)
(* The provider cannot be asked what became of a request. taken counts how *)
(* often the destination took the message, which no process sees: the      *)
(* operator does. The job is the one of JobExecution with the messages     *)
(* left out; a lease is held (leased) or has ended.                        *)
(***************************************************************************)
EXTENDS Integers, FiniteSets

CONSTANTS
  SendLimit,    \* sends of a delivery: 3 in the code
  RetryLimit,   \* max_attempts of an automatic retry: 3 in the code
  Cancels,      \* whether users cancel the job
  (* bounds of the model, never of the code *)
  MaxEpochs, MaxRetries, MaxFaults

ASSUME LimitsAssumption == SendLimit \in Nat \ {0} /\ RetryLimit \in Nat \ {0}

VARIABLES
  row,       \* notification_deliveries
  job,       \* its job row
  parent,    \* the dispatcher in the worker
  children,  \* job processes; one whose parent died may live on
  taken,     \* times the destination took the message
  faults     \* crashes and leases lost so far

vars == <<row, job, parent, children, taken, faults>>

Reports == {"succeeded", "unknown", "refused", "misconfigured", "transient",
            "network", "error", "timeout", "stopped"}
Ended == {"succeeded", "failed", "cancelled"}
NoReport == "none"

HeldBy(epoch) == job.status = "running" /\ job.leased /\ job.epoch = epoch
Accepted == row.receipt = "accepted"
InFlight == row.status = "sending" /\ ~Accepted

-----------------------------------------------------------------------------
(* Faulty variants, each with one plausible mistake, for the mutants that  *)
(* PROJECT.json lists. Nothing here is part of the specification.          *)

GuardWithoutEpoch(c) == job.status = "running" /\ job.leased /\ ~job.asked

SendableAgain == row.status \in {"pending", "failed", "sending"}

AttemptsLeftOneMore == row.attempts <= SendLimit

FailureStatusCertain(answer) == "failed"

MarkedNever == row

ManualUnlessTimeout(report) == report \in {"misconfigured", "network", "error"}

-----------------------------------------------------------------------------
TypeOK ==
  /\ row \in [status : {"pending", "sending", "succeeded", "failed", "unknown"},
              attempts : 0 .. SendLimit,
              receipt : {"none", "accepted", "delivered", "not_delivered"}]
  /\ job \in [status : {"queued", "running"} \cup Ended, epoch : Nat, leased : BOOLEAN,
              asked : BOOLEAN, retries : Nat, error : {"none", "confirmed"} \cup Reports,
              manual : BOOLEAN]
  /\ parent \in [pc : {"idle", "running", "marking", "reporting"}, epoch : Nat,
                 report : Reports \cup {NoReport}]
  /\ children \subseteq
       [epoch : 1 .. job.epoch, pc : {"new", "sending", "answered", "saved", "done"},
        answer : {"none", "accepted", "uncertain", "rejected"} \cup Reports]
  /\ taken \in Nat /\ faults \in Nat

(* enqueue_subject_in_transaction: the row and its job, one transaction    *)
Init ==
  /\ row = [status |-> "pending", attempts |-> 0, receipt |-> "none"]
  /\ job = [status |-> "queued", epoch |-> 0, leased |-> FALSE, asked |-> FALSE,
            retries |-> 0, error |-> "none", manual |-> FALSE]
  /\ parent = [pc |-> "idle", epoch |-> 0, report |-> NoReport]
  /\ children = {}
  /\ taken = 0
  /\ faults = 0

-----------------------------------------------------------------------------
(* The child: NotificationExecutor.execute.                                *)

(* _guard: the lease is still its own, and no cancel was requested.        *)
Guard(c) == HeldBy(c.epoch) /\ ~job.asked

Becomes(c, pc, answer) ==
  children' = (children \ {c}) \cup {[c EXCEPT !.pc = pc, !.answer = answer]}
Done(c, report) == Becomes(c, "done", report)

GuardRaises(c) ==
  /\ c.pc \in {"new", "saved"} \/ (c.pc = "answered" /\ c.answer # "none")
  /\ ~Guard(c)
  /\ Done(c, "error")
  /\ UNCHANGED <<row, job, parent, taken, faults>>

Sendable == row.status \in {"pending", "failed"}
AttemptsLeft == row.attempts < SendLimit

(* _prepare finds how an earlier attempt ended.                            *)
PrepareSettled(c) ==
  /\ c.pc = "new" /\ Guard(c)
  /\ \/ row.status = "succeeded" /\ Done(c, "succeeded")
     \/ row.status = "unknown" /\ Done(c, "unknown")
     \/ row.status = "sending" /\ Accepted /\ Becomes(c, "saved", "accepted")
  /\ UNCHANGED <<row, job, parent, taken, faults>>

PrepareInterrupted(c) ==
  /\ c.pc = "new" /\ Guard(c)
  /\ InFlight
  /\ row' = [row EXCEPT !.status = "unknown"]
  /\ Done(c, "unknown")
  /\ UNCHANGED <<job, parent, taken, faults>>

(* The material, the target, its subscription or its binding changed (for  *)
(* good), or transport or budget are missing; or the attempts are used up. *)
PrepareRefuses(c) ==
  /\ c.pc = "new" /\ Guard(c) /\ Sendable
  /\ \/ AttemptsLeft /\ Done(c, "misconfigured")
     \/ Done(c, "refused")
  /\ UNCHANGED <<row, job, parent, taken, faults>>

PrepareSends(c) ==
  /\ c.pc = "new" /\ Guard(c) /\ Sendable /\ AttemptsLeft
  /\ row' = [row EXCEPT !.status = "sending", !.attempts = @ + 1]
  /\ Becomes(c, "sending", "none")
  /\ UNCHANGED <<job, parent, taken, faults>>

(* The request and its answer: an answer may be lost whatever was done.    *)
Send(c) ==
  /\ c.pc = "sending"
  /\ \/ taken' = taken + 1 /\ Becomes(c, "answered", "accepted")
     \/ taken' = taken /\ Becomes(c, "answered", "rejected")
     \/ taken' \in {taken, taken + 1} /\ Becomes(c, "answered", "uncertain")
  /\ UNCHANGED <<row, job, parent, faults>>

SaveReceipt(c) ==
  /\ c.pc = "answered" /\ c.answer = "accepted" /\ Guard(c)
  /\ IF row.status = "sending"
       THEN row' = [row EXCEPT !.receipt = "accepted"] /\ Becomes(c, "saved", "accepted")
       ELSE Done(c, "unknown") /\ UNCHANGED row
  /\ UNCHANGED <<job, parent, taken, faults>>

Finish(c) ==
  /\ c.pc = "saved" /\ Guard(c)
  /\ IF Accepted
       THEN row' = [row EXCEPT !.status = "succeeded"] /\ Done(c, "succeeded")
       ELSE Done(c, "unknown") /\ UNCHANGED row
  /\ UNCHANGED <<job, parent, taken, faults>>

FailureStatus(answer) == IF answer = "uncertain" THEN "unknown" ELSE "failed"

RecordFailure(c) ==
  /\ c.pc = "answered" /\ c.answer \in {"uncertain", "rejected"} /\ Guard(c)
  /\ row' = [row EXCEPT !.status = FailureStatus(c.answer)]
  /\ Done(c, IF c.answer = "uncertain" THEN "unknown" ELSE "transient")
  /\ UNCHANGED <<job, parent, taken, faults>>

(* Any other exception of the child, between two of its transactions       *)
ChildRaises(c) ==
  /\ c.pc # "done" /\ faults < MaxFaults                             \* bound
  /\ \E report \in {"error", "network"} : Done(c, report)
  /\ faults' = faults + 1
  /\ UNCHANGED <<row, job, parent, taken>>

Hosts(c) == parent.pc = "running" /\ parent.epoch = c.epoch

ChildReturns(c) ==
  /\ c.pc = "done"
  /\ children' = children \ {c}
  /\ parent' = IF Hosts(c) THEN [parent EXCEPT !.pc = "reporting", !.report = c.answer]
                           ELSE parent
  /\ UNCHANGED <<row, job, taken, faults>>

-----------------------------------------------------------------------------
(* The dispatcher.                                                         *)
Acquire ==
  /\ parent.pc = "idle"
  /\ job.status = "queued" \/ (job.status = "running" /\ ~job.leased)
  /\ job.epoch < MaxEpochs                                           \* bound
  /\ job' = [job EXCEPT !.status = "running", !.epoch = @ + 1, !.leased = TRUE]
  /\ parent' = [pc |-> "running", epoch |-> job.epoch + 1, report |-> NoReport]
  /\ children' = children \cup
       {[epoch |-> job.epoch + 1, pc |-> "new", answer |-> "none"]}
  /\ UNCHANGED <<row, taken, faults>>

Reaped == {c \in children : ~Hosts(c)}
Idle == parent' = [pc |-> "idle", epoch |-> 0, report |-> NoReport]

(* A cancel stops the child, and so does the execution deadline.           *)
StopChild ==
  /\ parent.pc = "running" /\ HeldBy(parent.epoch)
  /\ \E report \in {"timeout"} \cup (IF job.asked THEN {"stopped"} ELSE {}) :
       parent' = [parent EXCEPT !.pc = "reporting", !.report = report]
  /\ children' = Reaped
  /\ UNCHANGED <<row, job, taken, faults>>

LeaseLost ==
  /\ parent.pc = "running" /\ ~HeldBy(parent.epoch)
  /\ parent' = [parent EXCEPT !.pc = "marking"]
  /\ children' = Reaped
  /\ UNCHANGED <<row, job, taken, faults>>

(* The child dies without a result, or the worker is asked to shut down.   *)
ChildCrashes ==
  /\ parent.pc = "running" /\ faults < MaxFaults                     \* bound
  /\ parent' = [parent EXCEPT !.pc = "marking"]
  /\ children' = Reaped
  /\ faults' = faults + 1
  /\ UNCHANGED <<row, job, taken>>

(* mark_interrupted_sending_in_transaction                                 *)
Marked ==
  IF InFlight THEN [row EXCEPT !.status = "unknown"] ELSE row

MarkInterrupted ==
  /\ parent.pc = "marking"
  /\ row' = Marked
  /\ Idle
  /\ UNCHANGED <<job, children, taken, faults>>

ManualRetry(report) == report \in {"misconfigured", "network", "error", "timeout"}
Automatic(report) == report \in {"transient", "network"} /\ job.retries + 1 < RetryLimit

Settled(report) ==
  IF job.asked
    THEN [job EXCEPT !.status = "cancelled", !.leased = FALSE]
  ELSE IF report \in {"succeeded", "stopped"}
    THEN [job EXCEPT !.status = "succeeded", !.leased = FALSE, !.error = "none",
                     !.manual = FALSE]
  ELSE [job EXCEPT !.status = IF Automatic(report) THEN "queued" ELSE "failed",
                   !.retries = IF Automatic(report) THEN @ + 1 ELSE @,
                   !.leased = FALSE, !.error = report, !.manual = ManualRetry(report)]

(* _finalize_supervised_result marks the row in the transaction that       *)
(* settles the job; a stale lease rolls both back and ends the worker.     *)
Finalize ==
  /\ parent.pc = "reporting"
  /\ IF HeldBy(parent.epoch)
       THEN row' = Marked /\ job' = Settled(parent.report)
       ELSE UNCHANGED <<row, job>>
  /\ Idle
  /\ UNCHANGED <<children, taken, faults>>

ParentDies ==
  /\ parent.pc # "idle" /\ faults < MaxFaults                        \* bound
  /\ Idle
  /\ children' \in {children, Reaped}
  /\ faults' = faults + 1
  /\ UNCHANGED <<row, job, taken>>

(* The lease of a parent that lives is renewed: letting it end is a fault. *)
(* A request is shorter than the lease that was renewed when it began.     *)
LeaseEnds ==
  /\ job.status = "running" /\ job.leased
  /\ \A c \in children : c.epoch = job.epoch => c.pc # "sending"
  /\ LET renewed == parent.pc \in {"running", "reporting"} IN
     /\ ~renewed \/ faults < MaxFaults                               \* bound
     /\ faults' = IF renewed THEN faults + 1 ELSE faults
  /\ job' = [job EXCEPT !.leased = FALSE]
  /\ UNCHANGED <<row, parent, children, taken>>

-----------------------------------------------------------------------------
(* The job API and the operator.                                           *)
RequestCancel ==
  /\ Cancels /\ ~job.asked
  /\ job.status \in {"queued", "running"}
  /\ job' = IF job.leased THEN [job EXCEPT !.asked = TRUE]
            ELSE [job EXCEPT !.asked = TRUE, !.status = "cancelled"]
  /\ UNCHANGED <<row, parent, children, taken, faults>>

Retryable == job.status = "failed" /\ job.manual
RequestRetry ==
  /\ Retryable
  /\ job.retries < MaxRetries                                        \* bound
  /\ job' = [job EXCEPT !.status = "queued", !.retries = @ + 1]
  /\ UNCHANGED <<row, parent, children, taken, faults>>

(* resolve and record_operator_notification_resolution_in_transaction; the *)
(* operator reports what the destination shows.                            *)
Resolvable(delivered) ==
  /\ row.status = "unknown"
  /\ delivered \/ AttemptsLeft
  /\ job.status = "failed" /\ job.error = "unknown"

Resolve ==
  LET delivered == taken > 0 IN
  /\ Resolvable(delivered)
  /\ row' = [row EXCEPT !.status = IF delivered THEN "succeeded" ELSE "failed",
                        !.receipt = IF delivered THEN "delivered" ELSE "not_delivered"]
  /\ job' = [job EXCEPT !.error = "confirmed", !.manual = ~delivered]
  /\ UNCHANGED <<parent, children, taken, faults>>

-----------------------------------------------------------------------------
ChildStep(c) ==
  \/ GuardRaises(c)
  \/ PrepareSettled(c) \/ PrepareInterrupted(c) \/ PrepareRefuses(c) \/ PrepareSends(c)
  \/ Send(c) \/ SaveReceipt(c) \/ Finish(c) \/ RecordFailure(c) \/ ChildReturns(c)

WorkerStep == Acquire \/ LeaseLost \/ MarkInterrupted \/ Finalize

Next ==
  \/ \E c \in children : ChildStep(c) \/ ChildRaises(c)
  \/ WorkerStep \/ StopChild \/ ChildCrashes \/ ParentDies \/ LeaseEnds
  \/ RequestCancel \/ RequestRetry \/ Resolve

Spec == Init /\ [][Next]_vars

(* The worker keeps consuming, its children run, and time ends leases that *)
(* nobody renews. Nobody has to cancel, retry or resolve.                  *)
Fairness ==
  /\ WF_vars(WorkerStep)
  /\ WF_vars(\E c \in children : ChildStep(c))
  /\ WF_vars(LeaseEnds /\ parent.pc \in {"idle", "marking"})

FairSpec == Spec /\ Fairness

-----------------------------------------------------------------------------
(* Whatever crashes, expires, is retried or resolved, the destination gets *)
(* the message at most once: an attempt of unknown result is not repeated  *)
(* before the operator saw that it did not arrive.                         *)
TakenAtMostOnce == taken <= 1

(* The row never claims more than is known: "succeeded" was taken by the   *)
(* destination, "failed" was not.                                          *)
OutcomeIsTruthful ==
  /\ row.status = "succeeded" => taken = 1
  /\ row.status = "failed" => taken = 0

(* When the job has ended, a delivery without an outcome can still get the *)
(* true one, from the operator or by a manual retry. Two exceptions: the   *)
(* job was cancelled, or the last attempt allowed did not arrive.          *)
AtRest == job.status \in Ended /\ children = {} /\ parent.pc = "idle"
Open == row.status \in {"sending", "unknown"} /\ (taken > 0 \/ AttemptsLeft)
CanBeFinished == Retryable \/ Resolvable(taken > 0)

OpenDeliveryCanBeFinished ==
  AtRest /\ Open /\ job.status # "cancelled" => CanBeFinished

(* The same for every job: what the API offers for unknown notifications.  *)
EveryOpenDeliveryCanBeFinished == AtRest /\ Open => CanBeFinished

(* Nothing but the operator's word turns an unknown result into another.   *)
UnknownStaysUntilResolved ==
  [][row.status = "unknown" => row' = row \/ row'.receipt \in {"delivered", "not_delivered"}]_vars

(* A request does not stay open: every send that was begun gets a saved    *)
(* receipt or an outcome, or becomes unknown and is left to the operator,  *)
(* unless its job is cancelled first.                                      *)
SendingEnds == InFlight ~> ~InFlight \/ job.status = "cancelled"
=============================================================================
