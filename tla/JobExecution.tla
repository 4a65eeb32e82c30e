---------------------------- MODULE JobExecution ----------------------------
(***************************************************************************)
(* The durable job pipeline: a job row and its outbox message are written  *)
(* in one PostgreSQL transaction, the worker publishes the outbox to one   *)
(* Kafka partition and consumes it back, runs every job under a lease in a *)
(* child process, and commits the offset after the business transaction.   *)
(* A host runner delivers the same outbox messages without Kafka.          *)
(*                                                                         *)
(* Every action is one transaction of the code (they all start by locking  *)
(* the job row), or one step of a process between two transactions.        *)
(*                                                                         *)
(* Time: every timestamp the code compares with now() is kept as the ticks *)
(* left until it, 0 once it has passed, so that the clock is unbounded.    *)
(***************************************************************************)
EXTENDS Integers, Sequences, FiniteSets

CONSTANTS
  Jobs,           \* rows of the jobs table, accepted or not
  TopicJobs,      \* keyword.search / source.comments of a monitored topic
  AiJobs,         \* kinds whose abandoned AI calls are recovered on acquire
  HostJobs,       \* kinds the host runner also delivers
  Worker,         \* the Kafka worker (docker-compose.yml runs exactly one)
  HostRunners,    \* processes that deliver the outbox without Kafka
  NoRunner,       \* lease_owner IS NULL
  NoMessage,      \* a runner holds no message
  LeaseTicks,     \* lease_seconds
  RetryTicks,     \* delay of an automatic retry
  MaxAttempts,    \* max_attempts of an automatic retry policy
  (* bounds of the model, never of the code *)
  MaxRetries, MaxRedispatches, MaxRequests, MaxCheckpoints,
  MaxTopicChanges, MaxFaults, MaxEpochs

ASSUME JobSetsAssumption ==
  /\ TopicJobs \subseteq Jobs /\ AiJobs \subseteq Jobs /\ HostJobs \subseteq Jobs
  /\ AiJobs \cap (TopicJobs \cup HostJobs) = {}
ASSUME RunnersAssumption ==
  Worker \notin HostRunners /\ NoRunner \notin HostRunners \cup {Worker}
ASSUME TicksAssumption ==
  LeaseTicks \in Nat \ {0} /\ RetryTicks \in Nat /\ MaxAttempts \in Nat
ASSUME MessageAssumption == NoMessage \notin Jobs \X (Nat \ {0})
ASSUME RedispatchAssumption == MaxRedispatches \in Nat
ASSUME EpochsAssumption == MaxEpochs \in Nat

VARIABLES
  (* the jobs row *)
  status,      \* "absent" before it is accepted
  lease,       \* lease_owner, lease_epoch, ticks left to lease_expires_at
  cancel,      \* cancel_requested_at set, ticks left to cancel_deadline_at
  retry,       \* retry_count, defer_reason, ticks left to next_run_at
  work,        \* checkpoint_sequence, requests_sent and the budget cycle
  error,       \* last_error_* recorded, manual_retry_allowed
  frozen,      \* scope.topic_collection_sequence
  (* the other tables *)
  attempts,    \* outcome of every job_attempts row, by lease_epoch
  dispatched,  \* number of outbox messages (the last dispatch_sequence)
  available,   \* ticks left to available_at of the last one
  unpublished, \* outbox messages with published_at NULL
  processed,   \* processed_messages
  topic,       \* the monitored topic: status and last event_sequence
  (* processes *)
  log,         \* the Kafka partition from the committed offset on
  runner,      \* the worker and the host runners
  children,    \* leases that live job processes hold
  accepting,   \* topic sequence read by an acceptance not yet inserted
  faults       \* crashes, lost publishes and missed heartbeats so far

rows == <<status, lease, cancel, retry, work, error, frozen>>
outboxTable == <<dispatched, available, unpublished>>
vars == <<rows, attempts, outboxTable, processed, topic,
          log, runner, children, accepting, faults>>

Runners == HostRunners \cup {Worker}
Messages == Jobs \X (Nat \ {0})
Terminal == {"succeeded", "partially_succeeded", "failed", "cancelled"}
Live == {"queued", "running"}
Failures == {"failed", "transient"}
Reports == {"none", "succeeded", "partial", "stopped"} \cup Failures

NotAccepting == -1
Lesser(a, b) == IF a < b THEN a ELSE b
Countdown(n) == IF n > 0 THEN n - 1 ELSE 0

(* collection_topic_matches_in_transaction *)
TopicMatches(j) ==
  j \in TopicJobs => topic.status = "active" /\ topic.sequence = frozen[j]

Token(r) == [job |-> runner[r].msg[1], owner |-> r, epoch |-> runner[r].epoch]

-----------------------------------------------------------------------------
(* Faulty variants of the definitions below, each with one plausible       *)
(* mistake. PROJECT.json pairs every property with a variant that breaks   *)
(* it; nothing here is part of the specification.                          *)

FencedCancelIgnoresTopic(j, left) == cancel[j]

FencedCancelBackdated(j, left) ==
  IF cancel[j].asked \/ TopicMatches(j) THEN cancel[j]
  ELSE [asked |-> TRUE, left |-> left - LeaseTicks]

CurrentWithoutEpoch(token) ==
  /\ status[token.job] = "running"
  /\ lease[token.job].owner = token.owner
  /\ lease[token.job].left > 0

CloseAttemptOffByOne(j, outcome) ==
  attempts' = [attempts EXCEPT ![j] =
    [e \in DOMAIN @ |-> IF e = lease[j].epoch + 1 THEN outcome ELSE @[e]]]

RecordNothing(m) == UNCHANGED processed

DispatchReusesSequence(j, delay) ==
  /\ dispatched' = [dispatched EXCEPT ![j] = 1]
  /\ available' = [available EXCEPT ![j] = delay]
  /\ unpublished' = unpublished \cup {<<j, 1>>}

ReleaseLeaseKeepsOwner(j) == lease' = [lease EXCEPT ![j].left = 0]

UnheldEvenIfSettled(j) ==
  status[j] \notin {"absent", "cancelled"} /\ lease[j].left = 0

PublishMarksFirst ==
  /\ runner[Worker].pc = "idle" /\ unpublished # {} /\ faults < MaxFaults
  /\ unpublished' = {}
  /\ faults' = faults + 1
  /\ UNCHANGED <<rows, attempts, dispatched, available, processed, topic, log, runner,
                 children, accepting>>

AcknowledgesStarted(j) == status[j] = "cancelled" /\ lease[j].epoch > 0

AcquirableQueued(j) == status[j] = "queued" /\ retry[j].left = 0

OpensCycleAtEveryRetry(j) == status[j] = "queued"

RecoveryRaisesForAll(r) == cancel[Token(r).job].asked

StopsChildLate(j) == cancel[j].asked \/ lease[j].left = 1

SettlesWithoutInbox(r) ==
  /\ runner[r].pc = "reporting"
  /\ status[Token(r).job] = "running"
  /\ lease[Token(r).job] = [owner |-> r, epoch |-> runner[r].epoch,
                            left |-> lease[Token(r).job].left]
  /\ lease[Token(r).job].left > 0

ShouldRetryOnceMore(r) ==
  /\ runner[r].report = "transient"
  /\ runner[r].wait > 0
  /\ retry[Token(r).job].count < MaxAttempts

-----------------------------------------------------------------------------
(* Helpers every transaction uses.                                         *)

(* _cancel_stale_topic_collection, for a lease that ends in left ticks *)
FencedCancel(j, left) ==
  IF cancel[j].asked \/ TopicMatches(j) THEN cancel[j]
  ELSE [asked |-> TRUE, left |-> left]

(* _require_current_lease: token is the identity an executor holds *)
Current(token) ==
  /\ status[token.job] = "running"
  /\ lease[token.job].owner = token.owner
  /\ lease[token.job].epoch = token.epoch
  /\ lease[token.job].left > 0

(* UPDATE job_attempts SET outcome ... WHERE finished_at IS NULL *)
CloseAttempt(j, outcome) ==
  attempts' = [attempts EXCEPT ![j] =
    [e \in DOMAIN @ |->
       IF e = lease[j].epoch /\ @[e] = "open" THEN outcome ELSE @[e]]]

(* INSERT INTO processed_messages, in the transaction that settles          *)
Record(m) == processed' = processed \cup {m}

(* INSERT INTO outbox_messages with the next dispatch_sequence *)
Dispatch(j, delay) ==
  /\ dispatched' = [dispatched EXCEPT ![j] = @ + 1]
  /\ available' = [available EXCEPT ![j] = delay]
  /\ unpublished' = unpublished \cup {<<j, dispatched[j] + 1>>}

ReleaseLease(j) ==
  lease' = [lease EXCEPT ![j] = [owner |-> NoRunner, epoch |-> @.epoch, left |-> 0]]

(* defer_reason and next_run_at are NULL *)
NotDeferred(j) ==
  retry' = [retry EXCEPT ![j] = [count |-> @.count, left |-> 0, defer |-> "none"]]

Goto(r, pc) == runner' = [runner EXCEPT ![r].pc = pc]

Resting(pc, wait) ==
  [pc |-> pc, msg |-> NoMessage, epoch |-> 0, report |-> "none", wait |-> wait]

ToReport(r, report, wait) ==
  runner' = [runner EXCEPT ![r].pc = "reporting", ![r].report = report,
                           ![r].wait = wait]

(* An exception leaves the message uncommitted: the process ends.          *)
Drop(r, pc) == runner' = [runner EXCEPT ![r] = Resting(pc, 0)]

(* MessageDeferredError: the worker waits, a host runner goes on.          *)
Defer(r, wait) ==
  runner' = [runner EXCEPT ![r] =
    IF r = Worker THEN Resting("deferred", wait) ELSE Resting("idle", 0)]

-----------------------------------------------------------------------------
(* The type invariant, in the three parts its proof goes by.               *)
AttemptOutcomes ==
  {"open", "expired", "succeeded", "cancelled", "delayed", "failed"}

Leases == [owner : Runners \cup {NoRunner}, epoch : Nat, left : Nat]
Cancels == [asked : BOOLEAN, left : Nat]
Retries == [count : Nat, left : Nat, defer : {"none", "manual_retry", "transient"}]
Works == [checkpoint : Nat, requests : Nat, cycle : Nat, cycleRequests : Nat]
Errors == [recorded : BOOLEAN, manual : BOOLEAN]

Rest == {"idle", "deferred", "down"}
RunnerStates ==
  [pc : Rest \cup {"fetched", "checked", "admitted", "refused", "acquired",
                   "running", "reporting", "handled"},
   msg : Messages \cup {NoMessage}, epoch : Nat, report : Reports, wait : Nat]

RowsTypeOK ==
  /\ status \in [Jobs -> {"absent"} \cup Live \cup Terminal]
  /\ lease \in [Jobs -> Leases]
  /\ cancel \in [Jobs -> Cancels]
  /\ retry \in [Jobs -> Retries]
  /\ work \in [Jobs -> Works]
  /\ error \in [Jobs -> Errors]
  /\ frozen \in [Jobs -> Nat]

TablesTypeOK ==
  /\ attempts \in [Jobs -> Seq(AttemptOutcomes)]
  /\ dispatched \in [Jobs -> Nat]
  /\ available \in [Jobs -> Nat]
  /\ unpublished \subseteq Messages
  /\ IsFiniteSet(unpublished)
  /\ processed \subseteq Messages
  /\ topic \in [status : {"active", "paused", "archived"}, sequence : Nat]

ProcessesTypeOK ==
  /\ log \in Seq(Messages)
  /\ runner \in [Runners -> RunnerStates]
  /\ \A r \in Runners : runner[r].pc \notin Rest => runner[r].msg \in Messages
  /\ children \subseteq [job : Jobs, owner : Runners, epoch : Nat]
  /\ accepting \in [Jobs -> Nat \cup {NotAccepting}]
  /\ faults \in Nat

TypeOK == RowsTypeOK /\ TablesTypeOK /\ ProcessesTypeOK

Init ==
  /\ status = [j \in Jobs |-> "absent"]
  /\ lease = [j \in Jobs |-> [owner |-> NoRunner, epoch |-> 0, left |-> 0]]
  /\ cancel = [j \in Jobs |-> [asked |-> FALSE, left |-> 0]]
  /\ retry = [j \in Jobs |-> [count |-> 0, left |-> 0, defer |-> "none"]]
  /\ work = [j \in Jobs |-> [checkpoint |-> 0, requests |-> 0,
                             cycle |-> 0, cycleRequests |-> 0]]
  /\ error = [j \in Jobs |-> [recorded |-> FALSE, manual |-> FALSE]]
  /\ frozen = [j \in Jobs |-> 0]
  /\ attempts = [j \in Jobs |-> <<>>]
  /\ dispatched = [j \in Jobs |-> 0]
  /\ available = [j \in Jobs |-> 0]
  /\ unpublished = {}
  /\ processed = {}
  /\ topic = [status |-> "active", sequence |-> 0]
  /\ log = <<>>
  /\ runner = [r \in Runners |-> Resting("idle", 0)]
  /\ children = {}
  /\ accepting = [j \in Jobs |-> NotAccepting]
  /\ faults = 0

-----------------------------------------------------------------------------
(* The API, the scheduler and the operator: one transaction each.          *)

(* accept_in_transaction reads the topic first; pausing it takes no lock   *)
(* on the topic here, so the insert may commit after a pause.              *)
AcceptRead(j) ==
  /\ status[j] = "absent" /\ accepting[j] = NotAccepting
  /\ j \in TopicJobs => topic.status = "active"
  /\ accepting' = [accepting EXCEPT ![j] = topic.sequence]
  /\ UNCHANGED <<rows, attempts, outboxTable, processed, topic, log, runner,
                 children, faults>>

AcceptInsert(j) ==
  /\ accepting[j] # NotAccepting
  /\ accepting' = [accepting EXCEPT ![j] = NotAccepting]
  /\ status' = [status EXCEPT ![j] = "queued"]
  /\ frozen' = [frozen EXCEPT ![j] = accepting[j]]
  /\ Dispatch(j, 0)
  /\ UNCHANGED <<lease, cancel, retry, work, error, attempts, processed, topic,
                 log, runner, children, faults>>

(* request_cancel, on a job no executor holds: it is cancelled at once.    *)
Unheld(j) ==
  \/ status[j] = "queued"
  \/ status[j] = "running" /\ ~cancel[j].asked /\ lease[j].left = 0

CancelUnheld(j) ==
  /\ Unheld(j)
  /\ status' = [status EXCEPT ![j] = "cancelled"]
  /\ cancel' = [cancel EXCEPT ![j] = [asked |-> TRUE, left |-> 0]]
  /\ NotDeferred(j)
  /\ ReleaseLease(j)
  /\ IF status[j] = "running" THEN CloseAttempt(j, "cancelled")
                              ELSE UNCHANGED attempts
  /\ UNCHANGED <<work, error, frozen, outboxTable, processed, topic, log,
                 runner, children, accepting, faults>>

(* request_cancel, on a held job: the executor has until its lease ends.   *)
CancelHeld(j) ==
  /\ status[j] = "running" /\ ~cancel[j].asked /\ lease[j].left > 0
  /\ cancel' = [cancel EXCEPT ![j] = [asked |-> TRUE, left |-> lease[j].left]]
  /\ UNCHANGED <<status, lease, retry, work, error, frozen, attempts,
                 outboxTable, processed, topic, log, runner, children,
                 accepting, faults>>

(* request_retry                                                           *)
RequestRetry(j) ==
  /\ TopicMatches(j)
  /\ status[j] = "failed" /\ error[j].manual
  /\ retry[j].count < MaxRetries                                 \* bound
  /\ status' = [status EXCEPT ![j] = "queued"]
  /\ retry' = [retry EXCEPT ![j] = [count |-> @.count + 1, left |-> 0,
                                    defer |-> "manual_retry"]]
  /\ Dispatch(j, 0)
  /\ UNCHANGED <<lease, cancel, work, error, frozen, attempts, processed,
                 topic, log, runner, children, accepting, faults>>

(* republish_due_jobs_in_transaction, the "recover" maintenance action     *)
Redispatch(j) ==
  /\ \/ status[j] = "queued" /\ retry[j].left = 0
     \/ status[j] = "running" /\ lease[j].left = 0
  /\ \A m \in unpublished : m[1] # j
  /\ dispatched[j] <= retry[j].count + MaxRedispatches           \* bound
  /\ Dispatch(j, 0)
  /\ UNCHANGED <<rows, attempts, processed, topic, log, runner, children,
                 accepting, faults>>

(* _transition_topic, and update_topic when it pauses                      *)
TransitionTopic(target) ==
  /\ topic.status \notin {"archived", target}
  /\ topic.sequence < MaxTopicChanges                            \* bound
  /\ topic' = [status |-> target, sequence |-> topic.sequence + 1]
  /\ UNCHANGED <<rows, attempts, outboxTable, processed, log, runner,
                 children, accepting, faults>>

-----------------------------------------------------------------------------
(* Outbox and Kafka.                                                       *)

Due(m) == m[2] < dispatched[m[1]] \/ available[m[1]] = 0
Pending == {m \in unpublished : Due(m)}
Orders(S) ==
  {q \in [1 .. Cardinality(S) -> S] : \A a, b \in DOMAIN q : a # b => q[a] # q[b]}

(* publish_pending, before each poll: the batch and its published_at.      *)
PublishPending ==
  /\ runner[Worker].pc = "idle"
  /\ Pending # {}
  /\ \E batch \in Orders(Pending) : log' = log \o batch
  /\ unpublished' = unpublished \ Pending
  /\ UNCHANGED <<rows, attempts, dispatched, available, processed, topic,
                 runner, children, accepting, faults>>

(* A publish fails or the worker dies after Kafka took some of the batch:  *)
(* the transaction rolls back and every message is published again later.  *)
PublishFails ==
  /\ runner[Worker].pc = "idle"
  /\ Pending # {}
  /\ faults < MaxFaults                                          \* bound
  /\ \E batch \in Orders(Pending), n \in 0 .. Cardinality(Pending) :
       log' = log \o SubSeq(batch, 1, n)
  /\ Drop(Worker, "down")
  /\ faults' = faults + 1
  /\ UNCHANGED <<rows, attempts, outboxTable, processed, topic, children,
                 accepting>>

Fetch ==
  /\ runner[Worker].pc = "idle"
  /\ log # <<>>
  /\ runner' = [runner EXCEPT ![Worker].pc = "fetched", ![Worker].msg = Head(log)]
  /\ UNCHANGED <<rows, attempts, outboxTable, processed, topic, log, children,
                 accepting, faults>>

(* pending_source_deliveries: the query of a host round.                   *)
HostPick(r, m) ==
  /\ r \in HostRunners /\ runner[r].pc = "idle"
  /\ status[m[1]] \in Live /\ lease[m[1]].left = 0 /\ retry[m[1]].left = 0
  /\ Due(m) /\ m \notin processed
  /\ runner' = [runner EXCEPT ![r].pc = "fetched", ![r].msg = m]
  /\ UNCHANGED <<rows, attempts, outboxTable, processed, topic, log, children,
                 accepting, faults>>

(* process_message commits the offset once the handler has returned.       *)
Commit ==
  /\ runner[Worker].pc = "handled"
  /\ log' = Tail(log)
  /\ Drop(Worker, "idle")
  /\ UNCHANGED <<rows, attempts, outboxTable, processed, topic, children,
                 accepting, faults>>

HostNext(r) ==
  /\ r \in HostRunners /\ runner[r].pc = "handled"
  /\ Drop(r, "idle")
  /\ UNCHANGED <<rows, attempts, outboxTable, processed, topic, log, children,
                 accepting, faults>>

Wake ==
  /\ runner[Worker].pc = "deferred" /\ runner[Worker].wait = 0
  /\ Drop(Worker, "idle")
  /\ UNCHANGED <<rows, attempts, outboxTable, processed, topic, log, children,
                 accepting, faults>>

-----------------------------------------------------------------------------
(* The dispatcher of create_job_dispatcher: each step is a transaction of  *)
(* its own, and other runners act between them.                            *)

CheckProcessed(r) ==
  /\ runner[r].pc = "fetched"
  /\ Goto(r, IF runner[r].msg \in processed THEN "handled" ELSE "checked")
  /\ UNCHANGED <<rows, attempts, outboxTable, processed, topic, log, children,
                 accepting, faults>>

Acknowledges(j) == status[j] = "cancelled"

AcknowledgeCancelled(r) ==
  LET m == runner[r].msg IN
  /\ runner[r].pc = "checked"
  /\ IF Acknowledges(m[1])
       THEN Record(m) /\ Goto(r, "handled")
       ELSE UNCHANGED processed /\ Goto(r, "admitted")
  /\ UNCHANGED <<rows, attempts, outboxTable, topic, log, children, accepting,
                 faults>>

Acquirable(j) ==
  \/ status[j] = "queued" /\ retry[j].left = 0
  \/ status[j] = "running" /\ lease[j].left = 0

OpensCycle(j) ==
  work[j].cycle = 0 \/ (status[j] = "queued" /\ retry[j].defer = "manual_retry")

NewCycle(jobWork) ==
  [jobWork EXCEPT !.cycle = jobWork.cycle + 1, !.cycleRequests = 0]

Acquire(r) ==
  LET j == runner[r].msg[1]
      epoch == lease[j].epoch + 1
  IN
  /\ runner[r].pc = "admitted"
  /\ Acquirable(j)
  /\ epoch <= MaxEpochs                                          \* bound
  /\ status' = [status EXCEPT ![j] = "running"]
  /\ lease' = [lease EXCEPT ![j] = [owner |-> r, epoch |-> epoch, left |-> LeaseTicks]]
  /\ cancel' = [cancel EXCEPT ![j] = FencedCancel(j, LeaseTicks)]
  /\ NotDeferred(j)
  /\ work' = IF OpensCycle(j) THEN [work EXCEPT ![j] = NewCycle(work[j])] ELSE work
  /\ attempts' = [attempts EXCEPT ![j] =
       Append([e \in DOMAIN @ |->
                 IF status[j] = "running" /\ e = lease[j].epoch /\ @[e] = "open"
                   THEN "expired" ELSE @[e]], "open")]
  /\ runner' = [runner EXCEPT ![r].pc = "acquired", ![r].epoch = epoch]
  /\ UNCHANGED <<error, frozen, outboxTable, processed, topic, log, children,
                 accepting, faults>>

AcquireRefused(r) ==
  /\ runner[r].pc = "admitted"
  /\ ~Acquirable(runner[r].msg[1])
  /\ Goto(r, "refused")
  /\ UNCHANGED <<rows, attempts, outboxTable, processed, topic, log, children,
                 accepting, faults>>

(* current_lease_expiration decides: wait for the lease, or raise. The     *)
(* worker dies of the exception, the host round skips the message.         *)
Refused(r) ==
  LET j == runner[r].msg[1] IN
  /\ runner[r].pc = "refused"
  /\ IF lease[j].owner # NoRunner THEN Defer(r, lease[j].left)
     ELSE Drop(r, IF r = Worker THEN "down" ELSE "idle")
  /\ UNCHANGED <<rows, attempts, outboxTable, processed, topic, log, children,
                 accepting, faults>>

(* recover_abandoned_ai_calls, behind require_current_operation, which     *)
(* raises on a stale lease and on a cancelled job.                         *)
RecoveryRaises(r) ==
  Token(r).job \in AiJobs /\ (cancel[Token(r).job].asked \/ ~Current(Token(r)))

RecoverAiCallsRaises(r) ==
  /\ runner[r].pc = "acquired" /\ RecoveryRaises(r)
  /\ Drop(r, "down")
  /\ UNCHANGED <<rows, attempts, outboxTable, processed, topic, log, children,
                 accepting, faults>>

StartChild(r) ==
  /\ runner[r].pc = "acquired" /\ ~RecoveryRaises(r)
  /\ Goto(r, "running")
  /\ children' = children \cup {Token(r)}
  /\ UNCHANGED <<rows, attempts, outboxTable, processed, topic, log, accepting,
                 faults>>

(* No handler is registered for the kind: a failure without a child. The   *)
(* kinds that collect for a topic always have one.                         *)
NoHandler(r) ==
  /\ runner[r].pc = "acquired" /\ ~RecoveryRaises(r)
  /\ Token(r).job \notin TopicJobs
  /\ ToReport(r, "failed", 0)
  /\ UNCHANGED <<rows, attempts, outboxTable, processed, topic, log, children,
                 accepting, faults>>

-----------------------------------------------------------------------------
(* The child process, which may outlive its parent.                        *)

OneRequest(jobWork) ==
  [jobWork EXCEPT !.requests = jobWork.requests + 1,
                  !.cycleRequests = jobWork.cycleRequests + 1]

(* begin_request_in_transaction                                            *)
BeginRequest(t) ==
  LET j == t.job
      c == FencedCancel(j, lease[j].left)
  IN
  /\ Current(t)
  /\ work[j].requests < MaxRequests                              \* bound
  /\ cancel' = [cancel EXCEPT ![j] = c]
  /\ IF c.asked THEN UNCHANGED <<work, lease>>
     ELSE /\ work' = [work EXCEPT ![j] = OneRequest(work[j])]
          /\ lease' = [lease EXCEPT ![j].left = LeaseTicks]
  /\ UNCHANGED <<status, retry, error, frozen, attempts, outboxTable, processed,
                 topic, log, runner, children, accepting, faults>>

(* save_checkpoint_in_transaction: the replay or the successor of the      *)
(* stored sequence. It renews the lease up to the deadline of a cancel; a  *)
(* child that does so after the deadline, before the supervisor's first    *)
(* poll stopped it, ends its own lease: counted as a fault.                *)
SaveCheckpoint(t, step) ==
  LET j == t.job
      left == IF cancel[j].asked THEN Lesser(LeaseTicks, cancel[j].left)
                                 ELSE LeaseTicks
  IN
  /\ Current(t)
  /\ work[j].checkpoint + step <= MaxCheckpoints                 \* bound
  /\ left > 0 \/ faults < MaxFaults                              \* bound
  /\ faults' = IF left > 0 THEN faults ELSE faults + 1
  /\ work' = [work EXCEPT ![j].checkpoint = @ + step]
  /\ lease' = [lease EXCEPT ![j].left = left]
  /\ UNCHANGED <<status, cancel, retry, error, frozen, attempts, outboxTable,
                 processed, topic, log, runner, children, accepting>>

(* A child whose parent died leaves at its next broken pipe or fenced call. *)
OrphanExits(t) ==
  /\ \A r \in Runners : ~(runner[r].pc = "running" /\ Token(r) = t)
  /\ children' = children \ {t}
  /\ UNCHANGED <<rows, attempts, outboxTable, processed, topic, log, runner,
                 accepting, faults>>

-----------------------------------------------------------------------------
(* The supervisor in the parent, and the one transaction that settles.     *)

Reap(r) == children' = children \ {Token(r)}

(* watch_lease: heartbeat (renew) or cancellation_requested (~renew).      *)
StopsChild(j) == FencedCancel(j, lease[j].left).asked

WatchLease(r, renew) ==
  LET j == Token(r).job IN
  /\ runner[r].pc = "running" /\ Current(Token(r))
  /\ cancel' = [cancel EXCEPT ![j] = FencedCancel(j, lease[j].left)]
  /\ IF StopsChild(j) THEN Reap(r) /\ ToReport(r, "stopped", 0)
                      ELSE UNCHANGED <<children, runner>>
  /\ lease' = IF renew /\ ~StopsChild(j) THEN [lease EXCEPT ![j].left = LeaseTicks]
                                        ELSE lease
  /\ UNCHANGED <<status, retry, work, error, frozen, attempts, outboxTable,
                 processed, topic, log, accepting, faults>>

(* The lease was lost, or the child exited without a result: the message   *)
(* is deferred until the current lease of the job ends.                    *)
DeferAfterChildExit(r) ==
  LET j == Token(r).job IN
  /\ Reap(r)
  /\ Defer(r, IF lease[j].owner # NoRunner THEN lease[j].left ELSE 1)

LeaseLost(r) ==
  /\ runner[r].pc = "running" /\ ~Current(Token(r))
  /\ DeferAfterChildExit(r)
  /\ UNCHANGED <<rows, attempts, outboxTable, processed, topic, log, accepting,
                 faults>>

ChildCrashes(r) ==
  /\ runner[r].pc = "running" /\ faults < MaxFaults              \* bound
  /\ DeferAfterChildExit(r)
  /\ faults' = faults + 1
  /\ UNCHANGED <<rows, attempts, outboxTable, processed, topic, log, accepting>>

(* A result, an error or the execution deadline: every way the supervisor  *)
(* ends a child, except a cancel, leads to one of these reports.           *)
ChildEnds(r) ==
  /\ runner[r].pc = "running"
  /\ Reap(r)
  /\ \E report \in Reports \ {"none", "stopped"} :
       ToReport(r, report, IF report = "transient" THEN RetryTicks ELSE 0)
  /\ UNCHANGED <<rows, attempts, outboxTable, processed, topic, log, accepting,
                 faults>>

Settles(r) ==
  runner[r].pc = "reporting" /\ Current(Token(r)) /\ runner[r].msg \notin processed

Settled(r) ==
  runner' = [runner EXCEPT ![r] = [Resting("handled", 0) EXCEPT !.msg = runner[r].msg]]

(* recover_interrupted_collection_in_transaction looks at the topic again  *)
(* in the transaction that settles.                                        *)
FinalCancel(j) == FencedCancel(j, lease[j].left)

(* _finalize_supervised_result, complete_in_transaction. A child stopped   *)
(* by a cancel reports no completion, which stands for a success.          *)
Complete(r) ==
  LET j == Token(r).job
      report == runner[r].report
      cancelled == FinalCancel(j).asked
  IN
  /\ Settles(r) /\ report \notin Failures
  /\ cancel' = [cancel EXCEPT ![j] = FinalCancel(j)]
  /\ status' = [status EXCEPT ![j] =
       IF cancelled THEN "cancelled"
       ELSE IF report = "partial" THEN "partially_succeeded" ELSE "succeeded"]
  /\ \E manual \in BOOLEAN :
       error' = IF cancelled THEN error
                ELSE [error EXCEPT ![j] =
                  [recorded |-> report = "partial",
                   manual |-> report = "partial" /\ manual]]
  /\ ReleaseLease(j)
  /\ CloseAttempt(j, IF cancelled THEN "cancelled" ELSE "succeeded")
  /\ Record(runner[r].msg)
  /\ Settled(r)
  /\ UNCHANGED <<retry, work, frozen, outboxTable, topic, log, children,
                 accepting, faults>>

(* record_failure_in_transaction of a job whose cancel was requested       *)
FailCancelled(r) ==
  LET j == Token(r).job IN
  /\ Settles(r) /\ runner[r].report \in Failures /\ FinalCancel(j).asked
  /\ cancel' = [cancel EXCEPT ![j] = FinalCancel(j)]
  /\ status' = [status EXCEPT ![j] = "cancelled"]
  /\ error' = [error EXCEPT ![j] = [recorded |-> FALSE, manual |-> FALSE]]
  /\ NotDeferred(j)
  /\ ReleaseLease(j)
  /\ CloseAttempt(j, "cancelled")
  /\ Record(runner[r].msg)
  /\ Settled(r)
  /\ UNCHANGED <<work, frozen, outboxTable, topic, log, children, accepting,
                 faults>>

(* retry_at > now and retry_count + 1 < max_attempts, for a failure that   *)
(* carries a retry policy                                                  *)
ShouldRetry(r) ==
  /\ runner[r].report = "transient"
  /\ runner[r].wait > 0
  /\ retry[Token(r).job].count + 1 < MaxAttempts

Fail(r) ==
  LET j == Token(r).job IN
  /\ Settles(r) /\ runner[r].report \in Failures /\ ~FinalCancel(j).asked
  /\ status' = [status EXCEPT ![j] = IF ShouldRetry(r) THEN "queued" ELSE "failed"]
  /\ \E manual \in BOOLEAN :
       error' = [error EXCEPT ![j] = [recorded |-> TRUE, manual |-> manual]]
  /\ IF ShouldRetry(r)
       THEN retry' = [retry EXCEPT ![j] =
              [count |-> @.count + 1, left |-> runner[r].wait, defer |-> "transient"]]
       ELSE NotDeferred(j)
  /\ ReleaseLease(j)
  /\ CloseAttempt(j, IF ShouldRetry(r) THEN "delayed" ELSE "failed")
  /\ Record(runner[r].msg)
  /\ IF ShouldRetry(r) THEN Dispatch(j, runner[r].wait) ELSE UNCHANGED outboxTable
  /\ Settled(r)
  /\ UNCHANGED <<cancel, work, frozen, topic, log, children, accepting, faults>>

(* A stale lease, or the primary key of processed_messages, rolls the      *)
(* settlement back; the exception ends the process.                        *)
SettleRaises(r) ==
  /\ runner[r].pc = "reporting" /\ ~Settles(r)
  /\ Drop(r, "down")
  /\ UNCHANGED <<rows, attempts, outboxTable, processed, topic, log, children,
                 accepting, faults>>

-----------------------------------------------------------------------------
(* Processes die and restart, and time passes.                             *)

(* SIGTERM while a child runs: the supervisor reaps it, nothing settles.   *)
Shutdown(r) ==
  /\ runner[r].pc = "running" /\ faults < MaxFaults              \* bound
  /\ Reap(r)
  /\ Drop(r, "down")
  /\ faults' = faults + 1
  /\ UNCHANGED <<rows, attempts, outboxTable, processed, topic, log, accepting>>

Crash(r, orphaned) ==
  /\ runner[r].pc \notin {"idle", "down"} /\ faults < MaxFaults  \* bound
  /\ IF runner[r].pc = "running" /\ ~orphaned THEN Reap(r) ELSE UNCHANGED children
  /\ Drop(r, "down")
  /\ faults' = faults + 1
  /\ UNCHANGED <<rows, attempts, outboxTable, processed, topic, log, accepting>>

Restart(r) ==
  /\ runner[r].pc = "down"
  /\ Drop(r, "idle")
  /\ UNCHANGED <<rows, attempts, outboxTable, processed, topic, log, children,
                 accepting, faults>>

(* The runners that hold a lease which ends with the next tick. They renew *)
(* it every third of its length, so letting it end counts as a fault.      *)
Expiring ==
  {r \in Runners : /\ runner[r].pc \in {"acquired", "running", "reporting"}
                   /\ Current(Token(r)) /\ lease[Token(r).job].left = 1}

Tick ==
  /\ Expiring = {} \/ faults < MaxFaults                         \* bound
  /\ faults' = IF Expiring = {} THEN faults ELSE faults + 1
  /\ lease' = [j \in Jobs |-> [lease[j] EXCEPT !.left = Countdown(lease[j].left)]]
  /\ cancel' = [j \in Jobs |-> [cancel[j] EXCEPT !.left = Countdown(cancel[j].left)]]
  /\ retry' = [j \in Jobs |-> [retry[j] EXCEPT !.left = Countdown(retry[j].left)]]
  /\ available' = [j \in Jobs |-> Countdown(available[j])]
  /\ runner' = [r \in Runners |-> [runner[r] EXCEPT !.wait = Countdown(runner[r].wait)]]
  /\ UNCHANGED <<status, work, error, frozen, attempts, dispatched, unpublished,
                 processed, topic, log, children, accepting>>

-----------------------------------------------------------------------------
Request(j) ==
  \/ AcceptRead(j) \/ AcceptInsert(j)
  \/ CancelUnheld(j) \/ CancelHeld(j) \/ RequestRetry(j) \/ Redispatch(j)

Deliver(r) ==
  \/ CheckProcessed(r) \/ AcknowledgeCancelled(r)
  \/ Acquire(r) \/ AcquireRefused(r) \/ Refused(r)
  \/ RecoverAiCallsRaises(r) \/ StartChild(r) \/ NoHandler(r)

Settle(r) ==
  Complete(r) \/ FailCancelled(r) \/ Fail(r) \/ SettleRaises(r)

Child(t) ==
  BeginRequest(t) \/ (\E step \in {0, 1} : SaveCheckpoint(t, step)) \/ OrphanExits(t)

RunnerStep(r) ==
  \/ \E j \in HostJobs : \E n \in 1 .. dispatched[j] : HostPick(r, <<j, n>>)
  \/ HostNext(r) \/ Deliver(r) \/ Settle(r)
  \/ \E renew \in BOOLEAN : WatchLease(r, renew)
  \/ LeaseLost(r) \/ ChildCrashes(r) \/ ChildEnds(r)
  \/ Shutdown(r) \/ (\E orphaned \in BOOLEAN : Crash(r, orphaned)) \/ Restart(r)

Next ==
  \/ \E j \in Jobs : Request(j)
  \/ \E target \in {"active", "paused", "archived"} : TransitionTopic(target)
  \/ PublishPending \/ PublishFails \/ Fetch \/ Commit \/ Wake
  \/ \E r \in Runners : RunnerStep(r)
  \/ \E t \in children : Child(t)
  \/ Tick

Spec == Init /\ [][Next]_vars

(* A transaction that has started commits; the worker's loop publishes     *)
(* before every poll (before_poll); the supervisor polls and its deadlines *)
(* end every child; docker restarts a container that exits; time passes.   *)
Fairness ==
  /\ \A j \in Jobs : WF_vars(AcceptInsert(j))
  /\ SF_vars(PublishPending)
  /\ WF_vars(Fetch) /\ WF_vars(Commit) /\ WF_vars(Wake)
  /\ \A r \in Runners :
       /\ WF_vars(HostNext(r)) /\ WF_vars(Deliver(r)) /\ WF_vars(Settle(r))
       /\ WF_vars(WatchLease(r, FALSE)) /\ WF_vars(LeaseLost(r))
       /\ WF_vars(ChildEnds(r)) /\ WF_vars(Restart(r))
  /\ WF_vars(\E t \in children : OrphanExits(t))
  /\ WF_vars(Tick)

FairSpec == Spec /\ Fairness

-----------------------------------------------------------------------------
(* Safety.                                                                 *)

Outcomes(j, outcome) == {e \in DOMAIN attempts[j] : attempts[j][e] = outcome}

(* Every acquisition has its job_attempts row, and the one open row is the *)
(* one of the lease that is running: expiry, re-acquisition, cancel and    *)
(* settlement close exactly their own attempt.                             *)
OpenAttemptIsTheLease ==
  \A j \in Jobs :
    /\ Len(attempts[j]) = lease[j].epoch
    /\ Outcomes(j, "open") = IF status[j] = "running" THEN {lease[j].epoch} ELSE {}

(* The CHECK constraints of the jobs table: no interleaving of cancel,     *)
(* retry, expiry and settlement runs into one and turns into a rollback.   *)
RowChecks ==
  \A j \in Jobs :
    /\ cancel[j].asked => status[j] \in {"running", "cancelled"}
    /\ lease[j].owner # NoRunner <=> status[j] = "running"
    /\ lease[j].left > 0 => status[j] = "running"
    /\ retry[j].defer # "none" => status[j] = "queued"
    /\ retry[j].left > 0 => retry[j].defer # "none"
    /\ work[j].cycle = 0 => work[j].cycleRequests = 0
    /\ work[j].cycleRequests <= work[j].requests

(* The offset the worker commits is the one of the message it handled:     *)
(* the partition does not move under a message in work.                    *)
CommitsWhatItHandled ==
  runner[Worker].pc \notin Rest => log # <<>> /\ runner[Worker].msg = Head(log)

(* A message that is not settled is still on its way: a crash between the  *)
(* business transaction, the publish and the offset commit loses none.     *)
NoMessageLost ==
  \A j \in Jobs : \A n \in 1 .. dispatched[j] :
    <<j, n>> \notin processed =>
      <<j, n>> \in unpublished \cup {log[i] : i \in DOMAIN log}

(* A job that still has to run has a message that will make it run.        *)
LiveJobHasMessage ==
  \A j \in Jobs : status[j] \in Live =>
    \E n \in 1 .. dispatched[j] : <<j, n>> \notin processed

(* Once a job succeeded or failed no message of it is left: the dispatcher *)
(* could neither acknowledge it as cancelled nor acquire the job, so the   *)
(* worker would die of it at every redelivery.                             *)
SettledJobHasNoMessage ==
  \A j \in Jobs : status[j] \in Terminal \ {"cancelled"} =>
    \A n \in 1 .. dispatched[j] : <<j, n>> \in processed

(* A child that was stopped reports no completion, and no completion means *)
(* success: the cancel that stopped it must still stand when it settles.   *)
StoppedChildIsCancelled ==
  \A r \in Runners :
    runner[r].pc = "reporting" /\ runner[r].report = "stopped" =>
      cancel[Token(r).job].asked

(* retry_count counts the automatic and the manual retries, each with one  *)
(* outbox message; automatic ones stay below max_attempts.                 *)
RetryLedger ==
  \A j \in Jobs : status[j] # "absent" =>
    /\ retry[j].count = Cardinality(Outcomes(j, "delayed"))
         + Cardinality(Outcomes(j, "failed")) - (IF status[j] = "failed" THEN 1 ELSE 0)
    /\ Cardinality(Outcomes(j, "delayed")) > 0 =>
         Cardinality(Outcomes(j, "delayed")) < MaxAttempts
    /\ MaxRedispatches = 0 => dispatched[j] = retry[j].count + 1

(* Only a manual retry that was acquired opens a new request budget cycle: *)
(* expired leases, redeliveries and automatic retries stay in theirs.      *)
CyclePerManualRetry ==
  \A j \in Jobs : lease[j].epoch > 0 =>
    work[j].cycle = 1 + Cardinality(Outcomes(j, "failed") \ {lease[j].epoch})

(* A settlement that was rolled back or redelivered changes nothing twice: *)
(* every attempt that settled did so under a message of its own.           *)
OneSettlementPerMessage ==
  \A j \in Jobs :
    Cardinality(Outcomes(j, "succeeded")) + Cardinality(Outcomes(j, "delayed"))
      + Cardinality(Outcomes(j, "failed"))
    <= Cardinality({n \in 1 .. dispatched[j] : <<j, n>> \in processed})

-----------------------------------------------------------------------------
(* Action properties.                                                      *)

(* Only a failed job is ever reopened, by hand, and a cancel is final.     *)
SettledStaysSettled ==
  [][\A j \in Jobs :
       /\ status[j] \in Terminal =>
            \/ status'[j] = status[j]
            \/ status[j] = "failed" /\ status'[j] = "queued"
       /\ cancel[j].asked =>
            cancel'[j].asked /\ dispatched'[j] <= dispatched[j] + MaxRedispatches]_vars

(* A job of a topic generation that has ended sends nothing more, and      *)
(* resuming the topic does not bring its generation back.                  *)
EndedGenerationSendsNothing ==
  [][\A j \in TopicJobs : status[j] # "absent" /\ ~TopicMatches(j) =>
       /\ work'[j].requests = work[j].requests
       /\ ~TopicMatches(j)']_vars

(* An executor whose lease was taken over writes nothing, even one of the  *)
(* same worker_id (hostname:pid repeats after a container restart).        *)
SupersededChildIsFenced ==
  [][\A t \in children :
       lease[t.job].epoch # t.epoch /\ Child(t) => UNCHANGED <<rows, processed>>]_vars

(* A cancelled job reaches its final receipt: a runner that holds its live *)
(* lease lets go of it only by settling it, or because something failed.   *)
CancelReachesItsReceipt ==
  [][\A r \in Runners :
       /\ runner[r].pc \in {"acquired", "running", "reporting"}
       /\ Current(Token(r)) /\ cancel[Token(r).job].asked
       /\ faults' = faults
       => runner'[r].pc \in {"acquired", "running", "reporting", "handled"}]_vars

(* Without operator redispatches the pipeline implements JobPromise.       *)
Promise == INSTANCE JobPromise WITH
  phase <- status,
  asked <- [j \in Jobs |-> cancel[j].asked],
  owed <- [j \in Jobs |->
             Cardinality({n \in 1 .. dispatched[j] : <<j, n>> \notin processed})]

KeepsPromise == Promise!Spec

(* What the handler of job j sees of its row; one that is not inserted yet *)
(* waits like a queued one.                                                *)
SeenByHandler(j) ==
  [status |-> IF status[j] = "absent" THEN "queued" ELSE status[j],
   epoch |-> lease[j].epoch, held |-> lease[j].left > 0, asked |-> cancel[j].asked]

Handled(j) == INSTANCE LeasedJob WITH
  Jobs <- {j},
  MaxEpochs <- [i \in {j} |-> MaxEpochs],
  job <- [i \in {j} |-> SeenByHandler(i)]

(* The lease of a job is the one that the modules of the handlers rely on. *)
LeaseAsHandled(j) == Handled(j)!LeaseSpec

-----------------------------------------------------------------------------
(* Liveness, under FairSpec.                                               *)

(* Every accepted job reaches a terminal state; with RowChecks, a job whose *)
(* cancel was requested reaches "cancelled".                               *)
EveryJobSettles ==
  \A j \in Jobs : status[j] \in Live ~> status[j] \in Terminal

(* No message blocks the partition for ever.                               *)
PartitionDrains == log # <<>> ~> log = <<>>
=============================================================================
