# Verification of Ripplesight (hotkey-server)

This directory holds TLA+ models of the backend under `src/backend/app`, the
configurations that check them with TLC, and theorems about them checked by
TLAPS. `PROJECT.json` is the index: components, runs, the source lines every
definition translates, one mutant per property, hazards, findings, theorems.

Check a module with `tlc -config JobTopic.cfg MCJobExecution` (the handlers with
`tlc -config Handlers.cfg MCHandlers`) and prove with `tlapm
JobExecutionProofs.tla` (each proof module for itself: one that extends another
cites its lemmas and does not repeat their proofs).

## 1. The system

Ripplesight collects public posts about topics, analyses them with models and
publishes reports and notifications. Five processes share one PostgreSQL
database, which is authoritative; Kafka carries job messages, Redis is a cache,
MinIO keeps evidence objects.

* **API** (FastAPI) and **CLI** write rows: they accept jobs, cancel and retry
  them, pause topics, change schedules, resolve unknown sends.
* **Scheduler** (APScheduler, every 30 seconds) turns due schedules into jobs.
* **Worker** (one container) publishes the outbox to Kafka, consumes it back
  and runs each job in a child process.
* **Host runner** (`worker/chrome.py`) delivers some of the same outbox messages
  from a desktop, without Kafka.
* **Web** reads the API and keeps no business state.

### Inventory

| Component | State | Operations | What is hard | What makes it correct |
|---|---|---|---|---|
| jobs: execution (`jobs/execution.py`, `services.py`) | job row with lease, cancel, retry, cycle; attempts; outbox; inbox | accept, acquire, checkpoint, request, heartbeat, settle, cancel, retry, redispatch | two runners, crashes between transactions, duplicate messages, lease expiry | one open attempt per lease; fenced writes; each message settles once; live job keeps a message; settled job has none |
| worker and host runner (`worker/app.py`, `execution.py`, `messaging.py`, `chrome.py`) | Kafka offset, child processes | publish, fetch, dispatch, watch, reap, commit | commit after business transaction; orphaned children; deferral of a whole partition | no message lost; a cancel reaches its receipt; the partition drains |
| jobs: budgets and usage (`services.py`, `ai_budgets.py`) | policies, windows, reservations, usage attempts | reserve, settle, save policy, begin/finish/recover attempt | several scopes at once, limits that change, windows that end under a reservation, late receipts | windows say what their reservations say; never oversold; every request charged once |
| jobs: coverage (`coverage.py`, `cursor.py`) | coverage windows, page receipts, the cursor in the checkpoint | begin, record page, mark partial, confirm | retries continue a window, two jobs on one window, a stale handler commits late | a confirmed window was scanned page by page to its proven end |
| scheduler (`worker/scheduler.py`, `jobs/coverage.py`) | `monitor_schedules`, `collection_due_windows` | scan, record due points, accept, skip, mark missed, advance | outages, a lock held by a manual run, interval changes, pauses | one outcome per due point; accepted windows leave no gap; the schedule moves on |
| monitors | topics, versions, status events, schedules | create, update, pause, resume, archive | a generation that ended must not come back | jobs of an old generation send nothing |
| connections | source connections, presets, versions | apply, disable, enable | changes against running jobs | a job uses the version it was accepted with |
| content: discovery (`discovery_execution.py`, `discovery.py`) | job counters, cursor, pending requests in memory | fetch a page, commit it, stop, fail, finalize | the next page's token is in memory only; the budget refuses in mid page; a child is killed between send and commit | every request charged; no gap in a confirmed window |
| content: identities, versions, comments | posts, versions, comments | upsert while a page is stored | partial pages | idempotent writes |
| evidence (`services.py`), exports of reports (`export_execution.py`, `export_cleanup.py`) | resources with their registered copies, deletion directives, cleanup targets, exports, objects in MinIO | expire, request a deletion, claim, remove, complete, fail; render, put, commit an export | an object store outside the transaction; a deletion during an export; cleaners that die; a retry that puts again | nothing erased can be downloaded or is left in the store; a deletion that is open can end |
| ai (`services.py`) | calls, receipts, circuit of a model | reserve, send, finish, quarantine, acknowledge an overrun | paid calls of unknown outcome, answers after recovery, fees above the cap | an open paid call is not repeated; what is owed is charged |
| analysis, events, daily reports, editions | annotations, events, reports | built by children | | deterministic merges, mostly in one transaction |
| notifications (`executor.py`, `operator.py`) | deliveries, receipts | send, save receipt, finish, resolve | a crash or a cancel between send and receipt | at most one provider acceptance per delivery |
| publication, leaderboard, knowledge | projections | publish, withdraw | stale projections | withdrawn content is not served |
| identity, operations, backups, core | accounts, audit, digests | short transactions | | |

The interactions modelled here are all through rows: acceptance writes the job
and its outbox message in one transaction; the dispatcher reads the inbox before
it runs and writes it when it settles; pausing a topic raises its event sequence
and executors compare it later, in their own transactions.

### Hazards

`PROJECT.json` lists each at its line with the properties that would catch it.
Those with a note instead of properties are the work left to do.

## 2. Modules

| Module | What it is |
|---|---|
| `JobExecution` | the job pipeline: rows, outbox, partition, worker, host runner, children |
| `JobPromise` | what the pipeline promises to the features that use it: the public life of a job and the messages it is owed |
| `JobExecutionProofs` | theorems about `JobExecution`: types, the partition, rows, attempts, messages, topics, that it implements `JobPromise`, and that its leases are those of `LeasedJob` |
| `CollectionSchedule` | the scheduler's scan of collection schedules, manual runs, changes to topics |
| `NotificationDelivery` | one notification from its job to its destination, and the operator |
| `LeasedJob` | a job as its handler sees it: status, epoch, a lease that is held or over, a requested cancel; the handlers build on its operators, and `JobExecution` implements its `LeaseSpec` |
| `BudgetLedger` | resource budgets: operators on windows, reservations and usage attempts, for the transactions of others |
| `PaidCall` | calls of a language model, on `LeasedJob` and `BudgetLedger` |
| `CollectionPages` | keyword collection page by page, its cursor and its coverage window, on `LeasedJob` and `BudgetLedger` |
| `EvidenceCleanup` | deletion of evidence and its copies while it is exported, on `LeasedJob` |
| `Handlers` | the three handlers together: jobs of every kind on one jobs table and one set of budgets |
| `SharedRowsProofs` | lemmas about `LeasedJob` and `BudgetLedger` that the proofs of the handlers share: sums of reservations, what each transaction does to windows and rows |
| `HandlersProofs` | theorems about `Handlers` |
| `CollectionScheduleProofs`, `PaidCallProofs`, `CollectionPagesProofs`, `EvidenceCleanupProofs`, `NotificationDeliveryProofs` | theorems about the module each is named for |
| `MCJobExecution`, `MCCollectionSchedule`, `MCNotificationDelivery` | constants for TLC |
| `MCHandlers` | small scenarios of `Handlers`, and constants for TLC |

`JobExecution` and `JobPromise` are joined by `INSTANCE JobPromise WITH` at the
end of `JobExecution`. `NotificationDelivery` has a job of its own, reduced to
status, epoch and a lease that is held or has ended; what it assumes of the
pipeline (one live lease, fenced writes, settlement under the lease) is what
`JobExecution` is checked for. `LeasedJob` says the same for the other handlers,
which extend it, and there it is no assumption: `JobExecution` is proved to provide that
lease (`LeaseIsTheHandlers`, section 6). A handler is a record in a set, with the epoch it was acquired
under, so a stale one lives on beside its successor.

Each module starts with a block of *faulty variants*: copies of a definition
with one plausible mistake. They are not part of the specification; every
property is paired in `PROJECT.json` with a variant that breaks it.

### JobExecution

| State | In the code |
|---|---|
| `status`, `lease`, `cancel`, `retry`, `work`, `error`, `frozen` | columns of `jobs`; `frozen` is the topic's event sequence in `scope` |
| `attempts` | `job_attempts`, a sequence by `lease_epoch` |
| `dispatched`, `available`, `unpublished` | `outbox_messages`: `<<j, n>>` is the message of job `j` with `dispatch_sequence` `n` |
| `processed` | `processed_messages` |
| `topic` | a monitored topic's status and last `event_sequence` |
| `log` | the Kafka partition from the committed offset on |
| `runner` | where the worker and each host runner are in `create_job_dispatcher`, and the lease they hold |
| `children` | leases that live job processes hold; one whose parent died may live on |

An action is one transaction of the code, or one step of a process between two.
All of them start by locking the job row, so transactions on a job are
serial; the dispatcher takes several, and other runners act in between:
`CheckProcessed`, `AcknowledgeCancelled`, `Acquire` (or `AcquireRefused`, then
`Refused`), `StartChild`, `WatchLease` while the child works, and one of
`Complete`, `FailCancelled`, `Fail`, `SettleRaises`. The child has
`BeginRequest` and `SaveCheckpoint`. `Shutdown`, `Crash`, `ChildCrashes`,
`PublishFails` and a `Tick` that lets a renewed lease end are faults.
Every timestamp the code compares with the clock is kept as the ticks left
until it, so the clock has no bound and equal futures are equal states.

What is abstracted: what a job does (its child may report any outcome);
owner and operation ids; the message body; wording of errors. A publish round
sends everything that is due, in any order (the code sends 25 at a time). Sizes
of retries and leases are ticks. `docker-compose.yml` runs one worker, so there
is one consumer and no rebalancing.

### JobPromise

`phase`, `asked` and `owed`: a job is owed one message exactly while it is
queued or running, never more than one, and a settlement takes the message with
it. The refinement maps `phase` to `status`, `asked` to
`cancel[j].asked` and `owed` to the number of messages not in `processed`.

### CollectionSchedule

`schedule` is the `monitor_schedules` row of each topic for one source, `due`
the `collection_due_windows` ledger, `jobs` the search jobs accepted, `scan` the
transaction of `enqueue_due_collections_in_transaction` (the rows it locked, the
rows left, whether it took the source's advisory lock), `manual` a run of
`MonitorTopicRunService`. `ScanFails`, `ScanSkips`, `ScanBusy`,
`ScanRateLimited` and `ScanAccepts` are the ways
`_process_collection_schedule` handles a row; `ChangeInterval`, `Select`,
`Deselect` and `Transition` are `_sync_search_schedules` and
`_transition_topic`. The advisory lock is held to the end of a transaction, so
`ManualAdmits` and `ManualCommits` are separate steps, and so are `ScanBegin`
and its rows.

What is abstracted: one source; the policy's quiet windows are the constant
`Quiet`; budgets and the connection may refuse at any time (part of
`ScanSkips`). Timestamps have microseconds in the code, so a row is not created
at an instant that already is a due point of its topic. The branch of the scan
that finds the newest due point already accepted is not there: an accepted point
lies before the cursor (see `ScanAccepts`), so the code cannot reach it.
The comment, report and maintenance scans of the scheduler are left out.

### NotificationDelivery

`row` is the `notification_deliveries` row, `job` its job, `parent` the
dispatcher, `children` the job processes at their transaction of
`NotificationExecutor.execute` (`_prepare`, `_send`, `_save_receipt`, `_finish`,
`_record_failure`). `taken` counts how often the destination took the message:
no process reads it, only the operator who looks at the destination
(`Resolve`). `Send` decides what the destination did and, independently, whether
the answer got back.

What is abstracted: the reasons `_prepare` refuses, budgets, channels. What is
assumed: a destination decides on a request before it times out
(ten seconds), and a lease renewed when the request begins is longer than
that (`job_lease_seconds`, 75 by default), so a lease does not end under an open request; the operator
reports what the destination shows.

### BudgetLedger

`policy` is `resource_budget_policies`, `ledger` a record of `windows`
(`resource_budget_windows`), `rows` (`resource_budget_reservations`, one per
policy a request met) and `attempts` (`resource_usage_attempts`). `Reserve`,
`Settle`, `BeginAttempt`, `FinishAttempt` and `RecoverAttempts` are functions from
a ledger to a ledger, `MayReserve`, `MaySettle` and `MayFinish` the conditions
under which the code does not raise: a transaction that makes several calls is
their composition and is rolled back by not being taken. Units settle in the
window of their reservation. A receipt may exceed the request, anything else
may not.

What is abstracted: the start of a window is a number of ticks, the same grid for
every policy; a scope is global, of a source or of a job. A component policy
and the capacity metric are left out (no caller modelled here meets them). Rows are
locked in a fixed order in the code, so no interleaving inside a transaction is
modelled.

### PaidCall

`calls` is `ai_calls`, `callers` the handlers between two transactions, `price`
the frozen cap of the model (0 for a free one), `acked` the overruns an operator
acknowledged. `RecoverCalls` is what the worker does when it acquires a job,
`ReserveCall` is `_reserve`, `Answer` the provider and `complete`, `FinishCall`
`_finish`, `CheckLease` the last check of `complete`. A job is settled under its
lease by `Report`, for a child that brought its result, or by `ParentSettles`, for one
that met its execution deadline, raised, or was killed for a cancel, wherever it was.
Neither recovers a call: only `RecoverCalls` does, at an acquisition. The answer may come after the call was quarantined by a successor;
`FinishCall` then only stores and charges what is known.

What is abstracted: tokens, models, and what the answer is used for. The
reservation identifiers of the code are hashes of call and metric; here they
are the pairs themselves.

### CollectionPages

`cursor` is the checkpoint (`CollectionCursor`), `sent` the request counters in
the job row, `window` one coverage window that all jobs share, `scanners` the
child processes (`pc`, the live token, the sequence they expect, requests whose
outcome they still owe) and, at "report", their parents. `Request` is
`before_request`, `Denied` its refusal, `Commit` is `commit_page` with the cursor,
the coverage, the usage of its requests in one transaction, `FailPending` the
transaction in the `except` branch, `Fail` what `_mark_coverage_partial` does
after it, `Finalize` is `_finalize_supervised_result`. A page is named by the
number of its token; the source may answer with any state, and with a token
already seen (`cursor_loop`).

Two histories no process reads: `trail` is the epoch that scans and the page it
has reached without a gap from page 1, and `window.proof` the trail at the
moment the window was confirmed.

What is abstracted: posts and comments of a page, the deadline of a cycle
(`StopBetweenPages` may happen at any time), the source's own kind of error.

### EvidenceCleanup

`resources` is `evidence_resources` with its registered copies, `deletions`
the `deletion_directives`, `cleanups` the `cleanup_targets` (pairs of input and
copy), `cleaners` the runs of `process_due`, `exports` the export record of each
job, `writers` its handlers, `objects` what is in MinIO. `Expire` and
`RequestDeletion` are `expire_due` and `request_deletion`; `Claim` is
`_claim_next` with the sweep of targets whose last lease ended; `RemoveObject`
and `PurgeObservation` the two adapters; `Complete` and `FailCleanup` end
a claim. `Attach`, `BeginPut`, `Put`, `CommitExport` and `FailExport` are the
transactions of `PrivateExportExecutor.execute`; the put runs inside the second
one, which holds the rows of the job and the export (`InPut`) and nothing
else. `ReportExport` is the parent's settlement; `WriterDies` the end of a child without a
result, whose parent settles the job in its place or dies with it.

`raced` is a history: objects that a cleaner removed during their put. The
second transaction of an export reads the evidence rows without locking them, so
a deletion may be asked for, and its targets removed, between its check and
the arrival of the object; the object then outlives its deletion.
`ErasedCopiesStayErased` therefore excepts them, and says that there is
no other way. (The evidence adapter's removal cannot see a put under way, see the hazard at
`evidence/adapters/minio.py`.)

What is abstracted: every export has every input; resources derived from
another one are not there; accepting and downloading an export.

### Handlers

`kind` is the column of the jobs row by which `dispatch` finds the handler of a
job (`_registered_job_handlers`); it is fixed when the job is accepted. A step of
`Handlers` is a step of one handler's module, for a job of its kind (`Only`). Calls and
collections share `policy`, `ledger` and `now`; exports meet no budget. The
three modules have their own specifications too (`PaidSpec`, `PageSpec`,
`CopySpec`), in which any job may be theirs.

## 3. What the runs show

| Run | Question | Answer |
|---|---|---|
| `JobTopic` | Does one topic job keep its row, attempts, cycles and counters consistent through requests, retries, cancels, pauses, crashes and lost leases? | yes: `OpenAttemptIsTheLease`, `RowChecks`, `StoppedChildIsCancelled`, `RetryLedger`, `CyclePerManualRetry`, `SettledStaysSettled`, `EndedGenerationSendsNothing`, `CancelReachesItsReceipt` |
| `JobHost` | Does a host runner beside the worker lose, repeat or unfence anything? | no: `LiveJobHasMessage`, `SettledJobHasNoMessage`, `OneSettlementPerMessage`, `SupersededChildIsFenced`, `KeepsPromise` |
| `JobPair` | Do two jobs on one partition, redispatched by the operator, disturb each other? | no: `NoMessageLost` |
| `JobLiveness` | Does every job settle and the partition drain while a host runner races the worker? | yes, under `Fairness` (section 5): `EveryJobSettles`, `PartitionDrains`; with `RowChecks`, every cancel ends in "cancelled" |
| `JobPoison` | Is the partition free of messages of settled jobs after a redispatch? | **no**, finding 1 |
| `JobAiCancel` | Does a cancelled model job reach its receipt? | **no**, finding 2 |
| `CollectOutage` | Do the ledger and the accepted windows of a row survive outages, interval changes, pauses, reselection? Does a due point left behind by a busy source get an outcome? | yes: `AcceptedWindowsMeet`, `CadenceKept`, `PendingDueIsTheNewest`, `OutageCollapsesToOne`; and `PendingDueSettles` if the interval stays |
| `CollectShared` | Is the source's minimum interval kept between topics, scans and manual runs? | yes: `RateLimitHolds` |
| `CollectReplan` | Does the due point get its outcome if the interval changes? | **no**, finding 3 |
| `NotifyOnce` | Is a message taken twice, an outcome claimed that is not known, a delivery left without a way on, a request left open? | no: `TakenAtMostOnce`, `OutcomeIsTruthful`, `OpenDeliveryCanBeFinished`, `UnknownStaysUntilResolved`, `SendingEnds` |
| `NotifyCancel` | Can every open delivery be finished? | **no**, finding 4 |
| `Handlers` | Do budgets balance, do paid calls stay unrepeated and charged, is a confirmed window scanned without a gap, is what was deleted gone, whatever crashes, is cancelled, taken over or late? | yes: `WindowsBalance`, `NeverOversold`, `OpenPaidCallIsNotRepeated`, `FeesAreCharged`, `OpenCallIsTheLastOne`, `ConfirmedWindowWasScanned`, `SettledCollectionOwesNothing`, `ErasedCopiesStayErased`, `OpenDeletionCanEnd` |

### Findings

1. *A redispatch can poison the partition* (`JobPoison`).
   `republish_due_jobs_in_transaction` adds a message for a queued job whose
   first message is published but not consumed yet. The first message settles the job;
   the second is neither processed nor acquirable, and the worker dies of it at
   every redelivery.
2. *A model job cancelled right after it is acquired kills the worker*
   (`JobAiCancel`): the recovery of abandoned AI calls runs in the parent and
   demands a job that is not cancelled.
3. *An interval change can stop a schedule for good* (`CollectReplan`). A scan
   that finds the source busy leaves a pending due point; with another
   interval the replay computes another window start for it and conflicts
   with it at every later scan.
4. *A cancelled send can never be resolved* (`NotifyCancel`). Its delivery stays
   unknown (or sending), the operator's resolution demands a failed job, and the
   alert rule stays in cooldown. A job whose lease ended may even be cancelled
   while its delivery is "sending", which then stays so. Separately, and excluded from both properties:
   a third attempt of unknown result that did not arrive can only be
   resolved as delivered.

Seen and not a finding, since nothing promises otherwise: two topics on one
source, both at its minimum interval, can have the scan accept one of them and
rate-limit the other again and again. When a source is deselected and selected
again, a due point of the old row that was pending stays pending, since nothing
reads it any more; `PendingDueSettles` speaks of the current row.
A host runner that looked in the inbox before another runner settled the message may
acquire the job when it is retried, still under the old message: its settlement collides with
the inbox and is rolled back, and the job runs once more when the lease ends. If it was
cancelled meanwhile, its receipt comes only then, so `CancelReachesItsReceipt` is
checked without host runners.

Seen in the handlers, and excluded from their properties:

* A job cancelled while nobody holds it is settled without a handler, so
  what its dead handler left (a call still "running", a usage attempt
  "started", units reserved) is never recovered. `SettledCollectionOwesNothing`
  speaks of jobs that a handler or its parent settled.
* A model job that its parent settles (execution deadline, an exception, a cancel)
  keeps the call its child was in: `_finalize_supervised_result` recovers the usage of
  collections and no model call (`worker/app.py:662-722`). The call stays "running" with its
  units reserved until a person retries the failed job and the next acquisition recovers it;
  after a cancel nobody does. No document says otherwise, so it is not a finding.
  `OpenCallIsTheLastOne` says that no more than this is left: one call, of the lease
  under which the job failed, and nobody at work beside it.
* A job that was cancelled while another one runs its window cannot be
  finalized: `begin_in_transaction` raises in `_finalize_supervised_result`.
  `Finalize` then stores nothing, and the lease ends.
* An object whose put a removal overtakes stays in the store (above).

## 4. Bounds

Bounds are CONSTANTS named `Max...`, each used in a guard marked `\* bound`.

* `JobExecution`: one job is enough for everything that happens under one row
  lock, since jobs share only the partition, the worker and the topic; `JobPair`
  has two for what they share. Leases of two ticks tell renewed, running
  and ended apart (`JobPair` has leases of one tick: there it is the messages
  that matter), and with `MaxEpochs` 3 to 5 a job is taken over at least twice, so a stale executor meets its successor and its successor's successor.
  `MaxFaults` 1 or 2 lets a second crash hit the recovery from the first.
  `MaxAttempts` 2 has one automatic retry and its exhaustion; `MaxRetries` 2 has
  a manual one after it. `MaxTopicChanges` 2 is a pause and a resume.
* `CollectionSchedule`: intervals 2 and 3 with `MaxTime` 4 give an outage that
  spans two due points, an interval change in either direction and a point off
  the old grid; `MaxRows` 2 has one reselection; two topics suffice for a limit
  that relates pairs of jobs.
* `NotificationDelivery`: the limits of the code themselves (three sends,
  three attempts of an automatic retry), two faults, and epochs for every one
  of them and for every retry.
* `Handlers` is checked in seven scenarios, chosen by the initial state: which jobs run
  and of which kinds. "paid", "scan" and "rewritten" run one job that is acquired twice (a stale
  handler beside its successor, recovery of what it left), "erased" and "cancelled" an export
  acquired once, the second with cancels, "shared" two collections on one window and one budget,
  and "mixed" a paid call beside a collection on the same budgets, acquired once each. `MaxCalls` 2 is a call
  and its repetition; the free model and one whose cap (2) lies between the two fees (1 and 3)
  give fees below and above it. Three pages, three requests and one rescan
  reach a second rescan, the limit of pages and a loop. A budget has windows of one or
  two ticks and `MaxTime` 1, so one window ends while another goes on. `Bounds` in
  `MCHandlers` says when: "paid" has time pass at any point of a call that costs a fee, "scan" only
  while no scanner is at work, "shared" has policies saved between scans, "mixed" neither.
  `MaxCleanups` 2 instead of 6 has a retry and the give-up; "rewritten", with two epochs of an
  export, and "cancelled" have one cleanup per target; "erased" has two, and an export that keeps
  its lease.
  Two jobs of any kinds on one ledger are what the theorems of `HandlersProofs` speak of, without
  these bounds. Larger instances of single kinds were checked once ("erased" with two epochs and
  two cleanups: 3.25 million states).

In the liveness runs the bounds on epochs are never what stops a job: every
acquisition after the first follows a fault or a retry, which are bounded
themselves. `JobLiveness` leaves pauses and manual retries to `JobTopic`: with
them the graph is too large for a liveness check.

Deadlock is not checked in the two `Notify...` runs and in `Handlers`: when the job has
ended and nothing may be retried, the system stops.

## 5. Fairness

* `JobExecution`: weak fairness on a started acceptance, on fetching, committing and waking,
  on the dispatcher's steps, the supervisor's poll, its loss of a
  lease, the end of a child (every child has an execution deadline), on restarts (the
  container is restarted by docker) and on time. `PublishPending` is strongly
  fair: the worker publishes before each poll (`before_poll`), so it
  happens whenever it is possible again and again, not only if it stays
  possible. Nothing is assumed of users, of the operator, of the host runner
  picking messages, of a child's calls, or of faults.
* `CollectionSchedule`: the scheduler scans again, and a transaction ends.
* `NotificationDelivery`: the worker and its children go on, and a lease that
  nobody renews ends. Nobody has to cancel, retry or resolve.

* The handlers (`LeasedJob`, `PaidCall`, `CollectionPages`, `EvidenceCleanup`) have no
  fairness: a dead process is one that takes no further step, and their
  properties are invariants. What would be liveness is stated as what is
  possible: `OpenDeletionCanEnd` says an open deletion always has a next step.

`CollectOutage` and `NotifyOnce` use the fair specification for their invariants
too, which fairness does not change.

## 6. What is proved

Each theorem holds for every value of the constants that its module's named
assumptions admit; every run evaluates them. The bounds (`Max...`) are
constants too, so a theorem says nothing of a bound being large enough.

### JobExecution

Assumed: `JobSetsAssumption`, `RunnersAssumption`, `TicksAssumption`,
`MessageAssumption`, `RedispatchAssumption`, `EpochsAssumption`.

* `TypeCorrect`: `Spec => []TypeOK`.
* `CommitsHandled`: `Spec => []CommitsWhatItHandled`. While the worker has a
  message in hand it is the first one after the committed offset, so the offset
  it commits is that of the message it handled. No run checks it by itself; the proof
  of `NothingLost` rests on it.

`CommitsWhatItHandled` is inductive together with `TypeOK`: `Fetch` takes the
head, a publish only appends, a commit is the one step that removes the head and
it puts the worker to rest. The type invariant is needed for the runner's
message to be one of `Messages` and for `log` to be a sequence. It is proved in
three parts (rows, tables, processes), each by first splitting `Next` into the
steps that touch the part and those that leave it alone (`NextSplit`,
`RunnerSplit`, `LogSplit`).

The rest of the safety properties of `JobTopic`, `JobHost` and `JobPair` but
`CancelReachesItsReceipt`:

* `RowsChecked`, that is `RowChecks`. The invariant is `RowsFine`: the checks
  together with "a job that runs has its budget cycle" (or a request could be counted
  in cycle 0) and "a job whose insert is still open has no row".
* *The life of one job.* `LifeStep` says that any step, seen from one job, is one
  of `Stays`, `Inserted`, `Stopped`, `Reopened`, `Resent`, `Started`, `Ended`, `PutOff`,
  `Acknowledged`. Each says what the step does to the row, the attempts and
  the messages of that job; other jobs and processes no longer appear. The
  theorems below go by these nine cases instead of the thirty actions.
* `OneOpenAttempt`, that is `OpenAttemptIsTheLease`.
* `LiveHasMessage` and `SettledHasNoMessage`. `MessagesNumbered` says that every
  message in the outbox, the inbox, the partition or a runner's hand has a number that
  was dispatched, so a stale one cannot settle a message of the future; `Sent`
  that the last message of a live job is not settled and, if `MaxRedispatches` is 0,
  that all the others are. `SettledHasNoMessage` and `PromiseKept` have that assumption:
  `JobPoison` (finding 1) shows that they need it.
* `SettlesOnce`, `RetriesAdd`, `CyclesAdd`: the ledgers. `CountFine` and `CycleFine`
  count attempts by outcome; a settlement adds one attempt to one of the sets and one
  message to the inbox.
* `SettledStays`: `SettledStaysSettled`, from the same cases.
* `PromiseKept`: `Spec => KeepsPromise` if `MaxRedispatches` is 0. `OneMoves` says that a
  step moves one job at most; `OwedFacts` that a job owes its last message or nothing;
  `MoveIsPromised` maps each case of `Lives` to an action of `JobPromise` or to none.
* `StoppedCancelled`: `StoppedChildIsCancelled`, and `NothingLost`: `NoMessageLost`. `HandStep` says
  what a step leaves in the hands of a runner: a runner at "handled" has its
  message in the inbox (so a commit drops only settled messages), one that reports
  a stopped child has a job whose cancel stands. A publish takes the batch as an injection of
  as many numbers as there are messages, hence onto them (`BatchIsWhole`): it loses none.
* `SupersededFenced`: `SupersededChildIsFenced`. `EndedGenerationIsSilent`:
  `EndedGenerationSendsNothing`, since no job carries a generation its topic has yet to
  reach (`GenerationsFine`).
* `LeaseIsTheHandlers`: `Spec => LeaseAsHandled(j)` for any job `j`, a refinement of `LeasedJob`.
  `SeenByHandler(j)` is the row as the handler of `j` sees it: status, epoch, whether the lease still
  has time, whether a cancel was requested. `LeaseLives` adds to the nine cases what they leave open:
  only an acquisition gives a lease, a cancel of a job that goes on running meets a live one, and only
  the holder settles a running job; `SeenStep` maps each case to an action of `LeasedJob`. So
  what the handlers' modules take from `LeasedJob` holds in the pipeline with its crashes, duplicate
  messages and late children. A transaction that acquires or settles the job of a topic that has moved on, and
  cancels it too, is one action here (`AcquireCancelled`, `EndsUnderLease`) and two
  in the handlers' modules. No run has this property, since TLC takes no
  specification of a parametrised instance; its step,
  `Handled(j)!LeaseNext \/ UNCHANGED SeenByHandler(j)` for every `j`, was checked on the instances
  of `JobTopic`, `JobHost` and `JobPair` before it was proved.

### CollectionSchedule

Assumed: `IntervalsAssumption`, `NoJobAssumption`, `TimeAssumption`. All its
safety properties are proved:

* `ScheduleTyped`: `TypeOK`, with what the scan relies on: a row it locked stays
  selected and due until it is left.
* `RateLimited`: `RateLimitHolds`. At most one manual run is between taking the source lock and
  its commit, and there is no job within the minimum interval of it (`RateFine`): while it is
  there the scan accepts nothing, so it is still true when it commits.
* `CadenceIsKept`, `PendingIsNewest`, `OutageCollapses`, `WindowsMeet`. Each step is, for one topic,
  one of `Keeps`, `Replans`, `Selects`, `Defers`, `Skips`, `Accepts`. `LedgerFine` relates
  the ledger to the cursor: points before the newest are decided, the cursor lies one
  interval past the newest decided one or at the pending one, and a replay starts at or after
  the newest. `JobChains` relates the accepted jobs to the ledger and to the row's last
  accepted window. The due points of an outage are a finite set of numbers
  between the cursor and now; that it has a maximum is proved from cardinalities (`Greatest`), without
  induction.

### Rows the handlers share

`SharedRowsProofs` (`BudgetsAssumption`) has no theorem of its own, only what the
proofs of the handlers rest on.

A window is a sum over its reservations, and recovery settles a set of them in one
step: both are folds over a finite set, which the code does row by row. That a fold does
what it should for every set is an induction, and no induction theorem that takes a predicate can be used. The
lemmas therefore use `SubsetInduction`, which speaks of a *set of subsets* of a
finite set instead of a predicate: it contains the empty set and, with each member,
that member with one element more; so it contains the whole set. `SumIsFold` compares
the function that the library's fold chooses with one whose existence is proved;
`SumRemove`, `SumAdd`, `SumUnion` and `SumAtMost` follow, and with them what a
settlement does to a window (it gives back what was committed and adds what was
charged) and what a fold of settlements leaves behind.

`Books(l)` is what a ledger keeps: the rows of one request agree with each other, each
window is what its rows add up to, and what a window has
granted is within the largest limit of its rows. `NeverOversold` alone is not
inductive: a reservation is admitted by what the window says, so the window must say what its
rows add up to, and a settlement finds the rows of its request, so these must agree. Each of `Reserve`, `Settle`,
`BeginAttempt`, `FinishAttempt`, `RecoverAttempts` and `SavePolicy` keeps `Books`, and
`Touches(l, m, ids)` says which reservations it leaves alone.

### The handlers, each for itself

Their specifications are `PaidSpec`, `PageSpec` and `CopySpec`, each over
`LeasedJob`.

* `PaidCallProofs` (`PaidAssumption`): `PaidCallsTyped`; `PaidOnce`, that is
  `OpenPaidCallIsNotRepeated`; `OpenCallIsLast`, that is `OpenCallIsTheLastOne`; `FeesCharged`, that is
  `FeesAreCharged`; `PaidKeepsTheBooks`. `PaidOnce` needs
  `MadeInOrder`: calls are numbered in the order they are made, so a new call is
  the last one, and `_reserve` admits it only while none of its job and purpose is
  open. `OpenCallIsLast` needs to know who may still have a running call:
  handlers have epochs up to the job's (`CallEpochsBounded`), no two the same one
  (`OneCallerPerEpoch`), and a handler that starts has none (`NewOwnsNothing`). One past its
  start has recovered every call of an earlier epoch, so it waits for the running call or is
  older than it (`WaitsForItsCall`): whoever reserves a call while it holds the lease finds none
  open (`OneOpenCall`), and whoever settles the job under its lease leaves none, or as a parent
  its child's (`LeftByTheLast`). `FeesCharged`
  says what the reservations of each call hold in each of its states
  (`CallBooked`: the request, the analysis and the whole cap are reserved) and that an answer is awaited only by the handler that made the call.
* `CollectionPagesProofs` (`PageAssumption`): `ConfirmedWasScanned`, that
  is `ConfirmedWindowWasScanned`. The invariant `ScanInv` says that the scanner of
  the current epoch holds the token of the page after its trail: every page up
  to it is in `seen`, so a link back is recognised as a loop, and a
  page is committed only with the sequence the cursor expects, so one from a
  stale scanner is not. A stale scanner keeps no promise and needs none, since the window's and
  the cursor's writes are fenced by its epoch. `ScansOweNothing` is
  `SettledCollectionOwesNothing`: every attempt
  has a reservation, which is settled if the attempt has ended (`AttemptsOwned`), and one that is
  "started" belongs to a job that no handler settled, since the handler that settles a job
  recovers all it finds. `ScansTyped` has the bounds of a cursor (`PageBounds`): how many pages,
  tokens, rescans and requests it can reach, also in the hands of a stale scanner.
  `ScansKeepTheBooks` is the ledger again.
* `EvidenceCleanupProofs` (`CopiesAssumption`): `CopiesTyped`; `ErasedStayErased`,
  that is `ErasedCopiesStayErased`; `DeletionsCanEnd`, that is
  `OpenDeletionCanEnd`. `Registration` says that an object in the store, or one
  that a writer is about to put, is a registered copy of all its inputs, and that an open
  deletion has a target for each registered copy; `Erasure` says that a
  target that was removed leaves a blocked export and no object, unless it
  was overtaken by the put. `OpenInv` adds that an open deletion has an open target.

### The handlers together

`HandlersProofs` (all the assumptions above, and `RequestIdsAssumption`: the reservations of a
call and of a collection have different ids, as each request in the code has a UUID of its own)
proves every property of the run `Handlers` for any jobs of any kinds at once: `HandlersTyped`, `BooksBalanced`,
`NothingOversold`, `AllFeesCharged`, `SettledOweNothing`, `OneCallLeft` and, of the promises
each handler makes alone, `PromisesHoldTogether`. The invariant `HandlersInv` is the three
handlers' together. A handler's own step keeps its part by the lemmas of its module. Another's
step keeps it because it moves no job of this kind (`OnlyMoves`) and touches no reservation of its
ids (`Touches`, `IdsApart`); what it does to the windows they share keeps `Books`. The lemmas
`PaidElsewhere`, `ScanElsewhere`, `BoundsElsewhere`, `CallsElsewhere` and
`CopiesElsewhere` are that second half, one per module, and are all a further handler
needs to be added.

### Notifications

* `NotificationDeliveryProofs` (`LimitsAssumption`): `DeliveryTyped`, `TakenOnce`,
  `OutcomeTrue`, `OpenCanBeFinished`, `UnknownStays`, that is all safety properties
  of `NotifyOnce`. The invariant `Inv` has what the row alone does not show:
  one child per epoch, a parent that is the current one and alone
  (`ParentIsCurrent`, `ParentIsAlone`), and what each child knows of the row at each of its
  steps (`ChildrenKnow`). Only the child whose epoch is the job's and whose lease
  lives can write the row, so the row says "sending" from before
  the request until its answer is stored, and a second `Send` would find it so.

### Only model-checked

`CancelReachesItsReceipt`, which holds for one worker and no
model job (`JobTopic`) and not for every value of the constants (finding 2, and the host runner of
section 3); and liveness, which is out of the prover's reach: `EveryJobSettles`,
`PartitionDrains`, `PendingDueSettles`, `SendingEnds`. Every other property of a passing run is a
theorem.

## 7. Plan

Done: the job pipeline, schedules, notifications, resource budgets, paid calls, page
collection with its coverage windows, evidence deletion against exports.

Left, in this order:

1. Topics: versions and events under concurrent updates; connections against
   running jobs; comment collection, which shares `CollectionPages`' rules.
2. Publication and withdrawal; derived evidence and deletions that cascade.
3. Liveness of deletions under a cleaner that keeps running (checked once by
   hand for one export, not among the runs).

## 8. Not modelled

Everything in the inventory without a module, for now. Within the modelled parts:
component policies, the capacity metric and the other meters of the budgets
(editorial polling, comments, operator and group budgets); accepting,
downloading and expiring an export; deletions of derived evidence; provenance.

For good: HTTP routing,
schemas and rendering (no state of their own), the web front end, adapters for the
sources and the prompts of models (external services), migrations and
backups (operating procedures outside the processes), identity and sessions (short
independent transactions), scoring and clustering formulas (numeric code without
interleavings).
