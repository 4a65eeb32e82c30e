------------------------- MODULE CollectionSchedule -------------------------
(***************************************************************************)
(* When a topic is collected: the scheduler's scan turns the due points of *)
(* a schedule row (monitor_schedules) into rows of the due ledger          *)
(* (collection_due_windows) and, for the newest one, into search jobs;     *)
(* API users change the rows and start manual runs meanwhile.              *)
(*                                                                         *)
(* One source, with a minimum interval between its collections; every      *)
(* topic may select it. A scan is one transaction over all rows that are   *)
(* due: it holds their row locks, and the source's advisory lock once it   *)
(* took it, until it ends. A scan that dies rolls back, as if it had not   *)
(* begun. Timestamps are distinct to the microsecond in the code, so a row *)
(* is not created at an instant that already is a due point of its topic.  *)
(***************************************************************************)
EXTENDS Integers, FiniteSets, FiniteSetsExt

CONSTANTS
  Topics,
  Intervals,      \* what collection_interval_seconds may be set to
  FirstInterval,
  MinInterval,    \* min_interval_seconds of the source's policy
  Lookback,       \* collection_lookback_seconds
  Quiet,          \* the instants in a quiet window of the policy
  NoJob,          \* last_job_id IS NULL
  (* bounds of the model, never of the code *)
  MaxTime, MaxManualRuns, MaxRows

ASSUME IntervalsAssumption ==
  /\ MinInterval \in Nat \ {0} /\ Lookback \in Nat /\ Quiet \subseteq Nat
  /\ FirstInterval \in Intervals
  /\ \A i \in Intervals : i \in Nat /\ i >= MinInterval   \* _sync_search_schedules
ASSUME NoJobAssumption ==
  NoJob \notin [topic : Topics, entry : {"scheduled", "manual"}, row : Nat,
                created : Nat, start : Int, end : Nat]
ASSUME TimeAssumption == MaxTime \in Nat

VARIABLES
  now,
  status,    \* of every topic
  schedule,  \* its schedule row; row numbers the rows it had, 0 without one
  due,       \* its due ledger: a record for every due point recorded
  jobs,      \* the search jobs accepted for the source
  scan,      \* the scan in progress: rows it locked, rows left, lock held
  manual     \* a manual run of every topic

vars == <<now, status, schedule, due, jobs, scan, manual>>

NoScan == [at |-> 0, locked |-> {}, left |-> {}, source |-> FALSE]
Idle == [pc |-> "idle", at |-> 0, runs |-> 0]

Selected(t) == schedule[t].on
Rows(t) == schedule[t].row

-----------------------------------------------------------------------------
(* Faulty variants, each with one plausible mistake, for the mutants that  *)
(* PROJECT.json lists. Nothing here is part of the specification.          *)

AdvancedForgets(s, latest, job) ==
  [s EXCEPT !.next = latest + s.interval, !.last = job]

AdvancedFromNow(s, latest, job) ==
  [s EXCEPT !.next = scan.at + s.interval, !.last = IF job = NoJob THEN @ ELSE job]

PointsOneMore(t) ==
  LET s == schedule[t] IN
  {s.next + k * s.interval : k \in 0 .. (scan.at - s.next) \div s.interval + 1}

LatestIsFirst(t) == schedule[t].next

MissedNever(t, d) == FALSE

SourceFreeAlways == TRUE

KeepCursorAfterBusy(t) ==
  schedule' = [schedule EXCEPT ![t].next = @ + schedule[t].interval]

-----------------------------------------------------------------------------
TypeOK ==
  /\ now \in 0 .. MaxTime
  /\ status \in [Topics -> {"active", "paused", "archived"}]
  /\ \A t \in Topics :
       /\ schedule[t].on \in BOOLEAN /\ schedule[t].enabled \in BOOLEAN
       /\ schedule[t].interval \in Intervals
       /\ schedule[t].next \in Nat /\ schedule[t].row \in Nat
       /\ schedule[t].last \in jobs \cup {NoJob}
       /\ DOMAIN due[t] \subseteq 0 .. now
       /\ \A d \in DOMAIN due[t] :
            due[t][d] \in [state : {"pending", "accepted", "skipped", "missed"},
                           start : Int, row : Nat]
       /\ manual[t] \in [pc : {"idle", "read", "locked"}, at : 0 .. now, runs : Nat]
  /\ \A j \in jobs :
       j \in [topic : Topics, entry : {"scheduled", "manual"}, row : Nat,
              created : 0 .. now, start : Int, end : 0 .. now]
  /\ scan \in [at : 0 .. now, locked : SUBSET Topics, left : SUBSET Topics,
               source : BOOLEAN]

Init ==
  /\ now = 0
  /\ status = [t \in Topics |-> "active"]
  /\ \E first \in [Topics -> {0, 1}] :
       schedule = [t \in Topics |-> [on |-> TRUE, row |-> 1, enabled |-> TRUE,
                     interval |-> FirstInterval, next |-> first[t], last |-> NoJob]]
  /\ due = [t \in Topics |-> [d \in {} |-> NoJob]]
  /\ jobs = {}
  /\ scan = NoScan
  /\ manual = [t \in Topics |-> Idle]

-----------------------------------------------------------------------------
(* The scan: claim_due_collections_in_transaction locks the due rows,      *)
(* _process_collection_schedule handles each in its own savepoint.         *)

Claimable(t) == Selected(t) /\ schedule[t].enabled /\ schedule[t].next <= now

ScanBegin ==
  /\ scan = NoScan
  /\ \E t \in Topics : Claimable(t)
  /\ LET claimed == {t \in Topics : Claimable(t)} IN
     scan' = [at |-> now, locked |-> claimed, left |-> claimed, source |-> FALSE]
  /\ UNCHANGED <<now, status, schedule, due, jobs, manual>>

(* Rows that were never accepted, or longest ago, come first: the order is *)
(* fixed when the scan begins, before any row of it is advanced.           *)
LastCreated(t) == IF schedule[t].last = NoJob THEN -1 ELSE schedule[t].last.created
InOrder(t) ==
  /\ t \in scan.left
  /\ \A u \in scan.left :
       \/ LastCreated(t) < LastCreated(u)
       \/ LastCreated(t) = LastCreated(u) /\ schedule[t].next <= schedule[u].next

(* The due points from the cursor up to the scan, and the newest of them.  *)
Points(t) ==
  LET s == schedule[t] IN
  {s.next + k * s.interval : k \in 0 .. (scan.at - s.next) \div s.interval}
Latest(t) == Max(Points(t))

WindowStart(t, d) == d - schedule[t].interval - Lookback

Recorded(t, d) ==
  [state |-> IF d \in Quiet THEN "skipped" ELSE "pending",
   start |-> WindowStart(t, d), row |-> Rows(t)]

Newest(t) == Max(DOMAIN due[t] \cup {-1})

(* record_due_in_transaction and record_elapsed_in_transaction raise when  *)
(* the newest recorded point is not the one the row would record now.      *)
Conflicts(t) ==
  /\ Newest(t) >= schedule[t].next
  /\ \/ Newest(t) \notin Points(t)
     \/ due[t][Newest(t)].start # WindowStart(t, Newest(t))

(* Every replayed point but the newest is missed unless it was skipped.    *)
Missed(t, d) == d < Latest(t)

Replayed(t) ==
  LET points == {d \in Points(t) : d >= Newest(t)} IN
  [d \in DOMAIN due[t] \cup points |->
     LET point == IF d \in DOMAIN due[t] THEN due[t][d] ELSE Recorded(t, d) IN
     IF d \in points /\ point.state = "pending" /\ Missed(t, d)
       THEN [point EXCEPT !.state = "missed"] ELSE point]

Marked(t, state) ==
  due' = [due EXCEPT ![t] = [Replayed(t) EXCEPT ![Latest(t)].state = state]]

(* advance_collection_in_transaction                                       *)
Advanced(s, latest, job) ==
  [s EXCEPT !.next = latest + s.interval, !.last = IF job = NoJob THEN @ ELSE job]
Advance(t, job) ==
  schedule' = [schedule EXCEPT ![t] = Advanced(schedule[t], Latest(t), job)]

(* The row is done; the transaction commits after its last row.            *)
Leave(t, locksSource) ==
  LET left == scan.left \ {t} IN
  scan' = IF left = {} THEN NoScan
          ELSE [scan EXCEPT !.left = left, !.source = @ \/ locksSource]

Turn(t) == InOrder(t) /\ ~Conflicts(t)
Admits(t) == Replayed(t)[Latest(t)].state = "pending"

(* An exception in the row rolls its savepoint back and leaves it due.     *)
ScanFails(t) ==
  /\ InOrder(t) /\ Conflicts(t)
  /\ Leave(t, FALSE)
  /\ UNCHANGED <<now, status, schedule, due, jobs, manual>>

(* The newest point is quiet, or the scan itself is, or the connection is  *)
(* not available, or a budget is used up: the last two at any time. The    *)
(* newest point was never accepted before: an accepted one lies before     *)
(* the cursor.                                                             *)
ScanSkips(t) ==
  /\ Turn(t) /\ Replayed(t)[Latest(t)].state \in {"pending", "skipped"}
  /\ Marked(t, "skipped")
  /\ Advance(t, NoJob)
  /\ Leave(t, FALSE)
  /\ UNCHANGED <<now, status, jobs, manual>>

(* try_lock_source_collection_in_transaction                               *)
SourceFree == \A t \in Topics : manual[t].pc # "locked"
Recent(at) == \E j \in jobs : j.created > at - MinInterval

KeepCursor(t) == UNCHANGED schedule

(* A manual run holds the source: the row stays due, its points recorded.  *)
ScanBusy(t) ==
  /\ Turn(t) /\ Admits(t) /\ scan.at \notin Quiet
  /\ ~SourceFree
  /\ due' = [due EXCEPT ![t] = Replayed(t)]
  /\ KeepCursor(t)
  /\ Leave(t, FALSE)
  /\ UNCHANGED <<now, status, jobs, manual>>

ScanRateLimited(t) ==
  /\ Turn(t) /\ Admits(t) /\ scan.at \notin Quiet
  /\ SourceFree /\ Recent(scan.at)
  /\ Marked(t, "skipped")
  /\ Advance(t, NoJob)
  /\ Leave(t, TRUE)
  /\ UNCHANGED <<now, status, jobs, manual>>

(* collection_window_start: where the last accepted window ended.          *)
PreviousEnd(t) ==
  IF schedule[t].last = NoJob THEN Latest(t) - schedule[t].interval
  ELSE schedule[t].last.end

ScheduledJob(t) ==
  [topic |-> t, entry |-> "scheduled", row |-> Rows(t), created |-> scan.at,
   start |-> PreviousEnd(t) - Lookback, end |-> Latest(t)]

ScanAccepts(t) ==
  /\ Turn(t) /\ Admits(t) /\ scan.at \notin Quiet
  /\ SourceFree /\ ~Recent(scan.at)
  /\ jobs' = jobs \cup {ScheduledJob(t)}
  /\ Marked(t, "accepted")
  /\ Advance(t, ScheduledJob(t))
  /\ Leave(t, TRUE)
  /\ UNCHANGED <<now, status, manual>>

-----------------------------------------------------------------------------
(* MonitorTopicRunService.run: the clock is read before the transaction.   *)
ManualBegin(t) ==
  /\ manual[t].pc = "idle"
  /\ manual' = [manual EXCEPT ![t].pc = "read", ![t].at = now]
  /\ UNCHANGED <<now, status, schedule, due, jobs, scan>>

(* It holds the topic's row and the source's lock until it commits, when   *)
(* the job it admitted becomes visible.                                    *)
ManualAdmits(t) ==
  /\ manual[t].pc = "read"
  /\ status[t] = "active" /\ Selected(t) /\ manual[t].at \notin Quiet
  /\ SourceFree /\ ~scan.source /\ ~Recent(manual[t].at)
  /\ manual[t].runs < MaxManualRuns                                 \* bound
  /\ manual' = [manual EXCEPT ![t].pc = "locked", ![t].runs = @ + 1]
  /\ UNCHANGED <<now, status, schedule, due, jobs, scan>>

(* Not ready, quiet, over budget or rate limited: nothing is written.      *)
ManualRefused(t) ==
  /\ manual[t].pc = "read"
  /\ manual' = [manual EXCEPT ![t].pc = "idle", ![t].at = 0]
  /\ UNCHANGED <<now, status, schedule, due, jobs, scan>>

ManualCommits(t) ==
  LET at == manual[t].at IN
  /\ manual[t].pc = "locked"
  /\ jobs' = jobs \cup {[topic |-> t, entry |-> "manual", row |-> Rows(t),
                         created |-> at, end |-> at,
                         start |-> at - schedule[t].interval - Lookback]}
  /\ manual' = [manual EXCEPT ![t].pc = "idle", ![t].at = 0]
  /\ UNCHANGED <<now, status, schedule, due, scan>>

-----------------------------------------------------------------------------
(* The API on a topic: each transaction waits for the row locks of a scan  *)
(* or a manual run.                                                        *)
Unlocked(t) == t \notin scan.locked /\ manual[t].pc # "locked"
LesserOf(a, b) == IF a < b THEN a ELSE b

(* _sync_search_schedules, on a row that is kept                           *)
Synced(t, interval, enabled) ==
  [schedule[t] EXCEPT !.interval = interval, !.enabled = enabled,
                      !.next = LesserOf(@, now + interval)]

ChangeInterval(t, interval) ==
  /\ Unlocked(t) /\ status[t] # "archived" /\ Selected(t)
  /\ interval # schedule[t].interval
  /\ schedule' = [schedule EXCEPT ![t] = Synced(t, interval, status[t] = "active")]
  /\ UNCHANGED <<now, status, due, jobs, scan, manual>>

(* The source leaves the topic: its row is deleted, its ledger stays.      *)
Deselect(t) ==
  /\ Unlocked(t) /\ status[t] # "archived" /\ Selected(t)
  /\ Rows(t) < MaxRows                                               \* bound
  /\ schedule' = [schedule EXCEPT ![t].on = FALSE]
  /\ UNCHANGED <<now, status, due, jobs, scan, manual>>

Select(t) ==
  /\ status[t] # "archived" /\ ~Selected(t)
  /\ now \notin DOMAIN due[t]
  /\ schedule' = [schedule EXCEPT ![t] =
       [on |-> TRUE, row |-> @.row + 1, enabled |-> status[t] = "active",
        interval |-> @.interval, next |-> now, last |-> NoJob]]
  /\ UNCHANGED <<now, status, due, jobs, scan, manual>>

Transition(t, target) ==
  /\ Unlocked(t) /\ status[t] \notin {"archived", target}
  /\ status' = [status EXCEPT ![t] = target]
  /\ schedule' = [schedule EXCEPT ![t] =
       IF target = "active" THEN Synced(t, @.interval, TRUE)
                            ELSE [@ EXCEPT !.enabled = FALSE]]
  /\ UNCHANGED <<now, due, jobs, scan, manual>>

Tick ==
  /\ now < MaxTime                                                   \* bound
  /\ now' = now + 1
  /\ UNCHANGED <<status, schedule, due, jobs, scan, manual>>

-----------------------------------------------------------------------------
ScanRow(t) ==
  \/ ScanFails(t) \/ ScanSkips(t) \/ ScanBusy(t)
  \/ ScanRateLimited(t) \/ ScanAccepts(t)

ManualStep(t) == ManualAdmits(t) \/ ManualRefused(t) \/ ManualCommits(t)

Next ==
  \/ Tick
  \/ ScanBegin
  \/ \E t \in Topics :
       \/ ScanRow(t) \/ ManualBegin(t) \/ ManualStep(t)
       \/ \E interval \in Intervals : ChangeInterval(t, interval)
       \/ Deselect(t) \/ Select(t)
       \/ \E target \in {"active", "paused", "archived"} : Transition(t, target)

Spec == Init /\ [][Next]_vars

(* The scheduler scans every 30 seconds; a transaction that began ends.    *)
Fairness ==
  /\ WF_vars(ScanBegin)
  /\ \A t \in Topics : WF_vars(ScanRow(t)) /\ WF_vars(ManualStep(t))

FairSpec == Spec /\ Fairness

-----------------------------------------------------------------------------
Scheduled(t) == {j \in jobs : j.topic = t /\ j.entry = "scheduled"}
Before(j) == {k \in Scheduled(j.topic) : k.row = j.row /\ k.end < j.end}

(* The scheduled windows of a row follow one another without a gap, across *)
(* skipped, missed and replayed points, pauses and interval changes: each  *)
(* starts where the one before it ended, minus the lookback.               *)
AcceptedWindowsMeet ==
  \A t \in Topics : \A j \in Scheduled(t) :
    /\ j.start + Lookback < j.end
    /\ Before(j) # {} => j.start + Lookback = Max({k.end : k \in Before(j)})

(* No due point is left out of the ledger: two consecutive points of a row *)
(* are at most the interval of the first apart, and so is the cursor.      *)
PointsOf(t) == {d \in DOMAIN due[t] : due[t][d].row = Rows(t)}
CadenceKept ==
  \A t \in Topics : \A d \in PointsOf(t) :
    LET later == {e \in PointsOf(t) \cup {schedule[t].next} : e > d}
        step == d - due[t][d].start - Lookback
    IN later # {} => Min(later) - d <= step

(* At most one due point of a row is undecided, the newest: a scan that    *)
(* finds the source busy leaves it behind, with the cursor not past it.    *)
PendingDueIsTheNewest ==
  \A t \in Topics : \A d \in PointsOf(t) :
    due[t][d].state = "pending" => d = Max(PointsOf(t)) /\ schedule[t].next <= d

(* After an outage only the newest due point is collected: no job is       *)
(* accepted for a window whose successor was already due.                  *)
OutageCollapsesToOne ==
  \A t \in Topics : \A j \in Scheduled(t) :
    j.created < j.end + (j.end - due[t][j.end].start - Lookback)

(* Manual runs and scans of any topics never admit two collections of the  *)
(* source closer than its minimum interval.                                *)
RateLimitHolds ==
  \A j, k \in jobs :
    j # k => j.created - k.created >= MinInterval \/ k.created - j.created >= MinInterval

(* A due point that a busy source left undecided gets its outcome, unless  *)
(* its topic is paused, the source deselected, or its interval changed.    *)
Undecided(t) == {d \in PointsOf(t) : due[t][d].state = "pending"}
Withdrawn(t) == ~Selected(t) \/ ~schedule[t].enabled
Replanned(t) == \E d \in Undecided(t) : due[t][d].start # WindowStart(t, d)

PendingDueSettles ==
  \A t \in Topics :
    Undecided(t) # {} ~> Undecided(t) = {} \/ Withdrawn(t) \/ Replanned(t)

(* It does so whatever becomes of the interval.                            *)
EveryPendingDueSettles ==
  \A t \in Topics : Undecided(t) # {} ~> Undecided(t) = {} \/ Withdrawn(t)
=============================================================================
