------------------------ MODULE JobExecutionProofs ------------------------
(***************************************************************************)
(* Theorems about JobExecution, for any number of jobs and host runners    *)
(* and any value of the ticks and bounds: its types and the partition      *)
(* first, then the invariants on rows, attempts and messages, then topics, *)
(* the refinement of JobPromise, and the lease that LeasedJob describes.   *)
(***************************************************************************)
EXTENDS JobExecution, SequenceTheorems, FiniteSetTheorems, TLAPS

(* The tables that a process leaves alone between its transactions.        *)
tables == <<rows, attempts, outboxTable, processed, topic>>

(* The steps that write a table. *)
DatabaseStep ==
  \/ \E j \in Jobs : \/ AcceptInsert(j) \/ CancelUnheld(j) \/ CancelHeld(j)
                     \/ RequestRetry(j) \/ Redispatch(j)
  \/ \E target \in {"active", "paused", "archived"} : TransitionTopic(target)
  \/ PublishPending
  \/ \E r \in Runners : \/ AcknowledgeCancelled(r) \/ Acquire(r)
                        \/ Complete(r) \/ FailCancelled(r) \/ Fail(r)
                        \/ \E renew \in BOOLEAN : WatchLease(r, renew)
  \/ \E t \in children : BeginRequest(t) \/ \E step \in {0, 1} : SaveCheckpoint(t, step)
  \/ Tick

(* Every step writes a table or leaves all of them alone.                  *)
LEMMA NextSplit == Next => DatabaseStep \/ UNCHANGED tables
<1> SUFFICES ASSUME Next PROVE DatabaseStep \/ UNCHANGED tables
  OBVIOUS
<1> USE DEF tables
<1>1. ASSUME NEW j \in Jobs, Request(j) PROVE DatabaseStep \/ UNCHANGED tables
  BY <1>1 DEF Request, AcceptRead, DatabaseStep
<1>2. CASE PublishFails \/ Fetch \/ Commit \/ Wake
  BY <1>2 DEF PublishFails, Fetch, Commit, Wake
<1>3. ASSUME NEW r \in Runners, Deliver(r) PROVE DatabaseStep \/ UNCHANGED tables
  BY <1>3 DEF Deliver, CheckProcessed, AcquireRefused, Refused,
              RecoverAiCallsRaises, StartChild, NoHandler, DatabaseStep
<1>4. ASSUME NEW r \in Runners, Settle(r) PROVE DatabaseStep \/ UNCHANGED tables
  BY <1>4 DEF Settle, SettleRaises, DatabaseStep
<1>5. ASSUME NEW r \in Runners, RunnerStep(r) PROVE DatabaseStep \/ UNCHANGED tables
  BY <1>3, <1>4, <1>5 DEF RunnerStep, HostPick, HostNext, LeaseLost, ChildCrashes,
     ChildEnds, Shutdown, Crash, Restart, DatabaseStep
<1>6. ASSUME NEW t \in children, Child(t) PROVE DatabaseStep \/ UNCHANGED tables
  BY <1>6 DEF Child, OrphanExits, DatabaseStep
<1> QED
  BY <1>1, <1>2, <1>5, <1>6 DEF Next, DatabaseStep

-----------------------------------------------------------------------------
(* The records the transactions write are of their types.                  *)

LEMMA CountdownTyped == \A n \in Nat : Countdown(n) \in Nat
  BY DEF Countdown

LEMMA TickedRecords ==
  /\ \A x \in Leases : [x EXCEPT !.left = Countdown(x.left)] \in Leases
  /\ \A x \in Cancels : [x EXCEPT !.left = Countdown(x.left)] \in Cancels
  /\ \A x \in Retries : [x EXCEPT !.left = Countdown(x.left)] \in Retries
  /\ \A x \in RunnerStates : [x EXCEPT !.wait = Countdown(x.wait)] \in RunnerStates
  BY CountdownTyped DEF Leases, Cancels, Retries, RunnerStates

LEMMA LeaseRecords ==
  /\ \A x \in Leases : [owner |-> NoRunner, epoch |-> x.epoch, left |-> 0] \in Leases
  /\ \A x \in Leases, n \in Nat : [x EXCEPT !.left = n] \in Leases
  /\ \A x \in Leases : x.epoch \in Nat /\ x.left \in Nat
  /\ \A r \in Runners, e \in Nat, n \in Nat :
       [owner |-> r, epoch |-> e, left |-> n] \in Leases
  BY DEF Leases

LEMMA CancelRecords ==
  /\ \A a \in BOOLEAN, n \in Nat : [asked |-> a, left |-> n] \in Cancels
  /\ \A x \in Cancels : x.left \in Nat
  BY DEF Cancels

LEMMA RetryRecords ==
  /\ \A x \in Retries : [count |-> x.count, left |-> 0, defer |-> "none"] \in Retries
  /\ \A x \in Retries, n \in Nat, d \in {"none", "manual_retry", "transient"} :
       [count |-> x.count + 1, left |-> n, defer |-> d] \in Retries
  BY DEF Retries

LEMMA ErrorRecords == \A a, b \in BOOLEAN : [recorded |-> a, manual |-> b] \in Errors
  BY DEF Errors

LEMMA WorkRecords ==
  ASSUME NEW x \in Works
  PROVE  /\ NewCycle(x) \in Works /\ OneRequest(x) \in Works
         /\ \A step \in {0, 1} : [x EXCEPT !.checkpoint = x.checkpoint + step] \in Works
<1>1. /\ x.cycle + 1 \in Nat /\ x.requests + 1 \in Nat /\ x.cycleRequests + 1 \in Nat
      /\ \A step \in {0, 1} : x.checkpoint + step \in Nat
  BY DEF Works
<1> QED
  BY <1>1 DEF Works, NewCycle, OneRequest

-----------------------------------------------------------------------------
(* Type correctness, by the three parts of TypeOK.                         *)

LEMMA RunnerTyped ==
  ASSUME TypeOK, NEW r \in Runners
  PROVE  /\ runner[r] \in RunnerStates
         /\ runner[r].wait \in Nat /\ runner[r].epoch \in Nat
         /\ runner[r].pc \notin Rest =>
              runner[r].msg \in Messages /\ runner[r].msg[1] \in Jobs /\ Token(r).job \in Jobs
<1>1. runner[r] \in RunnerStates
  BY DEF TypeOK, ProcessesTypeOK
<1>2. runner[r].wait \in Nat /\ runner[r].epoch \in Nat
  BY <1>1 DEF RunnerStates
<1>3. runner[r].pc \notin Rest => runner[r].msg \in Messages
  BY DEF TypeOK, ProcessesTypeOK
<1> QED
  BY <1>1, <1>2, <1>3 DEF Messages, Token

LEMMA FencedCancelTyped ==
  ASSUME RowsTypeOK, NEW j \in Jobs, NEW n \in Nat
  PROVE  FencedCancel(j, n) \in Cancels
  BY CancelRecords DEF FencedCancel, RowsTypeOK

LEMMA RowsTyped == ASSUME TypeOK, Next PROVE RowsTypeOK'
<1> USE DEF RowsTypeOK, rows, Live, Terminal
<1>0. RowsTypeOK
  BY DEF TypeOK
<1>1. ASSUME UNCHANGED rows PROVE RowsTypeOK'
  BY <1>0, <1>1
<1>2. ASSUME NEW j \in Jobs, AcceptInsert(j) PROVE RowsTypeOK'
  BY <1>0, <1>2 DEF AcceptInsert, TypeOK, ProcessesTypeOK
<1>3. ASSUME NEW j \in Jobs, CancelUnheld(j) PROVE RowsTypeOK'
  BY <1>0, <1>3, LeaseRecords, CancelRecords, RetryRecords
  DEF CancelUnheld, ReleaseLease, NotDeferred
<1>4. ASSUME NEW j \in Jobs, CancelHeld(j) PROVE RowsTypeOK'
  BY <1>0, <1>4, LeaseRecords, CancelRecords DEF CancelHeld
<1>5. ASSUME NEW j \in Jobs, RequestRetry(j) PROVE RowsTypeOK'
  BY <1>0, <1>5, RetryRecords DEF RequestRetry
<1>6. ASSUME NEW r \in Runners, Acquire(r) PROVE RowsTypeOK'
  <2> DEFINE j == runner[r].msg[1]
  <2>1. j \in Jobs
    BY <1>6, RunnerTyped DEF Acquire, Rest
  <2>2. lease[j].epoch + 1 \in Nat
    BY <1>0, <2>1, LeaseRecords
  <2>3. lease' \in [Jobs -> Leases]
    BY <1>0, <1>6, <2>2, LeaseRecords, TicksAssumption DEF Acquire
  <2>4. cancel' \in [Jobs -> Cancels]
    BY <1>0, <1>6, <2>1, FencedCancelTyped, TicksAssumption DEF Acquire
  <2>5. retry' \in [Jobs -> Retries]
    BY <1>0, <1>6, RetryRecords DEF Acquire, NotDeferred
  <2>6. work' \in [Jobs -> Works]
    BY <1>0, <1>6, <2>1, WorkRecords DEF Acquire
  <2> QED
    BY <1>0, <1>6, <2>3, <2>4, <2>5, <2>6 DEF Acquire
<1>7. ASSUME NEW t \in children, BeginRequest(t) PROVE RowsTypeOK'
  <2>1. t.job \in Jobs
    BY DEF TypeOK, ProcessesTypeOK
  <2>2. cancel' \in [Jobs -> Cancels]
    BY <1>0, <1>7, <2>1, FencedCancelTyped, LeaseRecords DEF BeginRequest
  <2>3. lease' \in [Jobs -> Leases]
    BY <1>0, <1>7, <2>1, LeaseRecords, TicksAssumption DEF BeginRequest
  <2>4. work' \in [Jobs -> Works]
    <3>1. work' = work \/ work' = [work EXCEPT ![t.job] = OneRequest(work[t.job])]
      BY <1>7 DEF BeginRequest
    <3>2. OneRequest(work[t.job]) \in Works
      BY <1>0, <2>1, WorkRecords
    <3> QED
      BY <1>0, <3>1, <3>2
  <2> QED
    BY <1>0, <1>7, <2>2, <2>3, <2>4 DEF BeginRequest
<1>8. ASSUME NEW t \in children, NEW step \in {0, 1}, SaveCheckpoint(t, step)
      PROVE  RowsTypeOK'
  <2>1. t.job \in Jobs
    BY DEF TypeOK, ProcessesTypeOK
  <2>2. Lesser(LeaseTicks, cancel[t.job].left) \in Nat
    BY <1>0, <2>1, CancelRecords, TicksAssumption DEF Lesser
  <2>3. lease' \in [Jobs -> Leases]
    BY <1>0, <1>8, <2>1, <2>2, LeaseRecords, TicksAssumption DEF SaveCheckpoint
  <2>4. work' \in [Jobs -> Works]
    BY <1>0, <1>8, <2>1, WorkRecords DEF SaveCheckpoint
  <2> QED
    BY <1>0, <1>8, <2>3, <2>4 DEF SaveCheckpoint
<1>9. ASSUME NEW r \in Runners, NEW renew \in BOOLEAN, WatchLease(r, renew)
      PROVE  RowsTypeOK'
  <2>1. Token(r).job \in Jobs
    BY <1>9, RunnerTyped DEF WatchLease, Rest
  <2>2. cancel' \in [Jobs -> Cancels]
    BY <1>0, <1>9, <2>1, FencedCancelTyped, LeaseRecords DEF WatchLease
  <2>3. lease' \in [Jobs -> Leases]
    BY <1>0, <1>9, <2>1, LeaseRecords, TicksAssumption DEF WatchLease
  <2> QED
    BY <1>0, <1>9, <2>2, <2>3 DEF WatchLease
<1>10. ASSUME NEW r \in Runners, Complete(r) \/ FailCancelled(r) \/ Fail(r)
       PROVE  RowsTypeOK'
  <2> DEFINE j == Token(r).job
  <2>1. j \in Jobs /\ runner[r].wait \in Nat
    BY <1>10, RunnerTyped DEF Complete, FailCancelled, Fail, Settles, Rest
  <2>2. FinalCancel(j) \in Cancels
    BY <1>0, <2>1, FencedCancelTyped, LeaseRecords DEF FinalCancel
  <2>3. ReleaseLease(j) /\ UNCHANGED <<work, frozen>>
    BY <1>10 DEF Complete, FailCancelled, Fail
  <2>4. cancel' = cancel \/ cancel' = [cancel EXCEPT ![j] = FinalCancel(j)]
    BY <1>10 DEF Complete, FailCancelled, Fail
  <2>5. \/ UNCHANGED retry \/ NotDeferred(j)
        \/ retry' = [retry EXCEPT ![j] =
             [count |-> @.count + 1, left |-> runner[r].wait, defer |-> "transient"]]
    BY <1>10 DEF Complete, FailCancelled, Fail
  <2>6. status' \in [Jobs -> {"absent"} \cup Live \cup Terminal]
    BY <1>0, <1>10 DEF Complete, FailCancelled, Fail
  <2>7. error' = error \/ \E a, b \in BOOLEAN :
          error' = [error EXCEPT ![j] = [recorded |-> a, manual |-> b]]
    <3>1. CASE Complete(r)
      BY <3>1 DEF Complete
    <3>2. CASE FailCancelled(r)
      BY <3>2 DEF FailCancelled
    <3>3. CASE Fail(r)
      BY <3>3 DEF Fail
    <3> QED
      BY <1>10, <3>1, <3>2, <3>3
  <2> HIDE DEF j
  <2>8. lease' \in [Jobs -> Leases]
    BY <1>0, <2>3, LeaseRecords DEF ReleaseLease
  <2>9. cancel' \in [Jobs -> Cancels]
    BY <1>0, <2>2, <2>4
  <2>10. retry' \in [Jobs -> Retries]
    <3>1. CASE UNCHANGED retry \/ NotDeferred(j)
      BY <1>0, <3>1, RetryRecords DEF NotDeferred
    <3>2. CASE retry' = [retry EXCEPT ![j] =
                 [count |-> @.count + 1, left |-> runner[r].wait, defer |-> "transient"]]
      BY <1>0, <2>1, <3>2, RetryRecords
    <3> QED
      BY <2>5, <3>1, <3>2
  <2>11. error' \in [Jobs -> Errors]
    BY <1>0, <2>7, ErrorRecords
  <2> QED
    BY <1>0, <2>3, <2>6, <2>8, <2>9, <2>10, <2>11
<1>11. ASSUME Tick PROVE RowsTypeOK'
  BY <1>0, <1>11, TickedRecords DEF Tick
<1>12. ASSUME DatabaseStep PROVE RowsTypeOK'
  BY <1>1, <1>2, <1>3, <1>4, <1>5, <1>6, <1>7, <1>8, <1>9, <1>10, <1>11, <1>12
  DEF DatabaseStep, Redispatch, TransitionTopic, PublishPending, AcknowledgeCancelled
<1> QED
  BY <1>1, <1>12, NextSplit DEF tables

(* Changing the outcomes of a sequence of attempts keeps its length.       *)
LEMMA Relabelled ==
  ASSUME NEW S, NEW s \in Seq(S), NEW t \in [DOMAIN s -> S]
  PROVE  t \in Seq(S) /\ Len(t) = Len(s) /\ DOMAIN t = 1 .. Len(s)
<1>1. DOMAIN s = 1 .. Len(s) /\ Len(s) \in Nat
  BY LenProperties
<1> QED
  BY <1>1, SeqDef

LEMMA CloseAttemptTyped ==
  ASSUME TablesTypeOK, NEW j \in Jobs, NEW outcome \in AttemptOutcomes,
         CloseAttempt(j, outcome)
  PROVE  attempts' \in [Jobs -> Seq(AttemptOutcomes)]
<1> DEFINE closed == [e \in DOMAIN attempts[j] |->
      IF e = lease[j].epoch /\ attempts[j][e] = "open" THEN outcome ELSE attempts[j][e]]
<1>1. attempts[j] \in Seq(AttemptOutcomes)
  BY DEF TablesTypeOK
<1>2. \A e \in DOMAIN attempts[j] : attempts[j][e] \in AttemptOutcomes
  BY <1>1, LenProperties
<1>3. closed \in [DOMAIN attempts[j] -> AttemptOutcomes]
  BY <1>2
<1>4. closed \in Seq(AttemptOutcomes)
  BY <1>1, <1>3, Relabelled
<1>5. attempts' = [attempts EXCEPT ![j] = closed]
  BY DEF CloseAttempt
<1> QED
  BY <1>4, <1>5 DEF TablesTypeOK

LEMMA DispatchTyped ==
  ASSUME TablesTypeOK, NEW j \in Jobs, NEW delay \in Nat, Dispatch(j, delay)
  PROVE  /\ dispatched' \in [Jobs -> Nat] /\ available' \in [Jobs -> Nat]
         /\ unpublished' \subseteq Messages /\ IsFiniteSet(unpublished')
<1>0. dispatched \in [Jobs -> Nat] /\ available \in [Jobs -> Nat]
  BY DEF TablesTypeOK
<1>1. <<j, dispatched[j] + 1>> \in Messages
  BY <1>0 DEF Messages
<1>2. IsFiniteSet(unpublished \cup {<<j, dispatched[j] + 1>>})
  BY FS_AddElement DEF TablesTypeOK
<1>3. dispatched' \in [Jobs -> Nat] /\ available' \in [Jobs -> Nat]
  BY <1>0 DEF Dispatch
<1> QED
  BY <1>1, <1>2, <1>3 DEF Dispatch, TablesTypeOK

LEMMA TablesTyped == ASSUME TypeOK, Next PROVE TablesTypeOK'
<1> USE DEF TablesTypeOK, outboxTable, AttemptOutcomes
<1>0. TablesTypeOK
  BY DEF TypeOK
<1>1. ASSUME UNCHANGED <<attempts, outboxTable, processed, topic>> PROVE TablesTypeOK'
  BY <1>0, <1>1
<1>2. ASSUME NEW j \in Jobs,
             AcceptInsert(j) \/ RequestRetry(j) \/ Redispatch(j)
      PROVE  TablesTypeOK'
  BY <1>0, <1>2, DispatchTyped DEF AcceptInsert, RequestRetry, Redispatch
<1>3. ASSUME NEW j \in Jobs, CancelUnheld(j) PROVE TablesTypeOK'
  BY <1>0, <1>3, CloseAttemptTyped DEF CancelUnheld
<1>4. ASSUME NEW target \in {"active", "paused", "archived"}, TransitionTopic(target)
      PROVE  TablesTypeOK'
  BY <1>0, <1>4 DEF TransitionTopic
<1>5. ASSUME PublishPending PROVE TablesTypeOK'
  BY <1>0, <1>5, FS_Subset DEF PublishPending
<1>6. ASSUME NEW r \in Runners, AcknowledgeCancelled(r) PROVE TablesTypeOK'
  <2>1. runner[r].msg \in Messages
    BY <1>6, RunnerTyped DEF AcknowledgeCancelled, Rest
  <2>2. UNCHANGED processed \/ Record(runner[r].msg)
    BY <1>6 DEF AcknowledgeCancelled
  <2>3. UNCHANGED <<attempts, outboxTable, topic>>
    BY <1>6 DEF AcknowledgeCancelled
  <2> QED
    BY <1>0, <2>1, <2>2, <2>3 DEF Record
<1>7. ASSUME NEW r \in Runners, Acquire(r) PROVE TablesTypeOK'
  <2> DEFINE j == runner[r].msg[1]
             taken == [e \in DOMAIN attempts[j] |->
               IF status[j] = "running" /\ e = lease[j].epoch /\ attempts[j][e] = "open"
                 THEN "expired" ELSE attempts[j][e]]
  <2>1. j \in Jobs
    BY <1>7, RunnerTyped DEF Acquire, Rest
  <2>2. \A e \in DOMAIN attempts[j] : attempts[j][e] \in AttemptOutcomes
    BY <1>0, <2>1, LenProperties
  <2>3. taken \in [DOMAIN attempts[j] -> AttemptOutcomes]
    BY <2>2
  <2>4. taken \in Seq(AttemptOutcomes)
    BY <1>0, <2>1, <2>3, Relabelled
  <2>5. Append(taken, "open") \in Seq(AttemptOutcomes)
    BY <2>4, AppendProperties
  <2>6. /\ attempts' = [attempts EXCEPT ![j] = Append(taken, "open")]
        /\ UNCHANGED <<outboxTable, processed, topic>>
    BY <1>7 DEF Acquire
  <2> QED
    BY <1>0, <2>5, <2>6
<1>8. ASSUME NEW r \in Runners, Complete(r) \/ FailCancelled(r) \/ Fail(r)
      PROVE  TablesTypeOK'
  <2> DEFINE j == Token(r).job
  <2>1. j \in Jobs /\ runner[r].msg \in Messages /\ runner[r].wait \in Nat
    BY <1>8, RunnerTyped DEF Complete, FailCancelled, Fail, Settles, Rest
  <2>2. /\ \E outcome \in AttemptOutcomes : CloseAttempt(j, outcome)
        /\ Record(runner[r].msg)
        /\ UNCHANGED outboxTable \/ Dispatch(j, runner[r].wait)
        /\ UNCHANGED topic
    BY <1>8 DEF Complete, FailCancelled, Fail
  <2> HIDE DEF j
  <2>3. attempts' \in [Jobs -> Seq(AttemptOutcomes)]
    BY <1>0, <2>1, <2>2, CloseAttemptTyped
  <2>4. processed' \subseteq Messages
    BY <1>0, <2>1, <2>2 DEF Record
  <2>5. /\ dispatched' \in [Jobs -> Nat] /\ available' \in [Jobs -> Nat]
        /\ unpublished' \subseteq Messages /\ IsFiniteSet(unpublished')
    BY <1>0, <2>1, <2>2, DispatchTyped
  <2> QED
    BY <1>0, <2>2, <2>3, <2>4, <2>5
<1>9. ASSUME Tick PROVE TablesTypeOK'
  BY <1>0, <1>9, CountdownTyped DEF Tick
<1>10. ASSUME DatabaseStep PROVE TablesTypeOK'
  BY <1>1, <1>2, <1>3, <1>4, <1>5, <1>6, <1>7, <1>8, <1>9, <1>10
  DEF DatabaseStep, CancelHeld, WatchLease, BeginRequest, SaveCheckpoint
<1> QED
  BY <1>1, <1>10, NextSplit DEF tables

-----------------------------------------------------------------------------
(* What a step does to the processes: a runner lets go of its message, or  *)
(* carries the same message on.                                            *)
LetsGo(r) ==
  \E pc \in Rest, n \in Nat : runner' = [runner EXCEPT ![r] = Resting(pc, n)]

CarriesOn(r) ==
  /\ runner[r].pc \notin Rest
  /\ \E x \in RunnerStates :
       x.msg = runner[r].msg /\ runner' = [runner EXCEPT ![r] = x]

RunnerChange ==
  UNCHANGED runner \/ \E r \in Runners : LetsGo(r) \/ CarriesOn(r)

LEMMA GotoCarries ==
  ASSUME TypeOK, NEW r \in Runners, runner[r].pc \notin Rest,
         NEW pc \in {"checked", "admitted", "refused", "running", "handled"}, Goto(r, pc)
  PROVE  CarriesOn(r)
<1>1. runner[r] \in RunnerStates
  BY RunnerTyped
<1>2. [runner[r] EXCEPT !.pc = pc] \in RunnerStates
  BY <1>1 DEF RunnerStates
<1>3. runner' = [runner EXCEPT ![r] = [runner[r] EXCEPT !.pc = pc]]
  BY DEF Goto
<1>4. [runner[r] EXCEPT !.pc = pc].msg = runner[r].msg
  BY <1>1 DEF RunnerStates
<1> QED
  BY <1>2, <1>3, <1>4 DEF CarriesOn

LEMMA ToReportCarries ==
  ASSUME TypeOK, NEW r \in Runners, runner[r].pc \notin Rest,
         NEW report \in Reports, NEW n \in Nat, ToReport(r, report, n)
  PROVE  CarriesOn(r)
<1> DEFINE x == [runner[r] EXCEPT !.pc = "reporting", !.report = report, !.wait = n]
<1>1. runner[r] \in RunnerStates
  BY RunnerTyped
<1>2. x \in RunnerStates /\ x.msg = runner[r].msg
  BY <1>1 DEF RunnerStates
<1>3. runner' = [runner EXCEPT ![r] = x]
  BY DEF ToReport
<1> QED
  BY <1>2, <1>3 DEF CarriesOn

LEMMA SettledCarries ==
  ASSUME TypeOK, NEW r \in Runners, runner[r].pc = "reporting", Settled(r)
  PROVE  CarriesOn(r)
<1> DEFINE x == [Resting("handled", 0) EXCEPT !.msg = runner[r].msg]
<1>1. runner[r].msg \in Messages
  BY RunnerTyped DEF Rest
<1>2. x \in RunnerStates /\ x.msg = runner[r].msg
  BY <1>1 DEF RunnerStates, Resting, Reports
<1> QED
  BY <1>2 DEF CarriesOn, Settled, Rest

LEMMA DeferLetsGo ==
  ASSUME NEW r \in Runners, NEW n \in Nat, Defer(r, n)
  PROVE  LetsGo(r)
  BY DEF Defer, LetsGo, Rest

LEMMA DropLetsGo ==
  ASSUME NEW r \in Runners, NEW pc \in Rest, Drop(r, pc)
  PROVE  LetsGo(r)
  BY DEF Drop, LetsGo

(* Every step is a Fetch, a HostPick, a Tick or one of these changes.      *)
LEMMA RunnerSplit ==
  ASSUME TypeOK, Next
  PROVE  \/ RunnerChange \/ Fetch \/ Tick
         \/ \E r \in HostRunners, j \in Jobs : \E n \in 1 .. dispatched[j] : HostPick(r, <<j, n>>)
<1> DEFINE Goal == \/ RunnerChange \/ Fetch \/ Tick
                   \/ \E r \in HostRunners, j \in Jobs :
                        \E n \in 1 .. dispatched[j] : HostPick(r, <<j, n>>)
<1> USE DEF RunnerChange, Rest
<1>1. ASSUME NEW r \in Runners, Deliver(r) PROVE Goal
  <2>1. lease[runner[r].msg[1]].left \in Nat \/ ~Refused(r)
    BY RunnerTyped, LeaseRecords DEF Refused, TypeOK, RowsTypeOK
  <2>2. CASE Acquire(r)
    <3> DEFINE j == runner[r].msg[1]
               x == [runner[r] EXCEPT !.pc = "acquired", !.epoch = lease[j].epoch + 1]
    <3>1. runner[r] \in RunnerStates /\ j \in Jobs
      BY <2>2, RunnerTyped DEF Acquire
    <3>2. lease[j].epoch + 1 \in Nat
      BY <3>1, LeaseRecords DEF TypeOK, RowsTypeOK
    <3>3. x \in RunnerStates /\ x.msg = runner[r].msg
      BY <3>1, <3>2 DEF RunnerStates
    <3>4. runner' = [runner EXCEPT ![r] = x]
      BY <2>2 DEF Acquire
    <3> QED
      BY <2>2, <3>3, <3>4 DEF CarriesOn, Acquire
  <2>3. CASE CheckProcessed(r) \/ AcknowledgeCancelled(r) \/ AcquireRefused(r) \/ StartChild(r)
    BY <2>3, GotoCarries DEF CheckProcessed, AcknowledgeCancelled, AcquireRefused, StartChild
  <2>4. CASE Refused(r) \/ RecoverAiCallsRaises(r)
    BY <2>1, <2>4, DeferLetsGo, DropLetsGo DEF Refused, RecoverAiCallsRaises
  <2>5. CASE NoHandler(r)
    BY <2>5, ToReportCarries DEF NoHandler, Reports, Failures
  <2> QED
    BY <1>1, <2>2, <2>3, <2>4, <2>5 DEF Deliver
<1>2. ASSUME NEW r \in Runners, Settle(r) PROVE Goal
  BY <1>2, SettledCarries, DropLetsGo
  DEF Settle, Complete, FailCancelled, Fail, Settles, SettleRaises
<1>3. ASSUME NEW r \in Runners, DeferAfterChildExit(r), runner[r].pc = "running" PROVE Goal
  <2>1. lease[Token(r).job].left \in Nat
    BY <1>3, RunnerTyped, LeaseRecords DEF TypeOK, RowsTypeOK
  <2> QED
    BY <1>3, <2>1, DeferLetsGo DEF DeferAfterChildExit
<1>4. ASSUME NEW r \in Runners, ChildEnds(r) PROVE Goal
  BY <1>4, ToReportCarries, TicksAssumption DEF ChildEnds, Reports, Failures
<1>5. ASSUME NEW r \in Runners, NEW renew \in BOOLEAN, WatchLease(r, renew) PROVE Goal
  BY <1>5, ToReportCarries DEF WatchLease, Reports, Failures
<1>6. ASSUME NEW r \in Runners, NEW j \in HostJobs, NEW n \in 1 .. dispatched[j],
             HostPick(r, <<j, n>>)
      PROVE  Goal
  <2>1. j \in Jobs
    BY JobSetsAssumption
  <2>2. r \in HostRunners
    BY <1>6 DEF HostPick
  <2> QED
    BY <1>6, <2>1, <2>2
<1>7. ASSUME NEW r \in Runners, RunnerStep(r) PROVE Goal
  BY <1>1, <1>2, <1>3, <1>4, <1>5, <1>6, <1>7, DropLetsGo
  DEF RunnerStep, HostNext, LeaseLost, ChildCrashes, Shutdown, Crash, Restart
<1>8. ASSUME NEW j \in Jobs, Request(j) PROVE Goal
  BY <1>8 DEF Request, AcceptRead, AcceptInsert, CancelUnheld, CancelHeld, RequestRetry,
              Redispatch
<1>9. ASSUME NEW t \in children, Child(t) PROVE Goal
  BY <1>9 DEF Child, BeginRequest, SaveCheckpoint, OrphanExits
<1>10. ASSUME PublishFails \/ Commit \/ Wake PROVE Goal
  <2>1. Worker \in Runners
    BY DEF Runners
  <2> QED
    BY <1>10, <2>1, DropLetsGo DEF PublishFails, Commit, Wake
<1> QED
  BY <1>7, <1>8, <1>9, <1>10 DEF Next, TransitionTopic, PublishPending

LEMMA RunnersTyped ==
  ASSUME TypeOK, CommitsWhatItHandled, Next
  PROVE  /\ runner' \in [Runners -> RunnerStates]
         /\ \A r \in Runners : runner'[r].pc \notin Rest => runner'[r].msg \in Messages
<1> DEFINE Goal == /\ runner' \in [Runners -> RunnerStates]
                   /\ \A r \in Runners :
                        runner'[r].pc \notin Rest => runner'[r].msg \in Messages
<1>0. /\ runner \in [Runners -> RunnerStates]
      /\ \A r \in Runners : runner[r].pc \notin Rest => runner[r].msg \in Messages
  BY DEF TypeOK, ProcessesTypeOK
<1>1. CASE UNCHANGED runner
  BY <1>0, <1>1
<1>2. ASSUME NEW r \in Runners, LetsGo(r) PROVE Goal
  <2>1. \A pc \in Rest, n \in Nat : Resting(pc, n) \in RunnerStates /\ Resting(pc, n).pc = pc
    BY DEF Resting, RunnerStates, Reports
  <2> QED
    BY <1>0, <1>2, <2>1 DEF LetsGo
<1>3. ASSUME NEW r \in Runners, CarriesOn(r) PROVE Goal
  BY <1>0, <1>3 DEF CarriesOn
<1>4. ASSUME NEW r \in Runners, NEW m \in Messages,
             runner' = [runner EXCEPT ![r].pc = "fetched", ![r].msg = m]
      PROVE  Goal
  <2> DEFINE x == [runner[r] EXCEPT !.pc = "fetched", !.msg = m]
  <2>1. x \in RunnerStates /\ x.msg = m
    BY <1>0 DEF RunnerStates
  <2>2. runner' = [runner EXCEPT ![r] = x]
    BY <1>4
  <2> QED
    BY <1>0, <2>1, <2>2
<1>5. CASE Fetch
  <2>1. Head(log) \in Messages /\ Worker \in Runners
    BY <1>5, HeadTailProperties DEF Fetch, TypeOK, ProcessesTypeOK, Runners
  <2> QED
    BY <1>4, <1>5, <2>1 DEF Fetch
<1>6. ASSUME NEW r \in HostRunners, NEW j \in Jobs, NEW n \in 1 .. dispatched[j],
             HostPick(r, <<j, n>>)
      PROVE  Goal
  <2> DEFINE m == <<j, n>>
  <2>1. m \in Messages /\ r \in Runners
    BY DEF Messages, Runners, TypeOK, TablesTypeOK
  <2>2. runner' = [runner EXCEPT ![r].pc = "fetched", ![r].msg = m]
    BY <1>6 DEF HostPick
  <2> HIDE DEF m
  <2> QED
    BY <1>4, <2>1, <2>2
<1>7. CASE Tick
  <2>1. \A x \in RunnerStates :
          LET y == [x EXCEPT !.wait = Countdown(x.wait)]
          IN  y \in RunnerStates /\ y.pc = x.pc /\ y.msg = x.msg
    BY CountdownTyped DEF RunnerStates
  <2> QED
    BY <1>0, <1>7, <2>1 DEF Tick
<1> QED
  BY <1>1, <1>2, <1>3, <1>5, <1>6, <1>7, RunnerSplit DEF RunnerChange

(* Only a publish and a commit touch the partition.                        *)
LEMMA LogSplit == Next => UNCHANGED log \/ PublishPending \/ PublishFails \/ Commit
<1> SUFFICES ASSUME Next PROVE UNCHANGED log \/ PublishPending \/ PublishFails \/ Commit
  OBVIOUS
<1>1. ASSUME NEW r \in Runners, RunnerStep(r) PROVE UNCHANGED log
  BY <1>1
  DEF RunnerStep, HostPick, HostNext, Deliver, CheckProcessed, AcknowledgeCancelled,
      Acquire, AcquireRefused, Refused, RecoverAiCallsRaises, StartChild, NoHandler,
      Settle, Complete, FailCancelled, Fail, SettleRaises, WatchLease, LeaseLost,
      ChildCrashes, ChildEnds, Shutdown, Crash, Restart
<1>2. ASSUME NEW j \in Jobs, Request(j) PROVE UNCHANGED log
  BY <1>2 DEF Request, AcceptRead, AcceptInsert, CancelUnheld, CancelHeld, RequestRetry,
              Redispatch
<1>3. ASSUME NEW t \in children, Child(t) PROVE UNCHANGED log
  BY <1>3 DEF Child, BeginRequest, SaveCheckpoint, OrphanExits
<1> QED
  BY <1>1, <1>2, <1>3 DEF Next, TransitionTopic, Fetch, Wake, Tick

LEMMA LogTyped ==
  ASSUME TypeOK, CommitsWhatItHandled, Next
  PROVE  log' \in Seq(Messages)
<1>0. log \in Seq(Messages)
  BY DEF TypeOK, ProcessesTypeOK
<1>1. IsFiniteSet(Pending) /\ Pending \subseteq Messages
  BY FS_Subset DEF Pending, TypeOK, TablesTypeOK
<1>2. Cardinality(Pending) \in Nat
  BY <1>1, FS_CardinalityType
<1>3. \A batch \in Orders(Pending) :
        batch \in Seq(Messages) /\ Len(batch) = Cardinality(Pending)
  <2> SUFFICES ASSUME NEW batch \in Orders(Pending)
               PROVE  batch \in Seq(Messages) /\ Len(batch) = Cardinality(Pending)
    OBVIOUS
  <2>1. batch \in [1 .. Cardinality(Pending) -> Messages]
    BY <1>1 DEF Orders
  <2> QED
    BY <1>2, <2>1, SeqDef, LenProperties
<1>4. CASE PublishPending
  BY <1>0, <1>3, <1>4, ConcatProperties DEF PublishPending
<1>5. CASE PublishFails
  <2>1. PICK batch \in Orders(Pending), n \in 0 .. Cardinality(Pending) :
          log' = log \o SubSeq(batch, 1, n)
    BY <1>5 DEF PublishFails
  <2>2. SubSeq(batch, 1, n) \in Seq(Messages)
    BY <1>2, <1>3, SubSeqProperties
  <2> QED
    BY <1>0, <2>1, <2>2, ConcatProperties
<1>6. CASE Commit
  <2>1. log # <<>>
    BY <1>6 DEF Commit, CommitsWhatItHandled, Rest
  <2> QED
    BY <1>0, <1>6, <2>1, HeadTailProperties DEF Commit
<1> QED
  BY <1>0, <1>4, <1>5, <1>6, LogSplit

LEMMA OthersTyped ==
  ASSUME TypeOK, Next
  PROVE  /\ children' \subseteq [job : Jobs, owner : Runners, epoch : Nat]
         /\ accepting' \in [Jobs -> Nat \cup {NotAccepting}]
         /\ faults' \in Nat
<1> DEFINE Goal == /\ children' \subseteq [job : Jobs, owner : Runners, epoch : Nat]
                   /\ accepting' \in [Jobs -> Nat \cup {NotAccepting}]
                   /\ faults' \in Nat
<1>0. /\ children \subseteq [job : Jobs, owner : Runners, epoch : Nat]
      /\ accepting \in [Jobs -> Nat \cup {NotAccepting}]
      /\ faults \in Nat
  BY DEF TypeOK, ProcessesTypeOK
<1>1. ASSUME NEW j \in Jobs, Request(j) PROVE Goal
  BY <1>0, <1>1
  DEF Request, AcceptRead, AcceptInsert, CancelUnheld, CancelHeld, RequestRetry,
      Redispatch, TypeOK, TablesTypeOK
<1>2. ASSUME NEW r \in Runners, Deliver(r) PROVE Goal
  <2>1. CASE StartChild(r)
    <3>1. Token(r) \in [job : Jobs, owner : Runners, epoch : Nat]
      BY <2>1, RunnerTyped DEF StartChild, Token, Rest
    <3> QED
      BY <1>0, <2>1, <3>1 DEF StartChild
  <2> QED
    BY <1>0, <1>2, <2>1
    DEF Deliver, CheckProcessed, AcknowledgeCancelled, Acquire, AcquireRefused, Refused,
        RecoverAiCallsRaises, NoHandler
<1>3. ASSUME NEW r \in Runners, Settle(r) PROVE Goal
  BY <1>0, <1>3 DEF Settle, Complete, FailCancelled, Fail, SettleRaises
<1>4. ASSUME NEW r \in Runners, RunnerStep(r) PROVE Goal
  <2> DEFINE Reaps == children' \subseteq children /\ UNCHANGED accepting /\ faults' \in Nat
  <2>1. ASSUME NEW renew \in BOOLEAN, WatchLease(r, renew) PROVE Reaps
    BY <1>0, <2>1 DEF WatchLease, Reap
  <2>2. LeaseLost(r) \/ ChildCrashes(r) \/ ChildEnds(r) \/ Shutdown(r) => Reaps
    BY <1>0 DEF LeaseLost, ChildCrashes, ChildEnds, Shutdown, DeferAfterChildExit, Reap
  <2>3. ASSUME NEW orphaned \in BOOLEAN, Crash(r, orphaned) PROVE Reaps
    BY <1>0, <2>3 DEF Crash, Reap
  <2>4. HostNext(r) \/ Restart(r) => Reaps
    BY <1>0 DEF HostNext, Restart
  <2>5. ASSUME NEW m, HostPick(r, m) PROVE Reaps
    BY <1>0, <2>5 DEF HostPick
  <2>6. Reaps => Goal
    BY <1>0
  <2> HIDE DEF Reaps
  <2> QED
    BY <1>2, <1>3, <1>4, <2>1, <2>2, <2>3, <2>4, <2>5, <2>6 DEF RunnerStep
<1>5. ASSUME NEW t \in children, Child(t) PROVE Goal
  BY <1>0, <1>5 DEF Child, BeginRequest, SaveCheckpoint, OrphanExits
<1> QED
  BY <1>0, <1>1, <1>4, <1>5
  DEF Next, TransitionTopic, PublishPending, PublishFails, Fetch, Commit, Wake, Tick

-----------------------------------------------------------------------------
(* The worker lets go of its message before the partition moves: it        *)
(* publishes only while idle and commits only what it carried.             *)
LEMMA CommitsStep ==
  ASSUME TypeOK, CommitsWhatItHandled, Next
  PROVE  CommitsWhatItHandled'
<1>0. Worker \in Runners /\ Worker \notin HostRunners /\ runner \in [Runners -> RunnerStates]
  BY RunnersAssumption DEF Runners, TypeOK, ProcessesTypeOK
<1>1. CASE PublishPending
  BY <1>1 DEF PublishPending, CommitsWhatItHandled, Rest
<1>2. ASSUME NEW pc \in Rest, Drop(Worker, pc) PROVE CommitsWhatItHandled'
  BY <1>0, <1>2 DEF Drop, Resting, CommitsWhatItHandled
<1>3. CASE PublishFails \/ Commit
  BY <1>2, <1>3 DEF PublishFails, Commit, Rest
<1>4. CASE UNCHANGED log
  <2>1. ASSUME NEW r \in Runners, LetsGo(r) PROVE CommitsWhatItHandled'
    <3>1. PICK pc \in Rest, n \in Nat : runner' = [runner EXCEPT ![r] = Resting(pc, n)]
      BY <2>1 DEF LetsGo
    <3>2. r = Worker => runner'[Worker].pc \in Rest
      BY <1>0, <3>1 DEF Resting
    <3>3. r # Worker => runner'[Worker] = runner[Worker]
      BY <1>0, <3>1
    <3> QED
      BY <1>4, <3>2, <3>3 DEF CommitsWhatItHandled
  <2>2. ASSUME NEW r \in Runners, CarriesOn(r) PROVE CommitsWhatItHandled'
    BY <1>0, <1>4, <2>2 DEF CarriesOn, CommitsWhatItHandled
  <2>3. CASE Fetch
    <3>1. runner'[Worker].msg = Head(log)
      BY <1>0, <2>3 DEF Fetch, RunnerStates
    <3> QED
      BY <1>4, <2>3, <3>1 DEF Fetch, CommitsWhatItHandled
  <2>4. ASSUME NEW r \in HostRunners, NEW j \in Jobs, NEW n \in 1 .. dispatched[j],
               HostPick(r, <<j, n>>)
        PROVE  CommitsWhatItHandled'
    <3>1. runner'[Worker] = runner[Worker]
      BY <1>0, <2>4 DEF HostPick
    <3> QED
      BY <1>4, <3>1 DEF CommitsWhatItHandled
  <2>5. CASE Tick
    <3>1. runner'[Worker].pc = runner[Worker].pc /\ runner'[Worker].msg = runner[Worker].msg
      BY <1>0, <2>5 DEF Tick, RunnerStates
    <3> QED
      BY <1>4, <3>1 DEF CommitsWhatItHandled
  <2> QED
    BY <1>4, <2>1, <2>2, <2>3, <2>4, <2>5, RunnerSplit DEF RunnerChange, CommitsWhatItHandled
<1> QED
  BY <1>1, <1>3, <1>4, LogSplit

LEMMA InitTyped == Init => TypeOK /\ CommitsWhatItHandled
<1> SUFFICES ASSUME Init PROVE TypeOK /\ CommitsWhatItHandled
  OBVIOUS
<1>1. RowsTypeOK
  BY DEF Init, RowsTypeOK, Leases, Cancels, Retries, Works, Errors, Live, Terminal
<1>2. TablesTypeOK
  BY FS_EmptySet DEF Init, TablesTypeOK
<1>3. \A r \in Runners : runner[r] = Resting("idle", 0)
  BY DEF Init
<1>4. Resting("idle", 0) \in RunnerStates /\ Resting("idle", 0).pc \in Rest
  BY DEF Resting, RunnerStates, Reports, Rest
<1>5. ProcessesTypeOK
  BY <1>3, <1>4 DEF Init, ProcessesTypeOK
<1>6. CommitsWhatItHandled
  BY <1>3, <1>4 DEF CommitsWhatItHandled, Runners
<1> QED
  BY <1>1, <1>2, <1>5, <1>6 DEF TypeOK

LEMMA TypedStep ==
  ASSUME TypeOK, CommitsWhatItHandled, [Next]_vars
  PROVE  TypeOK' /\ CommitsWhatItHandled'
<1>1. CASE Next
  <2>1. ProcessesTypeOK'
    BY <1>1, RunnersTyped, LogTyped, OthersTyped DEF ProcessesTypeOK
  <2> QED
    BY <1>1, <2>1, RowsTyped, TablesTyped, CommitsStep DEF TypeOK
<1>2. CASE UNCHANGED vars
  BY <1>2 DEF vars, rows, outboxTable, TypeOK, RowsTypeOK, TablesTypeOK, ProcessesTypeOK,
              CommitsWhatItHandled
<1> QED
  BY <1>1, <1>2

(* Every variable keeps its type: every row the transactions write is one  *)
(* the schema admits, whatever the interleaving and the number of faults.  *)
THEOREM TypeCorrect == Spec => []TypeOK
<1>1. Init => TypeOK /\ CommitsWhatItHandled
  BY InitTyped
<1>2. TypeOK /\ CommitsWhatItHandled /\ [Next]_vars => (TypeOK /\ CommitsWhatItHandled)'
  BY TypedStep
<1> QED
  BY <1>1, <1>2, PTL DEF Spec

(* run_consumer_loop commits the offset of the message it handled and of   *)
(* no other: publishes, crashes and redeliveries never move the partition  *)
(* under a message in work.                                                *)
THEOREM CommitsHandled == Spec => []CommitsWhatItHandled
<1>1. Init => TypeOK /\ CommitsWhatItHandled
  BY InitTyped
<1>2. TypeOK /\ CommitsWhatItHandled /\ [Next]_vars => (TypeOK /\ CommitsWhatItHandled)'
  BY TypedStep
<1> QED
  BY <1>1, <1>2, PTL DEF Spec

-----------------------------------------------------------------------------
(* Rows. What RowChecks needs to be inductive: a job that runs has its     *)
(* budget cycle, and one whose insert is still open has no row.            *)

RowFine(i) ==
  /\ cancel[i].asked => status[i] \in {"running", "cancelled"}
  /\ lease[i].owner # NoRunner <=> status[i] = "running"
  /\ lease[i].left > 0 => status[i] = "running"
  /\ retry[i].defer # "none" => status[i] = "queued"
  /\ retry[i].left > 0 => retry[i].defer # "none"
WorkFine(i) ==
  /\ work[i].cycle = 0 => work[i].cycleRequests = 0
  /\ work[i].cycleRequests <= work[i].requests
  /\ status[i] = "running" => work[i].cycle > 0
Uninserted(i) == accepting[i] # NotAccepting => status[i] = "absent"

RowsFine == \A i \in Jobs : RowFine(i) /\ WorkFine(i) /\ Uninserted(i)

LEMMA RowFields ==
  /\ \A x \in Leases, n \in Nat : /\ [x EXCEPT !.left = n].owner = x.owner
                                  /\ [x EXCEPT !.left = n].epoch = x.epoch
                                  /\ [x EXCEPT !.left = n].left = n
  /\ \A x \in Cancels, n \in Nat : [x EXCEPT !.left = n].asked = x.asked
  /\ \A x \in Retries, n \in Nat : /\ [x EXCEPT !.left = n].count = x.count
                                   /\ [x EXCEPT !.left = n].defer = x.defer
                                   /\ [x EXCEPT !.left = n].left = n
  BY DEF Leases, Cancels, Retries

LEMMA WorkFields ==
  ASSUME NEW x \in Works
  PROVE  /\ x.cycle \in Nat /\ x.requests \in Nat /\ x.cycleRequests \in Nat
         /\ NewCycle(x).cycle = x.cycle + 1
         /\ NewCycle(x).requests = x.requests /\ NewCycle(x).cycleRequests = 0
         /\ OneRequest(x).cycle = x.cycle
         /\ OneRequest(x).requests = x.requests + 1
         /\ OneRequest(x).cycleRequests = x.cycleRequests + 1
         /\ \A n \in Nat : LET y == [x EXCEPT !.checkpoint = n]
                           IN  /\ y.cycle = x.cycle /\ y.requests = x.requests
                               /\ y.cycleRequests = x.cycleRequests
  BY DEF Works, NewCycle, OneRequest

(* A cancel is never taken back.                                           *)
LEMMA FencedCancelKeeps == \A j, n : cancel[j].asked => FencedCancel(j, n).asked
  BY DEF FencedCancel

LEMMA RowsFineStep == ASSUME TypeOK, RowsFine, DatabaseStep, Next PROVE RowsFine'
<1> USE DEF RowFine, WorkFine, Uninserted
<1>0. RowsTypeOK /\ accepting \in [Jobs -> Nat \cup {NotAccepting}]
  BY DEF TypeOK, ProcessesTypeOK
<1>1. ASSUME UNCHANGED <<rows, accepting>> PROVE RowsFine'
  BY <1>1 DEF rows, RowsFine
<1>2. ASSUME NEW j \in Jobs, AcceptInsert(j) PROVE RowsFine'
  BY <1>0, <1>2 DEF AcceptInsert, RowsFine, RowsTypeOK
<1>3. ASSUME NEW j \in Jobs, CancelUnheld(j) PROVE RowsFine'
  BY <1>0, <1>3 DEF CancelUnheld, ReleaseLease, NotDeferred, RowsFine, RowsTypeOK, Unheld
<1>4. ASSUME NEW j \in Jobs, CancelHeld(j) PROVE RowsFine'
  BY <1>0, <1>4 DEF CancelHeld, RowsFine, RowsTypeOK
<1>5. ASSUME NEW j \in Jobs, RequestRetry(j) PROVE RowsFine'
  BY <1>0, <1>5 DEF RequestRetry, RowsFine, RowsTypeOK
<1>6. ASSUME NEW r \in Runners, Acquire(r) PROVE RowsFine'
  <2>1. PICK j \in Jobs : j = runner[r].msg[1]
    BY <1>6, RunnerTyped DEF Acquire, Rest
  <2>2. \/ work' = work /\ work[j].cycle # 0
        \/ work' = [work EXCEPT ![j] = NewCycle(work[j])]
    BY <1>6, <2>1 DEF Acquire, OpensCycle
  <2>3. /\ status' = [status EXCEPT ![j] = "running"]
        /\ UNCHANGED accepting
        /\ NotDeferred(j)
        /\ lease' = [lease EXCEPT ![j] =
             [owner |-> r, epoch |-> lease[j].epoch + 1, left |-> LeaseTicks]]
        /\ cancel' = [cancel EXCEPT ![j] = FencedCancel(j, LeaseTicks)]
        /\ status[j] # "absent"
    BY <1>6, <2>1 DEF Acquire, Acquirable
  <2>4. \A i \in Jobs : WorkFine(i)'
    <3>1. \A i \in Jobs \ {j} : work'[i] = work[i] /\ status'[i] = status[i]
      BY <1>0, <2>2, <2>3 DEF RowsTypeOK
    <3>2. (work'[j] = work[j] /\ work[j].cycle # 0) \/ work'[j] = NewCycle(work[j])
      BY <1>0, <2>1, <2>2 DEF RowsTypeOK
    <3>3. work[j] \in Works
      BY <1>0, <2>1 DEF RowsTypeOK
    <3>4. WorkFine(j)'
      BY <2>1, <3>2, <3>3, WorkFields DEF RowsFine
    <3> QED
      BY <3>1, <3>4 DEF RowsFine
  <2>5. \A i \in Jobs : RowFine(i)' /\ Uninserted(i)'
    BY <1>0, <2>1, <2>3, RunnersAssumption DEF NotDeferred, RowsTypeOK, RowsFine, Runners
  <2> QED
    BY <2>4, <2>5 DEF RowsFine
<1>7. ASSUME NEW t \in children, BeginRequest(t) PROVE RowsFine'
  <2>1. t.job \in Jobs
    BY DEF TypeOK, ProcessesTypeOK
  <2>2. work' = work \/ work' = [work EXCEPT ![t.job] = OneRequest(work[t.job])]
    BY <1>7 DEF BeginRequest
  <2>3. \A i \in Jobs : WorkFine(i)'
    <3>1. status' = status /\ status[t.job] = "running"
      BY <1>7 DEF BeginRequest, Current
    <3>2. \A i \in Jobs : work[i] \in Works
      BY <1>0 DEF RowsTypeOK
    <3>3. \A i \in Jobs : work'[i] = work[i] \/ (i = t.job /\ work'[i] = OneRequest(work[i]))
      <4>1. CASE work' = work
        BY <4>1
      <4>2. CASE work' = [work EXCEPT ![t.job] = OneRequest(work[t.job])]
        BY <1>0, <2>1, <4>2 DEF RowsTypeOK
      <4> QED
        BY <2>2, <4>1, <4>2
    <3> QED
      BY <3>1, <3>2, <3>3, WorkFields DEF RowsFine
  <2>4. \A i \in Jobs : lease'[i].owner = lease[i].owner /\ (lease'[i] = lease[i] \/ i = t.job)
    <3>1. lease' = lease \/ lease' = [lease EXCEPT ![t.job].left = LeaseTicks]
      BY <1>7 DEF BeginRequest
    <3>2. CASE lease' = lease
      BY <3>2
    <3>3. CASE lease' = [lease EXCEPT ![t.job].left = LeaseTicks]
      BY <1>0, <2>1, <3>3, RowFields, TicksAssumption DEF RowsTypeOK
    <3> QED
      BY <3>1, <3>2, <3>3
  <2>5. \A i \in Jobs : RowFine(i)' /\ Uninserted(i)'
    BY <1>0, <1>7, <2>1, <2>4 DEF BeginRequest, Current, RowsTypeOK, RowsFine
  <2> QED
    BY <2>3, <2>5 DEF RowsFine
<1>8. ASSUME NEW t \in children, NEW step \in {0, 1}, SaveCheckpoint(t, step)
      PROVE  RowsFine'
  <2>1. t.job \in Jobs
    BY DEF TypeOK, ProcessesTypeOK
  <2>2. Lesser(LeaseTicks, cancel[t.job].left) \in Nat
    BY <1>0, <2>1, CancelRecords, TicksAssumption DEF Lesser, RowsTypeOK
  <2>3. \A i \in Jobs : lease'[i].owner = lease[i].owner /\ (lease'[i] = lease[i] \/ i = t.job)
    BY <1>0, <1>8, <2>1, <2>2, RowFields, TicksAssumption DEF SaveCheckpoint, RowsTypeOK
  <2>4. work[t.job].checkpoint + step \in Nat
    BY <1>0, <2>1 DEF RowsTypeOK, Works
  <2>5. \A i \in Jobs : WorkFine(i)'
    BY <1>0, <1>8, <2>1, <2>4, WorkFields DEF SaveCheckpoint, RowsTypeOK, RowsFine
  <2>6. \A i \in Jobs : RowFine(i)' /\ Uninserted(i)'
    BY <1>0, <1>8, <2>1, <2>3 DEF SaveCheckpoint, Current, RowsTypeOK, RowsFine
  <2> QED
    BY <2>5, <2>6 DEF RowsFine
<1>9. ASSUME NEW r \in Runners, NEW renew \in BOOLEAN, WatchLease(r, renew)
      PROVE  RowsFine'
  <2>1. Token(r).job \in Jobs
    BY <1>9, RunnerTyped DEF WatchLease, Rest
  <2>2. \A i \in Jobs : /\ lease'[i].owner = lease[i].owner
                        /\ (lease'[i] = lease[i] \/ i = Token(r).job)
    BY <1>0, <1>9, <2>1, RowFields, TicksAssumption DEF WatchLease, RowsTypeOK
  <2>3. \A i \in Jobs : WorkFine(i)'
    BY <1>0, <1>9 DEF WatchLease, RowsFine
  <2>4. \A i \in Jobs : RowFine(i)' /\ Uninserted(i)'
    BY <1>0, <1>9, <2>1, <2>2 DEF WatchLease, Current, RowsTypeOK, RowsFine
  <2> QED
    BY <2>3, <2>4 DEF RowsFine
<1>10. ASSUME NEW r \in Runners, Complete(r) \/ FailCancelled(r) \/ Fail(r)
       PROVE  RowsFine'
  <2>1. PICK j \in Jobs : j = Token(r).job /\ runner[r].wait \in Nat /\ status[j] = "running"
    BY <1>10, RunnerTyped DEF Complete, FailCancelled, Fail, Settles, Rest, Current, Token
  <2>2. \A i \in Jobs : WorkFine(i)'
    BY <1>0, <1>10, <2>1 DEF Complete, FailCancelled, Fail, RowsFine, RowsTypeOK
  <2>3. CASE Complete(r)
    <3>1. /\ cancel' = [cancel EXCEPT ![j] = FinalCancel(j)]
          /\ status' = [status EXCEPT ![j] =
               IF FinalCancel(j).asked THEN "cancelled"
               ELSE IF runner[r].report = "partial" THEN "partially_succeeded" ELSE "succeeded"]
          /\ ReleaseLease(j)
          /\ UNCHANGED <<retry, accepting>>
      BY <2>1, <2>3 DEF Complete
    <3>2. \A i \in Jobs : RowFine(i)' /\ Uninserted(i)'
      BY <1>0, <2>1, <3>1 DEF ReleaseLease, RowsFine, RowsTypeOK
    <3> QED
      BY <2>2, <3>2 DEF RowsFine
  <2>4. CASE FailCancelled(r)
    <3>1. /\ cancel' = [cancel EXCEPT ![j] = FinalCancel(j)]
          /\ status' = [status EXCEPT ![j] = "cancelled"]
          /\ ReleaseLease(j) /\ NotDeferred(j)
          /\ UNCHANGED accepting
      BY <2>1, <2>4 DEF FailCancelled
    <3>2. \A i \in Jobs : RowFine(i)' /\ Uninserted(i)'
      BY <1>0, <2>1, <3>1 DEF ReleaseLease, NotDeferred, RowsFine, RowsTypeOK
    <3> QED
      BY <2>2, <3>2 DEF RowsFine
  <2>5. CASE Fail(r)
    BY <1>0, <2>1, <2>2, <2>5, FencedCancelKeeps
    DEF Fail, FinalCancel, ReleaseLease, NotDeferred, RowsFine, RowsTypeOK
  <2> QED
    BY <1>10, <2>3, <2>4, <2>5
<1>11. ASSUME Tick PROVE RowsFine'
  <2>1. \A i \in Jobs : /\ lease'[i].owner = lease[i].owner
                        /\ lease'[i].left > 0 => lease[i].left > 0
                        /\ cancel'[i].asked = cancel[i].asked
                        /\ retry'[i].defer = retry[i].defer
                        /\ retry'[i].left > 0 => retry[i].left > 0
    <3>1. \A i \in Jobs : /\ lease'[i] = [lease[i] EXCEPT !.left = Countdown(lease[i].left)]
                          /\ cancel'[i] = [cancel[i] EXCEPT !.left = Countdown(cancel[i].left)]
                          /\ retry'[i] = [retry[i] EXCEPT !.left = Countdown(retry[i].left)]
      BY <1>11 DEF Tick
    <3>2. \A i \in Jobs : /\ lease[i] \in Leases /\ lease[i].left \in Nat
                          /\ cancel[i] \in Cancels /\ cancel[i].left \in Nat
                          /\ retry[i] \in Retries /\ retry[i].left \in Nat
      BY <1>0 DEF RowsTypeOK, Leases, Cancels, Retries
    <3>3. \A n \in Nat : Countdown(n) \in Nat /\ (Countdown(n) > 0 => n > 0)
      BY DEF Countdown
    <3> SUFFICES ASSUME NEW i \in Jobs
                 PROVE  /\ lease'[i].owner = lease[i].owner
                        /\ lease'[i].left > 0 => lease[i].left > 0
                        /\ cancel'[i].asked = cancel[i].asked
                        /\ retry'[i].defer = retry[i].defer
                        /\ retry'[i].left > 0 => retry[i].left > 0
      OBVIOUS
    <3>4. lease'[i].owner = lease[i].owner /\ lease'[i].left = Countdown(lease[i].left)
      BY <3>1, <3>2 DEF Leases
    <3>5. cancel'[i].asked = cancel[i].asked
      BY <3>1, <3>2 DEF Cancels
    <3>6. retry'[i].defer = retry[i].defer /\ retry'[i].left = Countdown(retry[i].left)
      BY <3>1, <3>2 DEF Retries
    <3> QED
      BY <3>2, <3>3, <3>4, <3>5, <3>6
  <2>2. UNCHANGED <<status, work, accepting>>
    BY <1>11 DEF Tick
  <2> QED
    BY <2>1, <2>2 DEF RowsFine
<1> QED
  BY <1>1, <1>2, <1>3, <1>4, <1>5, <1>6, <1>7, <1>8, <1>9, <1>10, <1>11
  DEF DatabaseStep, Redispatch, TransitionTopic, PublishPending, AcknowledgeCancelled

(* Only an acceptance touches what acceptances have read.                  *)
LEMMA AcceptingSplit ==
  Next => UNCHANGED accepting \/ \E j \in Jobs : AcceptRead(j) \/ AcceptInsert(j)
<1> SUFFICES ASSUME Next
             PROVE  UNCHANGED accepting \/ \E j \in Jobs : AcceptRead(j) \/ AcceptInsert(j)
  OBVIOUS
<1>1. ASSUME NEW r \in Runners, RunnerStep(r) PROVE UNCHANGED accepting
  BY <1>1
  DEF RunnerStep, HostPick, HostNext, Deliver, CheckProcessed, AcknowledgeCancelled,
      Acquire, AcquireRefused, Refused, RecoverAiCallsRaises, StartChild, NoHandler,
      Settle, Complete, FailCancelled, Fail, SettleRaises, WatchLease, LeaseLost,
      ChildCrashes, ChildEnds, Shutdown, Crash, Restart
<1>2. ASSUME NEW t \in children, Child(t) PROVE UNCHANGED accepting
  BY <1>2 DEF Child, BeginRequest, SaveCheckpoint, OrphanExits
<1> QED
  BY <1>1, <1>2 DEF Next, Request, CancelUnheld, CancelHeld, RequestRetry, Redispatch,
     TransitionTopic, PublishPending, PublishFails, Fetch, Commit, Wake, Tick

LEMMA RowsFineNext == ASSUME TypeOK, RowsFine, [Next]_vars PROVE RowsFine'
<1> USE DEF RowFine, WorkFine, Uninserted
<1>1. ASSUME UNCHANGED <<rows, accepting>> PROVE RowsFine'
  BY <1>1 DEF rows, RowsFine
<1>2. ASSUME Next, UNCHANGED tables PROVE RowsFine'
  <2>1. ASSUME NEW j \in Jobs, AcceptRead(j) PROVE RowsFine'
    BY <2>1 DEF AcceptRead, rows, RowsFine, TypeOK, ProcessesTypeOK
  <2>2. ASSUME NEW j \in Jobs, AcceptInsert(j) PROVE RowsFine'
    BY <1>2, <2>2, RowsFineStep DEF DatabaseStep
  <2> QED
    BY <1>1, <1>2, <2>1, <2>2, AcceptingSplit DEF tables
<1> QED
  BY <1>1, <1>2, NextSplit, RowsFineStep DEF vars

LEMMA RowsFineInit == Init => RowsFine
<1> SUFFICES ASSUME Init, NEW j \in Jobs PROVE RowFine(j) /\ WorkFine(j) /\ Uninserted(j)
  BY DEF RowsFine
<1> QED
  BY DEF Init, RowFine, WorkFine, Uninserted

LEMMA RowsFineImplies == RowsFine => RowChecks
  BY DEF RowsFine, RowFine, WorkFine, RowChecks

TypedInv == TypeOK /\ CommitsWhatItHandled

LEMMA TypedAlways == Spec => []TypedInv
<1>1. Init => TypedInv
  BY InitTyped DEF TypedInv
<1>2. TypedInv /\ [Next]_vars => TypedInv'
  BY TypedStep DEF TypedInv
<1> QED
  BY <1>1, <1>2, PTL DEF Spec

LEMMA RowsFineAlways == Spec => []RowsFine
<1>1. TypedInv /\ RowsFine /\ [Next]_vars => RowsFine'
  BY RowsFineNext DEF TypedInv
<1> QED
  BY <1>1, RowsFineInit, TypedAlways, PTL DEF Spec

(* No transaction writes a row that a CHECK constraint of the jobs table   *)
(* refuses.                                                                *)
THEOREM RowsChecked == Spec => []RowChecks
  BY RowsFineAlways, RowsFineImplies, PTL

-----------------------------------------------------------------------------
(* The life of one job: what any step does to the row, the attempts and    *)
(* the messages of job i. Other jobs and processes no longer appear.       *)

SettledOf(i) == {n \in Nat \ {0} : <<i, n>> \in processed}
Relabeled(i, from, to) ==
  [e \in DOMAIN attempts[i] |->
     IF e = lease[i].epoch /\ attempts[i][e] = from THEN to ELSE attempts[i][e]]
InHand(i, n) == \E r \in Runners : runner[r].pc \notin Rest /\ runner[r].msg = <<i, n>>

KeepsLease(i) == lease'[i].epoch = lease[i].epoch /\ work'[i].cycle = work[i].cycle
KeepsMessages(i) == dispatched'[i] = dispatched[i] /\ SettledOf(i)' = SettledOf(i)
KeepsRetry(i) == retry'[i].count = retry[i].count /\ retry'[i].defer = retry[i].defer
KeepsAsked(i) == cancel'[i].asked = cancel[i].asked

Stays(i) ==
  /\ status'[i] = status[i] /\ attempts'[i] = attempts[i]
  /\ KeepsLease(i) /\ KeepsMessages(i) /\ KeepsRetry(i)
  /\ KeepsAsked(i) \/ (status[i] = "running" /\ ~cancel[i].asked /\ cancel'[i].asked)

Inserted(i) ==
  /\ status[i] = "absent" /\ status'[i] = "queued" /\ attempts'[i] = attempts[i]
  /\ KeepsLease(i) /\ KeepsRetry(i) /\ KeepsAsked(i)
  /\ dispatched'[i] = dispatched[i] + 1 /\ SettledOf(i)' = SettledOf(i)

Stopped(i) ==
  /\ Unheld(i) /\ status'[i] = "cancelled" /\ ~cancel[i].asked /\ cancel'[i].asked
  /\ attempts'[i] = IF status[i] = "running" THEN Relabeled(i, "open", "cancelled")
                                           ELSE attempts[i]
  /\ KeepsLease(i) /\ KeepsMessages(i)
  /\ retry'[i].count = retry[i].count /\ retry'[i].defer = "none"

Reopened(i) ==
  /\ status[i] = "failed" /\ status'[i] = "queued" /\ attempts'[i] = attempts[i]
  /\ retry'[i].count = retry[i].count + 1 /\ retry'[i].defer = "manual_retry"
  /\ KeepsLease(i) /\ KeepsAsked(i)
  /\ dispatched'[i] = dispatched[i] + 1 /\ SettledOf(i)' = SettledOf(i)

Resent(i) ==
  /\ status[i] \in Live /\ status'[i] = status[i] /\ attempts'[i] = attempts[i]
  /\ dispatched[i] <= retry[i].count + MaxRedispatches
  /\ KeepsLease(i) /\ KeepsRetry(i) /\ KeepsAsked(i)
  /\ dispatched'[i] = dispatched[i] + 1 /\ SettledOf(i)' = SettledOf(i)

Started(i) ==
  /\ status[i] \in Live /\ status'[i] = "running"
  /\ lease'[i].epoch = lease[i].epoch + 1
  /\ attempts'[i] = Append(IF status[i] = "running" THEN Relabeled(i, "open", "expired")
                                                  ELSE attempts[i], "open")
  /\ work'[i].cycle = IF OpensCycle(i) THEN work[i].cycle + 1 ELSE work[i].cycle
  /\ retry'[i].count = retry[i].count /\ retry'[i].defer = "none"
  /\ KeepsMessages(i)
  /\ KeepsAsked(i) \/ (~cancel[i].asked /\ cancel'[i].asked)

Answers(i, n) ==
  /\ status[i] = "running" /\ InHand(i, n) /\ n \notin SettledOf(i)
  /\ SettledOf(i)' = SettledOf(i) \cup {n}
  /\ KeepsLease(i)

(* Ended with a result or for good, cancelled, or put off to another try.  *)
Ended(i, n, outcome) ==
  /\ Answers(i, n) /\ attempts'[i] = Relabeled(i, "open", outcome)
  /\ \/ outcome = "cancelled" /\ status'[i] = "cancelled" /\ cancel'[i].asked
     \/ /\ ~cancel[i].asked /\ KeepsAsked(i)
        /\ \/ outcome = "succeeded" /\ status'[i] \in {"succeeded", "partially_succeeded"}
           \/ outcome = "failed" /\ status'[i] = "failed"
  /\ dispatched'[i] = dispatched[i]
  /\ retry'[i].count = retry[i].count /\ (retry'[i].defer \in {"none", retry[i].defer})

PutOff(i, n) ==
  /\ Answers(i, n) /\ attempts'[i] = Relabeled(i, "open", "delayed")
  /\ status'[i] = "queued" /\ ~cancel[i].asked /\ KeepsAsked(i)
  /\ retry[i].count + 1 < MaxAttempts
  /\ retry'[i].count = retry[i].count + 1 /\ retry'[i].defer = "transient"
  /\ dispatched'[i] = dispatched[i] + 1

Acknowledged(i, n) ==
  /\ status[i] = "cancelled" /\ status'[i] = status[i] /\ attempts'[i] = attempts[i]
  /\ InHand(i, n) /\ SettledOf(i)' = SettledOf(i) \cup {n} /\ dispatched'[i] = dispatched[i]
  /\ KeepsLease(i) /\ KeepsRetry(i) /\ KeepsAsked(i)

Lives(i) ==
  \/ Stays(i) \/ Inserted(i) \/ Stopped(i) \/ Reopened(i) \/ Resent(i) \/ Started(i)
  \/ \E n \in Nat \ {0} :
       PutOff(i, n) \/ Acknowledged(i, n)
         \/ \E outcome \in {"succeeded", "failed", "cancelled"} : Ended(i, n, outcome)

LEMMA RecordedOne ==
  ASSUME NEW j \in Jobs, NEW n \in Nat \ {0}, Record(<<j, n>>), NEW i \in Jobs
  PROVE  SettledOf(i)' = IF i = j THEN SettledOf(i) \cup {n} ELSE SettledOf(i)
<1>1. \A k \in Nat \ {0} : <<i, k>> = <<j, n>> <=> i = j /\ k = n
  OBVIOUS
<1>2. \A k \in Nat \ {0} : <<i, k>> \in processed' <=> <<i, k>> \in processed \/ (i = j /\ k = n)
  BY <1>1 DEF Record
<1> QED
  BY <1>2 DEF SettledOf

LEMMA DispatchedOne ==
  ASSUME TypeOK, NEW j \in Jobs, NEW delay, Dispatch(j, delay), NEW i \in Jobs
  PROVE  dispatched'[i] = IF i = j THEN dispatched[i] + 1 ELSE dispatched[i]
  BY DEF Dispatch, TypeOK, TablesTypeOK

LEMMA ClosedOne ==
  ASSUME TypeOK, NEW j \in Jobs, NEW outcome, CloseAttempt(j, outcome), NEW i \in Jobs
  PROVE  attempts'[i] = IF i = j THEN Relabeled(i, "open", outcome) ELSE attempts[i]
  BY DEF CloseAttempt, Relabeled, TypeOK, TablesTypeOK

LEMMA KeptRow ==
  ASSUME NEW i \in Jobs,
         status'[i] = status[i], attempts'[i] = attempts[i], lease'[i].epoch = lease[i].epoch,
         work'[i].cycle = work[i].cycle, dispatched'[i] = dispatched[i],
         processed' = processed, retry'[i].count = retry[i].count,
         retry'[i].defer = retry[i].defer, cancel'[i].asked = cancel[i].asked
  PROVE  Stays(i)
  BY DEF Stays, KeepsLease, KeepsMessages, KeepsRetry, KeepsAsked, SettledOf

(* The values of a row before a step, for the leaves below.                *)
LEMMA RowTyped ==
  ASSUME TypeOK, NEW i \in Jobs
  PROVE  /\ lease[i] \in Leases /\ cancel[i] \in Cancels /\ retry[i] \in Retries
         /\ work[i] \in Works /\ lease[i].epoch \in Nat /\ retry[i].count \in Nat
         /\ dispatched[i] \in Nat /\ lease[i].left \in Nat /\ work[i].cycle \in Nat
  BY DEF TypeOK, RowsTypeOK, TablesTypeOK, Leases, Retries, Works

LEMMA RequestLives ==
  ASSUME TypeOK, RowsFine, NEW j \in Jobs, NEW i \in Jobs,
         \/ AcceptInsert(j) \/ CancelUnheld(j) \/ CancelHeld(j)
         \/ RequestRetry(j) \/ Redispatch(j)
  PROVE  Lives(i)
<1>0. RowsTypeOK /\ retry[i] \in Retries /\ cancel[i] \in Cancels /\ lease[i] \in Leases
  BY RowTyped DEF TypeOK
<1> USE DEF KeepsLease, KeepsMessages, KeepsRetry, KeepsAsked, SettledOf
<1>1. CASE i # j
  <2>1. /\ status'[i] = status[i] /\ cancel'[i] = cancel[i] /\ retry'[i] = retry[i]
        /\ attempts'[i] = attempts[i] /\ dispatched'[i] = dispatched[i]
        /\ lease'[i] = lease[i] /\ UNCHANGED <<work, processed>>
    BY <1>0, <1>1, DispatchedOne, ClosedOne
    DEF AcceptInsert, CancelUnheld, CancelHeld, RequestRetry, Redispatch, ReleaseLease,
        NotDeferred, RowsTypeOK, rows, outboxTable
  <2> QED
    BY <2>1, KeptRow DEF Lives
<1>2. CASE i = j /\ AcceptInsert(j)
  <2>1. Inserted(i)
    BY <1>0, <1>2, DispatchedOne DEF AcceptInsert, Inserted, RowsTypeOK, RowsFine, Uninserted
  <2> QED
    BY <2>1 DEF Lives
<1>3. CASE i = j /\ CancelUnheld(j)
  <2>1. cancel'[i].asked /\ status'[i] = "cancelled"
    BY <1>0, <1>3 DEF CancelUnheld, RowsTypeOK
  <2>2. retry'[i].count = retry[i].count /\ retry'[i].defer = "none"
    BY <1>0, <1>3 DEF CancelUnheld, NotDeferred, RowsTypeOK
  <2>3. lease'[i].epoch = lease[i].epoch /\ UNCHANGED <<work, processed, dispatched>>
    BY <1>0, <1>3 DEF CancelUnheld, ReleaseLease, RowsTypeOK, outboxTable
  <2>4. attempts'[i] = IF status[i] = "running" THEN Relabeled(i, "open", "cancelled")
                                                ELSE attempts[i]
    BY <1>3, ClosedOne DEF CancelUnheld
  <2> QED
    BY <1>3, <2>1, <2>2, <2>3, <2>4 DEF Lives, Stopped, CancelUnheld, Unheld, RowsFine, RowFine
<1>4. CASE i = j /\ CancelHeld(j)
  <2>1. Stays(i)
    BY <1>0, <1>4 DEF CancelHeld, Stays, RowsTypeOK, outboxTable
  <2> QED
    BY <2>1 DEF Lives
<1>5. CASE i = j /\ RequestRetry(j)
  <2>1. Reopened(i)
    BY <1>0, <1>5, DispatchedOne DEF RequestRetry, Reopened, RowsTypeOK
  <2> QED
    BY <2>1 DEF Lives
<1>6. CASE i = j /\ Redispatch(j)
  <2>1. Resent(i)
    BY <1>0, <1>6, DispatchedOne DEF Redispatch, Resent, rows, Live
  <2> QED
    BY <2>1 DEF Lives
<1> QED
  BY <1>1, <1>2, <1>3, <1>4, <1>5, <1>6

LEMMA AcquireLives ==
  ASSUME TypeOK, NEW r \in Runners, Acquire(r), NEW i \in Jobs
  PROVE  Lives(i)
<1>1. PICK j \in Jobs : j = runner[r].msg[1]
  BY RunnerTyped DEF Acquire, Rest
<1>0. RowsTypeOK /\ attempts \in [Jobs -> Seq(AttemptOutcomes)]
  BY DEF TypeOK, TablesTypeOK
<1>2. /\ status' = [status EXCEPT ![j] = "running"]
      /\ lease' = [lease EXCEPT ![j] = [owner |-> r, epoch |-> lease[j].epoch + 1,
                                        left |-> LeaseTicks]]
      /\ cancel' = [cancel EXCEPT ![j] = FencedCancel(j, LeaseTicks)]
      /\ NotDeferred(j)
      /\ \/ work' = work /\ ~OpensCycle(j)
         \/ work' = [work EXCEPT ![j] = NewCycle(work[j])] /\ OpensCycle(j)
      /\ status[j] \in Live
      /\ UNCHANGED <<processed, dispatched>>
  BY <1>1 DEF Acquire, Acquirable, Live, outboxTable
<1>3. attempts' = [attempts EXCEPT ![j] =
        Append([e \in DOMAIN attempts[j] |->
                 IF status[j] = "running" /\ e = lease[j].epoch /\ attempts[j][e] = "open"
                   THEN "expired" ELSE attempts[j][e]], "open")]
  BY <1>1 DEF Acquire
<1> USE DEF KeepsLease, KeepsMessages, KeepsRetry, KeepsAsked, SettledOf
<1>4. CASE i # j
  <2>1. /\ status'[i] = status[i] /\ cancel'[i] = cancel[i] /\ retry'[i] = retry[i]
        /\ lease'[i] = lease[i] /\ attempts'[i] = attempts[i]
    BY <1>0, <1>2, <1>3, <1>4 DEF NotDeferred, RowsTypeOK
  <2>2. work'[i] = work[i]
    BY <1>0, <1>2, <1>4 DEF RowsTypeOK
  <2> QED
    BY <1>2, <2>1, <2>2, KeptRow DEF Lives
<1>5. CASE i = j
  <2>1. status'[i] = "running" /\ lease'[i].epoch = lease[i].epoch + 1
    BY <1>0, <1>2, <1>5 DEF RowsTypeOK
  <2>2. retry'[i].count = retry[i].count /\ retry'[i].defer = "none"
    BY <1>0, <1>2, <1>5 DEF NotDeferred, RowsTypeOK
  <2>3. work'[i].cycle = IF OpensCycle(i) THEN work[i].cycle + 1 ELSE work[i].cycle
    <3>1. NewCycle(work[i]).cycle = work[i].cycle + 1
      BY RowTyped, WorkFields
    <3> QED
      BY <1>0, <1>2, <1>5, <3>1 DEF RowsTypeOK
  <2>4. KeepsAsked(i) \/ (~cancel[i].asked /\ cancel'[i].asked)
    BY <1>0, <1>2, <1>5 DEF RowsTypeOK, FencedCancel
  <2>5. attempts'[i] = Append(IF status[i] = "running" THEN Relabeled(i, "open", "expired")
                                                       ELSE attempts[i], "open")
    <3>1. CASE status[i] = "running"
      BY <1>0, <1>3, <1>5, <3>1 DEF Relabeled
    <3>2. CASE status[i] # "running"
      <4>1. [e \in DOMAIN attempts[i] |-> attempts[i][e]] = attempts[i]
        BY <1>0
      <4>2. attempts'[i] = Append([e \in DOMAIN attempts[i] |-> attempts[i][e]], "open")
        BY <1>0, <1>3, <1>5, <3>2
      <4> QED
        BY <3>2, <4>1, <4>2
    <3> QED
      BY <3>1, <3>2
  <2> QED
    BY <1>2, <1>5, <2>1, <2>2, <2>3, <2>4, <2>5 DEF Lives, Started
<1> QED
  BY <1>4, <1>5

(* Steps of a child, of the supervisor and of the clock: a lease is        *)
(* renewed, a request counted, a cancel raised, nothing else.              *)
LEMMA ChildLives ==
  ASSUME TypeOK, NEW t \in children, NEW i \in Jobs,
         BeginRequest(t) \/ \E step \in {0, 1} : SaveCheckpoint(t, step)
  PROVE  Lives(i)
<1>0. RowsTypeOK /\ t.job \in Jobs
  BY DEF TypeOK, ProcessesTypeOK
<1>1. UNCHANGED <<status, attempts, dispatched, processed, retry>>
  BY DEF BeginRequest, SaveCheckpoint, outboxTable
<1>2. lease'[i].epoch = lease[i].epoch
  <2>1. lease' = lease \/ \E n \in Nat : lease' = [lease EXCEPT ![t.job].left = n]
    <3>1. CASE BeginRequest(t)
      BY <3>1, TicksAssumption DEF BeginRequest
    <3>2. ASSUME NEW step \in {0, 1}, SaveCheckpoint(t, step)
          PROVE  \E n \in Nat : lease' = [lease EXCEPT ![t.job].left = n]
      <4>1. Lesser(LeaseTicks, cancel[t.job].left) \in Nat /\ LeaseTicks \in Nat
        BY <1>0, CancelRecords, TicksAssumption DEF Lesser, RowsTypeOK
      <4> QED
        BY <3>2, <4>1 DEF SaveCheckpoint
    <3> QED
      BY <3>1, <3>2
  <2>2. ASSUME NEW n \in Nat, lease' = [lease EXCEPT ![t.job].left = n]
        PROVE  lease'[i].epoch = lease[i].epoch
    BY <1>0, <2>2 DEF RowsTypeOK, Leases
  <2> QED
    BY <2>1, <2>2
<1>3. work'[i].cycle = work[i].cycle
  <2>1. CASE BeginRequest(t)
    <3>1. work' = work \/ work' = [work EXCEPT ![t.job] = OneRequest(work[t.job])]
      BY <2>1 DEF BeginRequest
    <3>2. OneRequest(work[i]).cycle = work[i].cycle
      BY RowTyped, WorkFields
    <3>3. CASE work' = [work EXCEPT ![t.job] = OneRequest(work[t.job])]
      BY <1>0, <3>2, <3>3 DEF RowsTypeOK
    <3> QED
      BY <3>1, <3>3
  <2>2. ASSUME NEW step \in {0, 1}, SaveCheckpoint(t, step)
        PROVE  work'[i].cycle = work[i].cycle
    BY <1>0, <2>2 DEF SaveCheckpoint, RowsTypeOK, Works
  <2> QED
    BY <2>1, <2>2
<1>4. KeepsAsked(i) \/ (status[i] = "running" /\ ~cancel[i].asked /\ cancel'[i].asked)
  <2>1. cancel' = cancel \/ cancel' = [cancel EXCEPT ![t.job] =
                                         FencedCancel(t.job, lease[t.job].left)]
    BY DEF BeginRequest, SaveCheckpoint
  <2>2. status[t.job] = "running"
    BY DEF BeginRequest, SaveCheckpoint, Current
  <2> QED
    BY <1>0, <2>1, <2>2 DEF KeepsAsked, FencedCancel, RowsTypeOK
<1> QED
  BY <1>1, <1>2, <1>3, <1>4 DEF Lives, Stays, KeepsLease, KeepsMessages, KeepsRetry, SettledOf

LEMMA WatchLives ==
  ASSUME TypeOK, NEW r \in Runners, NEW renew \in BOOLEAN, WatchLease(r, renew), NEW i \in Jobs
  PROVE  Lives(i)
<1>0. RowsTypeOK
  BY DEF TypeOK
<1>1. PICK j \in Jobs : j = Token(r).job
  BY RunnerTyped DEF WatchLease, Rest
<1>2. UNCHANGED <<status, attempts, dispatched, processed, retry, work>>
  BY DEF WatchLease, outboxTable
<1>3. lease' = lease \/ lease' = [lease EXCEPT ![j].left = LeaseTicks]
  BY <1>1 DEF WatchLease
<1>4. lease'[i].epoch = lease[i].epoch
  BY <1>0, <1>3 DEF RowsTypeOK, Leases
<1>5. KeepsAsked(i) \/ (status[i] = "running" /\ ~cancel[i].asked /\ cancel'[i].asked)
  <2>1. status[j] = "running" /\ cancel' = [cancel EXCEPT ![j] = FencedCancel(j, lease[j].left)]
    BY <1>1 DEF WatchLease, Current
  <2> QED
    BY <1>0, <2>1 DEF KeepsAsked, FencedCancel, RowsTypeOK
<1> QED
  BY <1>2, <1>4, <1>5 DEF Lives, Stays, KeepsLease, KeepsMessages, KeepsRetry, SettledOf

LEMMA TickLives == ASSUME TypeOK, Tick, NEW i \in Jobs PROVE Lives(i)
<1>0. lease[i] \in Leases /\ cancel[i] \in Cancels /\ retry[i] \in Retries
  BY RowTyped
<1>1. /\ lease'[i] = [lease[i] EXCEPT !.left = Countdown(lease[i].left)]
      /\ cancel'[i] = [cancel[i] EXCEPT !.left = Countdown(cancel[i].left)]
      /\ retry'[i] = [retry[i] EXCEPT !.left = Countdown(retry[i].left)]
      /\ UNCHANGED <<status, work, attempts, dispatched, processed>>
  BY DEF Tick
<1>2. lease'[i].epoch = lease[i].epoch
  BY <1>0, <1>1 DEF Leases
<1>3. cancel'[i].asked = cancel[i].asked
  BY <1>0, <1>1 DEF Cancels
<1>4. retry'[i].count = retry[i].count /\ retry'[i].defer = retry[i].defer
  BY <1>0, <1>1 DEF Retries
<1> QED
  BY <1>1, <1>2, <1>3, <1>4, KeptRow DEF Lives

LEMMA SettleLives ==
  ASSUME TypeOK, NEW r \in Runners, Complete(r) \/ FailCancelled(r) \/ Fail(r), NEW i \in Jobs
  PROVE  Lives(i)
<1>0. RowsTypeOK
  BY DEF TypeOK
<1>1. PICK j \in Jobs, n \in Nat \ {0} :
        j = Token(r).job /\ runner[r].msg = <<j, n>> /\ runner[r].pc \notin Rest
  BY RunnerTyped DEF Complete, FailCancelled, Fail, Settles, Rest, Messages, Token
<1>2. status[j] = "running" /\ Record(<<j, n>>) /\ ReleaseLease(j) /\ UNCHANGED work
  BY <1>1 DEF Complete, FailCancelled, Fail, Settles, Current, Token
<1>3. <<j, n>> \notin processed
  BY <1>1 DEF Complete, FailCancelled, Fail, Settles
<1>4. lease'[i].epoch = lease[i].epoch
  BY <1>0, <1>2 DEF ReleaseLease, RowsTypeOK
<1>5. CASE i # j
  <2>1. SettledOf(i)' = SettledOf(i)
    BY <1>2, <1>5, RecordedOne
  <2>2. /\ status'[i] = status[i] /\ cancel'[i] = cancel[i] /\ retry'[i] = retry[i]
        /\ attempts'[i] = attempts[i] /\ dispatched'[i] = dispatched[i]
    <3>1. CASE Complete(r)
      BY <1>0, <1>1, <1>5, <3>1, ClosedOne DEF Complete, RowsTypeOK, outboxTable
    <3>2. CASE FailCancelled(r)
      BY <1>0, <1>1, <1>5, <3>2, ClosedOne DEF FailCancelled, NotDeferred, RowsTypeOK, outboxTable
    <3>3. CASE Fail(r)
      BY <1>0, <1>1, <1>5, <3>3, ClosedOne, DispatchedOne
      DEF Fail, NotDeferred, RowsTypeOK, outboxTable
    <3> QED
      BY <3>1, <3>2, <3>3
  <2> QED
    BY <1>2, <1>4, <2>1, <2>2 DEF Lives, Stays, KeepsLease, KeepsMessages, KeepsRetry, KeepsAsked
<1>6. CASE i = j
  <2>1. Answers(i, n)
    BY <1>1, <1>2, <1>3, <1>4, <1>6, RecordedOne DEF Answers, InHand, KeepsLease, SettledOf
  <2>2. FinalCancel(i).asked \/ (~cancel[i].asked /\ FinalCancel(i) = cancel[i])
    BY DEF FinalCancel, FencedCancel
  <2>3. CASE Complete(r)
    <3>1. cancel'[i] = FinalCancel(i) /\ UNCHANGED <<retry, dispatched>>
      BY <1>0, <1>1, <1>6, <2>3 DEF Complete, RowsTypeOK, outboxTable
    <3>2. CASE FinalCancel(i).asked
      <4>1. status'[i] = "cancelled" /\ attempts'[i] = Relabeled(i, "open", "cancelled")
        BY <1>0, <1>1, <1>6, <2>3, <3>2, ClosedOne DEF Complete, RowsTypeOK
      <4> QED
        BY <2>1, <3>1, <3>2, <4>1 DEF Lives, Ended
    <3>3. CASE ~FinalCancel(i).asked
      <4>1. /\ status'[i] \in {"succeeded", "partially_succeeded"}
            /\ attempts'[i] = Relabeled(i, "open", "succeeded")
        BY <1>0, <1>1, <1>6, <2>3, <3>3, ClosedOne DEF Complete, RowsTypeOK
      <4> QED
        BY <2>1, <2>2, <3>1, <3>3, <4>1 DEF Lives, Ended, KeepsAsked
    <3> QED
      BY <3>2, <3>3
  <2>4. CASE FailCancelled(r)
    <3>1. /\ cancel'[i].asked /\ status'[i] = "cancelled" /\ UNCHANGED dispatched
          /\ attempts'[i] = Relabeled(i, "open", "cancelled")
      BY <1>0, <1>1, <1>6, <2>4, ClosedOne DEF FailCancelled, RowsTypeOK, outboxTable
    <3>2. retry'[i].count = retry[i].count /\ retry'[i].defer = "none"
      BY <1>0, <1>1, <1>6, <2>4 DEF FailCancelled, NotDeferred, RowsTypeOK
    <3> QED
      BY <2>1, <3>1, <3>2 DEF Lives, Ended
  <2>5. CASE Fail(r)
    <3>1. ~cancel[i].asked /\ UNCHANGED cancel
      BY <1>1, <1>6, <2>2, <2>5 DEF Fail
    <3>2. CASE ShouldRetry(r)
      <4>1. /\ status'[i] = "queued" /\ attempts'[i] = Relabeled(i, "open", "delayed")
            /\ dispatched'[i] = dispatched[i] + 1
        BY <1>0, <1>1, <1>6, <2>5, <3>2, ClosedOne, DispatchedOne DEF Fail, RowsTypeOK
      <4>2. retry'[i].count = retry[i].count + 1 /\ retry'[i].defer = "transient"
        BY <1>0, <1>1, <1>6, <2>5, <3>2 DEF Fail, RowsTypeOK
      <4>3. retry[i].count + 1 < MaxAttempts
        BY <1>1, <1>6, <3>2 DEF ShouldRetry
      <4> QED
        BY <2>1, <3>1, <4>1, <4>2, <4>3 DEF Lives, PutOff, KeepsAsked
    <3>3. CASE ~ShouldRetry(r)
      <4>1. /\ status'[i] = "failed" /\ attempts'[i] = Relabeled(i, "open", "failed")
            /\ UNCHANGED dispatched
        BY <1>0, <1>1, <1>6, <2>5, <3>3, ClosedOne DEF Fail, RowsTypeOK, outboxTable
      <4>2. retry'[i].count = retry[i].count /\ retry'[i].defer = "none"
        BY <1>0, <1>1, <1>6, <2>5, <3>3 DEF Fail, NotDeferred, RowsTypeOK
      <4> QED
        BY <2>1, <3>1, <4>1, <4>2 DEF Lives, Ended, KeepsAsked
    <3> QED
      BY <3>2, <3>3
  <2> QED
    BY <2>3, <2>4, <2>5
<1> QED
  BY <1>5, <1>6

LEMMA AcknowledgeLives ==
  ASSUME TypeOK, NEW r \in Runners, AcknowledgeCancelled(r), NEW i \in Jobs
  PROVE  Lives(i)
<1>1. PICK j \in Jobs, n \in Nat \ {0} : runner[r].msg = <<j, n>> /\ runner[r].pc \notin Rest
  BY RunnerTyped DEF AcknowledgeCancelled, Rest, Messages
<1>2. UNCHANGED <<status, attempts, lease, work, dispatched, retry, cancel>>
  BY DEF AcknowledgeCancelled, rows, outboxTable
<1>3. UNCHANGED processed \/ (status[j] = "cancelled" /\ Record(<<j, n>>))
  BY <1>1 DEF AcknowledgeCancelled, Acknowledges
<1>4. CASE SettledOf(i)' = SettledOf(i)
  BY <1>2, <1>4 DEF Lives, Stays, KeepsLease, KeepsMessages, KeepsRetry, KeepsAsked
<1>5. CASE i = j /\ status[j] = "cancelled" /\ Record(<<j, n>>)
  <2>1. SettledOf(i)' = SettledOf(i) \cup {n}
    BY <1>5, RecordedOne
  <2>2. Acknowledged(i, n)
    BY <1>1, <1>2, <1>5, <2>1 DEF Acknowledged, InHand, KeepsLease, KeepsRetry, KeepsAsked
  <2> QED
    BY <2>2 DEF Lives
<1>6. CASE i # j /\ Record(<<j, n>>)
  BY <1>4, <1>6, RecordedOne
<1>7. CASE UNCHANGED processed
  BY <1>4, <1>7 DEF SettledOf
<1> QED
  BY <1>3, <1>5, <1>6, <1>7

LEMMA LifeStep ==
  ASSUME TypeOK, RowsFine, [Next]_vars, NEW i \in Jobs
  PROVE  Lives(i)
<1>1. ASSUME UNCHANGED <<rows, attempts, dispatched, processed>> PROVE Lives(i)
  BY <1>1, KeptRow DEF Lives, rows
<1>2. ASSUME DatabaseStep PROVE Lives(i)
  BY <1>1, <1>2, RequestLives, AcquireLives, ChildLives, WatchLives, TickLives, SettleLives,
     AcknowledgeLives
  DEF DatabaseStep, TransitionTopic, PublishPending, outboxTable
<1> QED
  BY <1>1, <1>2, NextSplit DEF vars, tables, outboxTable

-----------------------------------------------------------------------------
(* Attempts.                                                               *)

AttemptFine(i) ==
  /\ Len(attempts[i]) = lease[i].epoch
  /\ \A e \in DOMAIN attempts[i] :
       attempts[i][e] = "open" <=> status[i] = "running" /\ e = lease[i].epoch
  /\ status[i] = "running" => lease[i].epoch > 0
AttemptsFine == \A i \in Jobs : AttemptFine(i)

(* The attempts after the open one was closed with an outcome.             *)
LEMMA RelabeledFacts ==
  ASSUME TypeOK, NEW i \in Jobs, NEW outcome \in AttemptOutcomes
  PROVE  LET s == Relabeled(i, "open", outcome) IN
         /\ s \in Seq(AttemptOutcomes) /\ Len(s) = Len(attempts[i])
         /\ DOMAIN s = DOMAIN attempts[i] /\ DOMAIN s = 1 .. Len(s)
         /\ \A e \in DOMAIN attempts[i] :
              s[e] = IF e = lease[i].epoch /\ attempts[i][e] = "open" THEN outcome
                     ELSE attempts[i][e]
<1>1. attempts[i] \in Seq(AttemptOutcomes)
  BY DEF TypeOK, TablesTypeOK
<1>2. \A e \in DOMAIN attempts[i] : attempts[i][e] \in AttemptOutcomes
  BY <1>1, LenProperties
<1>3. Relabeled(i, "open", outcome) \in [DOMAIN attempts[i] -> AttemptOutcomes]
  BY <1>2 DEF Relabeled
<1>4. /\ Relabeled(i, "open", outcome) \in Seq(AttemptOutcomes)
      /\ Len(Relabeled(i, "open", outcome)) = Len(attempts[i])
  BY <1>1, <1>3, Relabelled
<1>5. DOMAIN attempts[i] = 1 .. Len(attempts[i])
  BY <1>1, LenProperties
<1> QED
  BY <1>3, <1>4, <1>5 DEF Relabeled

Closing == AttemptOutcomes \ {"open"}

(* A job that runs closes its open attempt with the outcome o.             *)
LEMMA ClosesAttempt ==
  ASSUME TypeOK, NEW i \in Jobs, AttemptFine(i), status[i] = "running", NEW o \in Closing,
         attempts'[i] = Relabeled(i, "open", o), lease'[i].epoch = lease[i].epoch,
         status'[i] # "running"
  PROVE  /\ AttemptFine(i)'
         /\ \A p \in Closing : lease[i].epoch \notin Outcomes(i, p)
         /\ \A p \in Closing :
              Outcomes(i, p)' = IF p = o THEN Outcomes(i, p) \cup {lease[i].epoch}
                                         ELSE Outcomes(i, p)
<1>1. attempts[i] \in Seq(AttemptOutcomes) /\ lease[i].epoch \in Nat
  BY RowTyped DEF TypeOK, TablesTypeOK
<1>2. DOMAIN attempts[i] = 1 .. lease[i].epoch /\ lease[i].epoch \in DOMAIN attempts[i]
  BY <1>1, LenProperties DEF AttemptFine
<1>3. attempts[i][lease[i].epoch] = "open"
  BY <1>2 DEF AttemptFine
<1>4. /\ Len(attempts'[i]) = lease[i].epoch
      /\ DOMAIN attempts'[i] = DOMAIN attempts[i]
      /\ \A e \in DOMAIN attempts[i] :
           attempts'[i][e] = IF e = lease[i].epoch THEN o ELSE attempts[i][e]
  BY <1>3, RelabeledFacts DEF AttemptFine, Closing
<1>5. AttemptFine(i)'
  BY <1>4 DEF AttemptFine, Closing
<1>6. \A p \in Closing : lease[i].epoch \notin Outcomes(i, p)
  BY <1>3 DEF Outcomes, Closing
<1>7. \A p \in Closing :
        Outcomes(i, p)' = IF p = o THEN Outcomes(i, p) \cup {lease[i].epoch} ELSE Outcomes(i, p)
  BY <1>2, <1>4, <1>6 DEF Outcomes
<1> QED
  BY <1>5, <1>6, <1>7

(* An acquisition closes the attempt of an expired lease and opens one.    *)
LEMMA OpensAttempt ==
  ASSUME TypeOK, NEW i \in Jobs, AttemptFine(i), Started(i)
  PROVE  /\ AttemptFine(i)'
         /\ \A p \in Closing \ {"expired"} : Outcomes(i, p)' = Outcomes(i, p)
<1> DEFINE s == IF status[i] = "running" THEN Relabeled(i, "open", "expired") ELSE attempts[i]
           n == lease[i].epoch
<1>1. attempts[i] \in Seq(AttemptOutcomes) /\ n \in Nat
  BY RowTyped DEF TypeOK, TablesTypeOK
<1>2. DOMAIN attempts[i] = 1 .. n
  BY <1>1, LenProperties DEF AttemptFine
<1>3. /\ s \in Seq(AttemptOutcomes) /\ Len(s) = n
      /\ \A e \in 1 .. n : s[e] # "open"
      /\ \A e \in 1 .. n, p \in Closing \ {"expired"} : s[e] = p <=> attempts[i][e] = p
  <2>1. CASE status[i] = "running"
    <3>1. "expired" \in AttemptOutcomes
      BY DEF AttemptOutcomes
    <3>2. \A e \in 1 .. n : s[e] = IF e = n /\ attempts[i][e] = "open" THEN "expired"
                                   ELSE attempts[i][e]
      BY <1>2, <2>1, <3>1, RelabeledFacts
    <3>3. s \in Seq(AttemptOutcomes) /\ Len(s) = n
      BY <2>1, <3>1, RelabeledFacts DEF AttemptFine
    <3>4. \A e \in 1 .. n : attempts[i][e] = "open" <=> e = n
      BY <1>2, <2>1 DEF AttemptFine
    <3> HIDE DEF s
    <3> QED
      BY <3>2, <3>3, <3>4 DEF Closing
  <2>2. CASE status[i] # "running"
    BY <1>1, <1>2, <2>2 DEF AttemptFine
  <2> QED
    BY <2>1, <2>2
<1>4. attempts'[i] = Append(s, "open") /\ lease'[i].epoch = n + 1 /\ status'[i] = "running"
  BY DEF Started
<1> HIDE DEF s, n
<1>5. /\ Len(attempts'[i]) = n + 1 /\ DOMAIN attempts'[i] = 1 .. n + 1
      /\ attempts'[i][n + 1] = "open"
      /\ \A e \in 1 .. n : attempts'[i][e] = s[e]
  <2>1. "open" \in AttemptOutcomes
    BY DEF AttemptOutcomes
  <2> QED
    BY <1>1, <1>3, <1>4, <2>1, AppendProperties, LenProperties
<1>6. AttemptFine(i)'
  BY <1>1, <1>3, <1>4, <1>5 DEF AttemptFine
<1>7. \A p \in Closing \ {"expired"} : Outcomes(i, p)' = Outcomes(i, p)
  <2> SUFFICES ASSUME NEW p \in Closing \ {"expired"}
               PROVE  Outcomes(i, p)' = Outcomes(i, p)
    OBVIOUS
  <2>1. \A e \in 1 .. n + 1 : attempts'[i][e] = p <=> e \in 1 .. n /\ attempts[i][e] = p
    BY <1>1, <1>3, <1>5 DEF Closing
  <2> QED
    BY <1>1, <1>2, <1>5, <2>1 DEF Outcomes
<1> QED
  BY <1>6, <1>7

LEMMA AttemptsFineStep ==
  ASSUME TypeOK, RowsFine, AttemptsFine, [Next]_vars
  PROVE  AttemptsFine'
<1> SUFFICES ASSUME NEW i \in Jobs PROVE AttemptFine(i)'
  BY DEF AttemptsFine
<1>1. Lives(i) /\ AttemptFine(i)
  BY LifeStep DEF AttemptsFine
<1>2. CASE Stays(i) \/ Inserted(i) \/ Reopened(i) \/ Resent(i) \/ \E n \in Nat \ {0} : Acknowledged(i, n)
  BY <1>1, <1>2 DEF AttemptFine, Stays, Inserted, Reopened, Resent, Acknowledged, KeepsLease, Live
<1>3. CASE Stopped(i)
  <2>1. CASE status[i] = "running"
    BY <1>1, <1>3, <2>1, ClosesAttempt DEF Stopped, KeepsLease, Closing, AttemptOutcomes
  <2>2. CASE status[i] # "running"
    BY <1>1, <1>3, <2>2 DEF Stopped, KeepsLease, AttemptFine
  <2> QED
    BY <2>1, <2>2
<1>4. CASE Started(i)
  BY <1>1, <1>4, OpensAttempt
<1>5. ASSUME NEW n \in Nat \ {0}, PutOff(i, n) PROVE AttemptFine(i)'
  BY <1>1, <1>5, ClosesAttempt DEF PutOff, Answers, KeepsLease, Closing, AttemptOutcomes
<1>6. ASSUME NEW n \in Nat \ {0}, NEW o \in {"succeeded", "failed", "cancelled"}, Ended(i, n, o)
      PROVE  AttemptFine(i)'
  BY <1>1, <1>6, ClosesAttempt DEF Ended, Answers, KeepsLease, Closing, AttemptOutcomes
<1> QED
  BY <1>1, <1>2, <1>3, <1>4, <1>5, <1>6 DEF Lives

LEMMA AttemptsFineAlways == Spec => []AttemptsFine
<1>1. Init => AttemptsFine
  <2> SUFFICES ASSUME Init, NEW i \in Jobs PROVE AttemptFine(i)
    BY DEF AttemptsFine
  <2> QED
    BY DEF Init, AttemptFine
<1>2. TypedInv /\ RowsFine /\ AttemptsFine /\ [Next]_vars => AttemptsFine'
  BY AttemptsFineStep DEF TypedInv
<1> QED
  BY <1>1, <1>2, TypedAlways, RowsFineAlways, PTL DEF Spec

(* Every acquisition has its attempt, and the one that is open is the one  *)
(* of the lease that is running.                                           *)
THEOREM OneOpenAttempt == Spec => []OpenAttemptIsTheLease
<1>1. TypedInv /\ AttemptsFine => OpenAttemptIsTheLease
  <2> SUFFICES ASSUME TypeOK, AttemptsFine, NEW i \in Jobs
               PROVE  /\ Len(attempts[i]) = lease[i].epoch
                      /\ Outcomes(i, "open") = IF status[i] = "running" THEN {lease[i].epoch}
                                                                        ELSE {}
    BY DEF OpenAttemptIsTheLease, TypedInv
  <2>1. attempts[i] \in Seq(AttemptOutcomes) /\ lease[i].epoch \in Nat /\ AttemptFine(i)
    BY RowTyped DEF TypeOK, TablesTypeOK, AttemptsFine
  <2>2. DOMAIN attempts[i] = 1 .. lease[i].epoch
    BY <2>1, LenProperties DEF AttemptFine
  <2> QED
    BY <2>1, <2>2 DEF AttemptFine, Outcomes
<1> QED
  BY <1>1, TypedAlways, AttemptsFineAlways, PTL

-----------------------------------------------------------------------------
(* Messages. Every message anywhere has a number that was dispatched.      *)

Numbered(m) == m[2] <= dispatched[m[1]]
OutboxNumbered == \A m \in unpublished \cup processed : Numbered(m)
LogNumbered == \A k \in DOMAIN log : Numbered(log[k])
HandsNumbered == \A r \in Runners : runner[r].pc \notin Rest => Numbered(runner[r].msg)
MessagesNumbered == OutboxNumbered /\ LogNumbered /\ HandsNumbered

LEMMA DispatchedGrows ==
  ASSUME TypeOK, RowsFine, [Next]_vars
  PROVE  /\ \A i \in Jobs : dispatched'[i] \in Nat /\ dispatched[i] \in Nat
                            /\ dispatched[i] <= dispatched'[i]
         /\ \A m \in Messages : Numbered(m) => Numbered(m)'
<1>1. \A i \in Jobs : dispatched'[i] \in {dispatched[i], dispatched[i] + 1}
  BY LifeStep DEF Lives, Stays, Inserted, Stopped, Reopened, Resent, Started, PutOff, Ended,
                  Acknowledged, KeepsMessages
<1>2. \A i \in Jobs : dispatched[i] \in Nat
  BY RowTyped
<1>3. \A m \in Messages : m[1] \in Jobs /\ m[2] \in Nat
  BY DEF Messages
<1> QED
  BY <1>1, <1>2, <1>3 DEF Numbered

(* Outbox and inbox: new rows are of a new number, or in hand.             *)
LEMMA OutboxSplit ==
  ASSUME TypeOK, [Next]_vars
  PROVE  /\ \A m \in unpublished' : m \in unpublished \/ (m \in Messages /\ Numbered(m)')
         /\ \A m \in processed' : m \in processed
                                    \/ \E r \in Runners : runner[r].pc \notin Rest /\ runner[r].msg = m
<1> DEFINE Outbox == \A m \in unpublished' : m \in unpublished \/ (m \in Messages /\ Numbered(m)')
           Inbox == \A m \in processed' :
             m \in processed \/ \E r \in Runners : runner[r].pc \notin Rest /\ runner[r].msg = m
<1>1. ASSUME NEW j \in Jobs, NEW delay, Dispatch(j, delay) PROVE Outbox
  <2> DEFINE m == <<j, dispatched[j] + 1>>
  <2>1. dispatched'[j] = dispatched[j] + 1 /\ dispatched[j] \in Nat
    BY <1>1, DispatchedOne, RowTyped
  <2>2. m \in Messages /\ m[2] <= dispatched'[m[1]]
    BY <2>1 DEF Messages
  <2>3. unpublished' = unpublished \cup {m}
    BY <1>1 DEF Dispatch
  <2> QED
    BY <2>2, <2>3 DEF Numbered
<1>2. CASE UNCHANGED tables
  BY <1>2 DEF tables, outboxTable
<1>3. ASSUME NEW j \in Jobs,
             \/ AcceptInsert(j) \/ CancelUnheld(j) \/ CancelHeld(j)
             \/ RequestRetry(j) \/ Redispatch(j)
      PROVE  Outbox /\ Inbox
  <2>1. UNCHANGED processed
    BY <1>3 DEF AcceptInsert, CancelUnheld, CancelHeld, RequestRetry, Redispatch
  <2>2. UNCHANGED unpublished \/ Dispatch(j, 0)
    BY <1>3 DEF AcceptInsert, CancelUnheld, CancelHeld, RequestRetry, Redispatch, outboxTable
  <2> QED
    BY <1>1, <2>1, <2>2
<1>4. ASSUME NEW r \in Runners, Complete(r) \/ FailCancelled(r) \/ Fail(r) PROVE Outbox /\ Inbox
  <2>1. Record(runner[r].msg) /\ runner[r].pc \notin Rest /\ Token(r).job \in Jobs
    BY <1>4, RunnerTyped DEF Complete, FailCancelled, Fail, Settles, Rest
  <2>2. UNCHANGED unpublished \/ Dispatch(Token(r).job, runner[r].wait)
    BY <1>4 DEF Complete, FailCancelled, Fail, outboxTable
  <2> QED
    BY <1>1, <2>1, <2>2 DEF Record
<1>5. ASSUME NEW r \in Runners, AcknowledgeCancelled(r) PROVE Outbox /\ Inbox
  <2>1. UNCHANGED processed \/ Record(runner[r].msg)
    BY <1>5 DEF AcknowledgeCancelled
  <2>2. UNCHANGED unpublished /\ runner[r].pc \notin Rest
    BY <1>5 DEF AcknowledgeCancelled, outboxTable, Rest
  <2> QED
    BY <2>1, <2>2 DEF Record
<1>6. CASE PublishPending
  BY <1>6 DEF PublishPending
<1>7. CASE DatabaseStep
  BY <1>3, <1>4, <1>5, <1>6, <1>7
  DEF DatabaseStep, TransitionTopic, Acquire, WatchLease, BeginRequest, SaveCheckpoint, Tick,
      outboxTable
<1> QED
  BY <1>2, <1>7, NextSplit DEF vars, tables

(* The partition only gains messages of the outbox.                        *)
LEMMA PendingFacts ==
  ASSUME TypeOK
  PROVE  /\ Pending \subseteq unpublished /\ Pending \subseteq Messages /\ IsFiniteSet(Pending)
         /\ Cardinality(Pending) \in Nat
         /\ \A batch \in Orders(Pending) :
              /\ batch \in Seq(Messages) /\ Len(batch) = Cardinality(Pending)
              /\ \A k \in DOMAIN batch : batch[k] \in Pending
<1>1. IsFiniteSet(Pending) /\ Pending \subseteq Messages /\ Pending \subseteq unpublished
  BY FS_Subset DEF Pending, TypeOK, TablesTypeOK
<1>2. Cardinality(Pending) \in Nat
  BY <1>1, FS_CardinalityType
<1>3. ASSUME NEW batch \in Orders(Pending)
      PROVE  /\ batch \in Seq(Messages) /\ Len(batch) = Cardinality(Pending)
             /\ \A k \in DOMAIN batch : batch[k] \in Pending
  <2>1. batch \in [1 .. Cardinality(Pending) -> Pending]
    BY DEF Orders
  <2>2. batch \in [1 .. Cardinality(Pending) -> Messages]
    BY <1>1, <2>1
  <2> QED
    BY <1>2, <2>1, <2>2, SeqDef, LenProperties
<1> QED
  BY <1>1, <1>2, <1>3

LEMMA LogEntries ==
  ASSUME TypeOK, CommitsWhatItHandled, [Next]_vars
  PROVE  \A k \in DOMAIN log' : log'[k] \in unpublished \/ \E l \in DOMAIN log : log'[k] = log[l]
<1> DEFINE Goal ==
      \A k \in DOMAIN log' : log'[k] \in unpublished \/ \E l \in DOMAIN log : log'[k] = log[l]
<1>0. log \in Seq(Messages) /\ DOMAIN log = 1 .. Len(log) /\ Len(log) \in Nat
  BY LenProperties DEF TypeOK, ProcessesTypeOK
<1>1. CASE UNCHANGED log
  BY <1>1
<1>2. ASSUME NEW q \in Seq(Messages), \A k \in DOMAIN q : q[k] \in Pending, log' = log \o q
      PROVE  Goal
  <2>1. /\ log' \in Seq(Messages) /\ Len(log') = Len(log) + Len(q)
        /\ \A k \in 1 .. Len(log) + Len(q) :
             log'[k] = IF k <= Len(log) THEN log[k] ELSE q[k - Len(log)]
    BY <1>0, <1>2, ConcatProperties
  <2>2. DOMAIN log' = 1 .. Len(log) + Len(q) /\ DOMAIN q = 1 .. Len(q) /\ Len(q) \in Nat
    BY <2>1, LenProperties
  <2> SUFFICES ASSUME NEW k \in 1 .. Len(log) + Len(q)
               PROVE  log'[k] \in unpublished \/ \E l \in DOMAIN log : log'[k] = log[l]
    BY <2>2
  <2>3. CASE k <= Len(log)
    BY <1>0, <2>1, <2>3
  <2>4. CASE k > Len(log)
    <3>1. k - Len(log) \in DOMAIN q
      BY <1>0, <2>2, <2>4
    <3> QED
      BY <1>0, <1>2, <2>1, <2>4, <3>1, PendingFacts
  <2> QED
    BY <1>0, <2>2, <2>3, <2>4
<1>3. CASE PublishPending
  BY <1>2, <1>3, PendingFacts DEF PublishPending
<1>4. CASE PublishFails
  <2>1. PICK batch \in Orders(Pending), n \in 0 .. Cardinality(Pending) :
          log' = log \o SubSeq(batch, 1, n)
    BY <1>4 DEF PublishFails
  <2>2. /\ batch \in Seq(Messages) /\ Len(batch) = Cardinality(Pending)
        /\ \A k \in DOMAIN batch : batch[k] \in Pending
        /\ Cardinality(Pending) \in Nat
    BY PendingFacts
  <2>3. /\ SubSeq(batch, 1, n) \in Seq(Messages) /\ Len(SubSeq(batch, 1, n)) = n
        /\ \A k \in 1 .. n : SubSeq(batch, 1, n)[k] = batch[k]
    BY <2>2, SubSeqProperties
  <2>4. \A k \in DOMAIN SubSeq(batch, 1, n) : SubSeq(batch, 1, n)[k] \in Pending
    BY <2>2, <2>3, LenProperties
  <2> QED
    BY <1>2, <2>1, <2>3, <2>4
<1>5. CASE Commit
  <2>1. log # <<>> /\ log' = Tail(log)
    BY <1>5 DEF Commit, CommitsWhatItHandled, Rest
  <2>2. /\ Len(log') = Len(log) - 1 /\ log' \in Seq(Messages)
        /\ \A k \in 1 .. Len(log) - 1 : log'[k] = log[k + 1]
    BY <1>0, <2>1, HeadTailProperties
  <2>3. DOMAIN log' = 1 .. Len(log) - 1
    BY <1>0, <2>2, LenProperties
  <2>4. \A k \in 1 .. Len(log) - 1 : k + 1 \in DOMAIN log
    BY <1>0
  <2> QED
    BY <2>2, <2>3, <2>4
<1> QED
  BY <1>1, <1>3, <1>4, <1>5, LogSplit DEF vars

LEMMA HandsStep ==
  ASSUME TypeOK, CommitsWhatItHandled, [Next]_vars, LogNumbered, HandsNumbered, NEW r \in Runners,
         runner'[r].pc \notin Rest
  PROVE  \/ runner[r].pc \notin Rest /\ runner'[r].msg = runner[r].msg
         \/ \E k \in DOMAIN log : runner'[r].msg = log[k]
         \/ \E j \in Jobs : \E n \in 1 .. dispatched[j] : runner'[r].msg = <<j, n>>
<1> DEFINE Goal == \/ runner[r].pc \notin Rest /\ runner'[r].msg = runner[r].msg
                   \/ \E k \in DOMAIN log : runner'[r].msg = log[k]
                   \/ \E j \in Jobs : \E n \in 1 .. dispatched[j] : runner'[r].msg = <<j, n>>
<1>0. runner \in [Runners -> RunnerStates] /\ runner[r] \in RunnerStates
  BY DEF TypeOK, ProcessesTypeOK
<1>1. CASE UNCHANGED runner
  BY <1>1
<1>2. ASSUME NEW q \in Runners, LetsGo(q) PROVE Goal
  <2>1. PICK pc \in Rest, n \in Nat : runner' = [runner EXCEPT ![q] = Resting(pc, n)]
    BY <1>2 DEF LetsGo
  <2>2. q # r
    BY <1>0, <2>1 DEF Resting
  <2> QED
    BY <1>0, <2>1, <2>2
<1>3. ASSUME NEW q \in Runners, CarriesOn(q) PROVE Goal
  BY <1>0, <1>3 DEF CarriesOn
<1>4. CASE Fetch
  <2>1. log # <<>> /\ runner' = [runner EXCEPT ![Worker].pc = "fetched", ![Worker].msg = Head(log)]
    BY <1>4 DEF Fetch
  <2>2. Head(log) = log[1] /\ 1 \in DOMAIN log
    BY <2>1, HeadTailProperties, LenProperties, EmptySeq DEF TypeOK, ProcessesTypeOK
  <2>3. r = Worker => runner'[r].msg = Head(log)
    BY <1>0, <2>1 DEF RunnerStates
  <2>4. r # Worker => runner'[r] = runner[r]
    BY <1>0, <2>1
  <2> QED
    BY <2>2, <2>3, <2>4
<1>5. ASSUME NEW q \in HostRunners, NEW j \in Jobs, NEW n \in 1 .. dispatched[j],
             HostPick(q, <<j, n>>)
      PROVE  Goal
  <2> DEFINE m == <<j, n>>
  <2>1. runner' = [runner EXCEPT ![q].pc = "fetched", ![q].msg = m]
    BY <1>5 DEF HostPick
  <2> HIDE DEF m
  <2>2. r = q => runner'[r].msg = m
    BY <1>0, <2>1 DEF RunnerStates
  <2>3. r # q => runner'[r] = runner[r]
    BY <1>0, <2>1
  <2> USE DEF m
  <2> QED
    BY <2>2, <2>3
<1>6. CASE Tick
  BY <1>0, <1>6 DEF Tick, RunnerStates
<1> QED
  BY <1>1, <1>2, <1>3, <1>4, <1>5, <1>6, RunnerSplit DEF RunnerChange, vars

LEMMA MessagesNumberedStep ==
  ASSUME TypeOK, CommitsWhatItHandled, RowsFine, MessagesNumbered, [Next]_vars
  PROVE  MessagesNumbered'
<1>0. /\ unpublished \subseteq Messages /\ processed \subseteq Messages
      /\ \A k \in DOMAIN log : log[k] \in Messages
      /\ \A r \in Runners : runner[r].pc \notin Rest => runner[r].msg \in Messages
  BY LenProperties DEF TypeOK, TablesTypeOK, ProcessesTypeOK
<1>1. \A m \in Messages : Numbered(m) => Numbered(m)'
  BY DispatchedGrows
<1>2. OutboxNumbered'
  <2>1. \A m \in unpublished' : Numbered(m)'
    BY <1>0, <1>1, OutboxSplit DEF MessagesNumbered, OutboxNumbered
  <2>2. \A m \in processed' : Numbered(m)'
    BY <1>0, <1>1, OutboxSplit DEF MessagesNumbered, OutboxNumbered, HandsNumbered
  <2> QED
    BY <2>1, <2>2 DEF OutboxNumbered, Numbered
<1>3. LogNumbered'
  <2> SUFFICES ASSUME NEW k \in DOMAIN log' PROVE Numbered(log[k])'
    BY DEF LogNumbered
  <2>1. PICK m \in Messages : m = log'[k] /\ Numbered(m)
    BY <1>0, LogEntries DEF MessagesNumbered, OutboxNumbered, LogNumbered
  <2> QED
    BY <1>1, <2>1 DEF Numbered
<1>4. HandsNumbered'
  <2> SUFFICES ASSUME NEW r \in Runners, runner'[r].pc \notin Rest PROVE Numbered(runner[r].msg)'
    BY DEF HandsNumbered
  <2>1. \A j \in Jobs : \A n \in 1 .. dispatched[j] :
          <<j, n>> \in Messages /\ Numbered(<<j, n>>)
    BY RowTyped DEF Messages, Numbered
  <2>2. PICK m \in Messages : m = runner'[r].msg /\ Numbered(m)
    BY <1>0, <2>1, HandsStep DEF MessagesNumbered, LogNumbered, HandsNumbered
  <2> QED
    BY <1>1, <2>2 DEF Numbered
<1> QED
  BY <1>2, <1>3, <1>4 DEF MessagesNumbered

-----------------------------------------------------------------------------
(* What is dispatched and what is settled. Without redispatches every      *)
(* message but the last is settled, and the last too once the job has its  *)
(* outcome.                                                                *)

DispatchFine(i) ==
  /\ status[i] = "absent" => dispatched[i] = 0 /\ retry[i].count = 0 /\ lease[i].epoch = 0
  /\ status[i] # "absent" => dispatched[i] >= retry[i].count + 1
  /\ status[i] # "absent" /\ MaxRedispatches = 0 => dispatched[i] = retry[i].count + 1
  /\ status[i] \in Live => dispatched[i] \notin SettledOf(i)
SettledFine(i) ==
  MaxRedispatches = 0 =>
    /\ \A n \in 1 .. dispatched[i] : n < dispatched[i] => n \in SettledOf(i)
    /\ status[i] \in Terminal \ {"cancelled"} => dispatched[i] \in SettledOf(i)

Sent == \A i \in Jobs : DispatchFine(i) /\ SettledFine(i)

LEMMA SettledNumbered ==
  ASSUME MessagesNumbered, NEW i \in Jobs, NEW n \in Nat \ {0}, n \in SettledOf(i) \/ InHand(i, n)
  PROVE  n <= dispatched[i]
<1>1. \A m : m = <<i, n>> => m[1] = i /\ m[2] = n
  OBVIOUS
<1> QED
  BY <1>1 DEF MessagesNumbered, OutboxNumbered, HandsNumbered, Numbered, SettledOf, InHand

LEMMA SentStep ==
  ASSUME TypeOK, RowsFine, MessagesNumbered, Sent, [Next]_vars
  PROVE  Sent'
<1> SUFFICES ASSUME NEW i \in Jobs PROVE (DispatchFine(i) /\ SettledFine(i))'
  BY DEF Sent
<1>0. Lives(i) /\ DispatchFine(i) /\ SettledFine(i)
  BY LifeStep DEF Sent
<1>1. /\ dispatched[i] \in Nat /\ retry[i].count \in Nat /\ lease[i].epoch \in Nat
      /\ \A n \in SettledOf(i) : n \in Nat \ {0} /\ n <= dispatched[i]
      /\ \A n \in Nat \ {0} : InHand(i, n) => n <= dispatched[i]
  BY RowTyped, SettledNumbered DEF SettledOf
<1> USE DEF DispatchFine, SettledFine, Live, Terminal, KeepsLease, KeepsMessages, KeepsRetry
<1>2. CASE Stays(i)
  BY <1>0, <1>1, <1>2 DEF Stays
<1>3. CASE Inserted(i)
  BY <1>0, <1>1, <1>3 DEF Inserted
<1>4. CASE Stopped(i)
  BY <1>0, <1>1, <1>4 DEF Stopped, Unheld
<1>5. CASE Reopened(i)
  BY <1>0, <1>1, <1>5 DEF Reopened
<1>6. CASE Resent(i)
  BY <1>0, <1>1, <1>6 DEF Resent
<1>7. CASE Started(i)
  BY <1>0, <1>1, <1>7 DEF Started
<1>8. ASSUME NEW n \in Nat \ {0}, PutOff(i, n) PROVE (DispatchFine(i) /\ SettledFine(i))'
  BY <1>0, <1>1, <1>8 DEF PutOff, Answers
<1>9. ASSUME NEW n \in Nat \ {0}, Acknowledged(i, n) PROVE (DispatchFine(i) /\ SettledFine(i))'
  BY <1>0, <1>1, <1>9 DEF Acknowledged
<1>10. ASSUME NEW n \in Nat \ {0}, NEW o \in {"succeeded", "failed", "cancelled"}, Ended(i, n, o)
       PROVE  (DispatchFine(i) /\ SettledFine(i))'
  BY <1>0, <1>1, <1>10 DEF Ended, Answers
<1> QED
  BY <1>0, <1>2, <1>3, <1>4, <1>5, <1>6, <1>7, <1>8, <1>9, <1>10 DEF Lives

LEMMA SentInit == Init => MessagesNumbered /\ Sent
<1> SUFFICES ASSUME Init PROVE MessagesNumbered /\ Sent
  OBVIOUS
<1>1. MessagesNumbered
  <2>1. \A r \in Runners : runner[r].pc = "idle"
    BY DEF Init, Resting
  <2>2. log = <<>> /\ unpublished = {} /\ processed = {}
    BY DEF Init
  <2> QED
    BY <2>1, <2>2, EmptySeq DEF MessagesNumbered, OutboxNumbered, LogNumbered, HandsNumbered, Rest
<1>2. Sent
  <2> SUFFICES ASSUME NEW i \in Jobs PROVE DispatchFine(i) /\ SettledFine(i)
    BY DEF Sent
  <2> QED
    BY DEF Init, DispatchFine, SettledFine, Live, Terminal
<1> QED
  BY <1>1, <1>2

JobInv == TypedInv /\ RowsFine /\ AttemptsFine /\ MessagesNumbered /\ Sent

LEMMA JobInvAlways == Spec => []JobInv
<1>1. TypedInv /\ RowsFine /\ MessagesNumbered /\ Sent /\ [Next]_vars =>
        MessagesNumbered' /\ Sent'
  BY MessagesNumberedStep, SentStep DEF TypedInv
<1> QED
  BY <1>1, SentInit, TypedAlways, RowsFineAlways, AttemptsFineAlways, PTL DEF Spec, JobInv

(* A job that is queued or running has a message that is not settled: the  *)
(* last one, whatever was delivered twice, settled late or redispatched.   *)
THEOREM LiveHasMessage == Spec => []LiveJobHasMessage
<1>1. JobInv => LiveJobHasMessage
  <2> SUFFICES ASSUME JobInv, NEW i \in Jobs, status[i] \in Live
               PROVE  \E n \in 1 .. dispatched[i] : <<i, n>> \notin processed
    BY DEF LiveJobHasMessage
  <2>1. /\ dispatched[i] \in Nat /\ retry[i].count \in Nat
        /\ dispatched[i] >= retry[i].count + 1 /\ dispatched[i] \notin SettledOf(i)
    BY RowTyped DEF JobInv, TypedInv, Sent, DispatchFine, Live
  <2> QED
    BY <2>1 DEF SettledOf
<1> QED
  BY <1>1, JobInvAlways, PTL

(* Unless the operator redispatches, a job that succeeded or failed has no *)
(* message left that the worker could neither acknowledge nor acquire.     *)
THEOREM SettledHasNoMessage ==
  ASSUME MaxRedispatches = 0 PROVE Spec => []SettledJobHasNoMessage
<1>1. JobInv => SettledJobHasNoMessage
  <2> SUFFICES ASSUME JobInv, NEW i \in Jobs, status[i] \in Terminal \ {"cancelled"},
                      NEW n \in 1 .. dispatched[i]
               PROVE  <<i, n>> \in processed
    BY DEF SettledJobHasNoMessage
  <2>1. dispatched[i] \in Nat /\ SettledFine(i)
    BY RowTyped DEF JobInv, TypedInv, Sent
  <2>2. n \in SettledOf(i)
    BY <2>1 DEF SettledFine
  <2> QED
    BY <2>2 DEF SettledOf
<1> QED
  BY <1>1, JobInvAlways, PTL

-----------------------------------------------------------------------------
(* Ledgers: how many attempts ended in what way.                           *)

Counted == {"succeeded", "delayed", "failed"}
Count(i, p) == Cardinality(Outcomes(i, p))
FailedLast(i) == lease[i].epoch \in Outcomes(i, "failed")

CountFine(i) ==
  /\ Count(i, "succeeded") + Count(i, "delayed") + Count(i, "failed")
       <= Cardinality(SettledOf(i))
  /\ retry[i].count = Count(i, "delayed") + Count(i, "failed")
                        - (IF status[i] = "failed" THEN 1 ELSE 0)
  /\ Count(i, "delayed") > 0 => Count(i, "delayed") < MaxAttempts
CycleFine(i) ==
  /\ lease[i].epoch = 0 => work[i].cycle = 0
  /\ lease[i].epoch > 0 =>
       work[i].cycle = 1 + Cardinality(Outcomes(i, "failed") \ {lease[i].epoch})
  /\ status[i] = "failed" => FailedLast(i)
  /\ status[i] = "queued" => (FailedLast(i) <=> retry[i].defer = "manual_retry")
CountsFine == \A i \in Jobs : CountFine(i) /\ CycleFine(i)

LEMMA OutcomesFinite ==
  ASSUME TypeOK, AttemptsFine, NEW i \in Jobs, NEW p
  PROVE  /\ Outcomes(i, p) \subseteq 1 .. lease[i].epoch
         /\ IsFiniteSet(Outcomes(i, p)) /\ Count(i, p) \in Nat
<1>1. attempts[i] \in Seq(AttemptOutcomes) /\ lease[i].epoch \in Nat
  BY RowTyped DEF TypeOK, TablesTypeOK
<1>2. Outcomes(i, p) \subseteq 1 .. lease[i].epoch
  BY <1>1, LenProperties DEF Outcomes, AttemptsFine, AttemptFine
<1>3. IsFiniteSet(1 .. lease[i].epoch)
  BY <1>1, 1 \in Int, lease[i].epoch \in Int, FS_Interval
<1>4. IsFiniteSet(Outcomes(i, p))
  BY <1>2, <1>3, Outcomes(i, p) \in SUBSET (1 .. lease[i].epoch), FS_Subset
<1> QED
  BY <1>2, <1>4, FS_CardinalityType DEF Count

LEMMA SettledFinite ==
  ASSUME TypeOK, MessagesNumbered, NEW i \in Jobs
  PROVE  /\ SettledOf(i) \subseteq 1 .. dispatched[i]
         /\ IsFiniteSet(SettledOf(i)) /\ Cardinality(SettledOf(i)) \in Nat
<1>1. dispatched[i] \in Nat
  BY RowTyped
<1>2. SettledOf(i) \subseteq 1 .. dispatched[i]
  BY <1>1, SettledNumbered DEF SettledOf
<1>3. IsFiniteSet(1 .. dispatched[i])
  BY <1>1, 1 \in Int, dispatched[i] \in Int, FS_Interval
<1>4. IsFiniteSet(SettledOf(i))
  BY <1>2, <1>3, SettledOf(i) \in SUBSET (1 .. dispatched[i]), FS_Subset
<1> QED
  BY <1>2, <1>4, FS_CardinalityType

(* Only a settlement adds an outcome, that of the epoch which settles.     *)
QuietLife(i) ==
  \/ Stays(i) \/ Inserted(i) \/ Stopped(i) \/ Reopened(i) \/ Resent(i) \/ Started(i)
  \/ \E n \in Nat \ {0} : Acknowledged(i, n) \/ Ended(i, n, "cancelled")
SettlesAs(i, n, p) ==
  \/ p = "delayed" /\ PutOff(i, n)
  \/ p \in {"succeeded", "failed"} /\ Ended(i, n, p)

LEMMA LifeSplit ==
  ASSUME NEW i, Lives(i)
  PROVE  QuietLife(i) \/ \E n \in Nat \ {0}, p \in Counted : SettlesAs(i, n, p)
<1>1. ASSUME NEW n \in Nat \ {0}, PutOff(i, n) PROVE SettlesAs(i, n, "delayed")
  BY <1>1 DEF SettlesAs
<1>2. ASSUME NEW n \in Nat \ {0}, NEW p \in {"succeeded", "failed"}, Ended(i, n, p)
      PROVE  SettlesAs(i, n, p)
  BY <1>2 DEF SettlesAs
<1> QED
  BY <1>1, <1>2 DEF Lives, QuietLife, Counted

LEMMA QuietOutcomes ==
  ASSUME TypeOK, NEW i \in Jobs, AttemptFine(i), QuietLife(i)
  PROVE  \A p \in Counted : Outcomes(i, p)' = Outcomes(i, p)
<1>1. \A p \in Counted : p \in Closing \ {"expired"} /\ p # "cancelled"
  BY DEF Counted, Closing, AttemptOutcomes
<1>2. CASE attempts'[i] = attempts[i]
  BY <1>2 DEF Outcomes
<1>3. CASE Started(i)
  BY <1>1, <1>3, OpensAttempt
<1>4. ASSUME status[i] = "running", attempts'[i] = Relabeled(i, "open", "cancelled"),
             lease'[i].epoch = lease[i].epoch, status'[i] = "cancelled"
      PROVE  \A p \in Counted : Outcomes(i, p)' = Outcomes(i, p)
  <2>1. "cancelled" \in Closing
    BY DEF Closing, AttemptOutcomes
  <2> QED
    BY <1>1, <1>4, <2>1, ClosesAttempt
<1>5. CASE Stopped(i)
  BY <1>2, <1>4, <1>5 DEF Stopped, KeepsLease
<1>6. ASSUME NEW n \in Nat \ {0}, Ended(i, n, "cancelled")
      PROVE  \A p \in Counted : Outcomes(i, p)' = Outcomes(i, p)
  BY <1>4, <1>6 DEF Ended, Answers, KeepsLease
<1> QED
  BY <1>2, <1>3, <1>5, <1>6 DEF QuietLife, Stays, Inserted, Reopened, Resent, Acknowledged

LEMMA SettledOutcomes ==
  ASSUME TypeOK, NEW i \in Jobs, AttemptFine(i), NEW n \in Nat \ {0}, NEW p \in Counted,
         SettlesAs(i, n, p)
  PROVE  /\ \A q \in Counted : lease[i].epoch \notin Outcomes(i, q)
         /\ \A q \in Counted \ {p} : Outcomes(i, q)' = Outcomes(i, q)
         /\ Outcomes(i, p)' = Outcomes(i, p) \cup {lease[i].epoch}
<1>1. Counted \subseteq Closing
  BY DEF Counted, Closing, AttemptOutcomes
<1>2. /\ status[i] = "running" /\ attempts'[i] = Relabeled(i, "open", p)
      /\ lease'[i].epoch = lease[i].epoch /\ status'[i] # "running"
  BY DEF SettlesAs, PutOff, Ended, Answers, KeepsLease
<1> QED
  BY <1>1, <1>2, ClosesAttempt
LEMMA CountStep ==
  ASSUME TypeOK, AttemptsFine, MessagesNumbered,
         NEW i \in Jobs, DispatchFine(i), RowFine(i), Lives(i), CountFine(i)
  PROVE  CountFine(i)'
<1>0. /\ \A p : Count(i, p) \in Nat /\ IsFiniteSet(Outcomes(i, p))
      /\ Cardinality(SettledOf(i)) \in Nat /\ IsFiniteSet(SettledOf(i))
      /\ retry[i].count \in Nat /\ MaxAttempts \in Nat
  BY OutcomesFinite, SettledFinite, RowTyped, TicksAssumption
<1>1. \A n : /\ Cardinality(SettledOf(i)) <= Cardinality(SettledOf(i) \cup {n})
             /\ n \notin SettledOf(i) =>
                  Cardinality(SettledOf(i) \cup {n}) = Cardinality(SettledOf(i)) + 1
  BY <1>0, FS_AddElement
<1>2. CASE QuietLife(i)
  <2>1. \A p \in Counted : Count(i, p)' = Count(i, p)
    BY <1>2, QuietOutcomes DEF Count, AttemptsFine
  <2>2. /\ Count(i, "succeeded")' = Count(i, "succeeded")
        /\ Count(i, "delayed")' = Count(i, "delayed")
        /\ Count(i, "failed")' = Count(i, "failed")
    BY <2>1 DEF Counted
  <2>3. \/ SettledOf(i)' = SettledOf(i)
        \/ \E n : SettledOf(i)' = SettledOf(i) \cup {n}
    BY <1>2 DEF QuietLife, Stays, Inserted, Stopped, Reopened, Resent, Started, Acknowledged,
                Ended, Answers, KeepsMessages
  <2>4. /\ Cardinality(SettledOf(i))' \in Nat
        /\ Cardinality(SettledOf(i)) <= Cardinality(SettledOf(i))'
    <3>1. CASE SettledOf(i)' = SettledOf(i)
      BY <1>0, <3>1
    <3>2. ASSUME NEW n, SettledOf(i)' = SettledOf(i) \cup {n}
          PROVE  /\ Cardinality(SettledOf(i)') \in Nat
                 /\ Cardinality(SettledOf(i)) <= Cardinality(SettledOf(i)')
      <4>1. IsFiniteSet(SettledOf(i) \cup {n})
        BY <1>0, FS_AddElement
      <4> QED
        BY <1>1, <3>2, <4>1, FS_CardinalityType
    <3> QED
      BY <2>3, <3>1, <3>2
  <2>5. \/ status'[i] = "failed" /\ status[i] = "failed" /\ retry'[i].count = retry[i].count
        \/ status'[i] # "failed" /\ status[i] # "failed" /\ retry'[i].count = retry[i].count
        \/ status'[i] # "failed" /\ status[i] = "failed" /\ retry'[i].count = retry[i].count + 1
    BY <1>2 DEF QuietLife, Stays, Inserted, Stopped, Reopened, Resent, Started, Acknowledged,
                Ended, Answers, KeepsRetry, Live, Unheld
  <2>6. (Count(i, "succeeded") + Count(i, "delayed") + Count(i, "failed")
           <= Cardinality(SettledOf(i)))'
    BY <1>0, <2>2, <2>4 DEF CountFine
  <2>7. (retry[i].count = Count(i, "delayed") + Count(i, "failed")
                            - (IF status[i] = "failed" THEN 1 ELSE 0))'
    BY <1>0, <2>2, <2>5 DEF CountFine
  <2> QED
    BY <2>2, <2>6, <2>7 DEF CountFine
<1>3. ASSUME NEW n \in Nat \ {0}, NEW p \in Counted, SettlesAs(i, n, p) PROVE CountFine(i)'
  <2>1. /\ \A q \in Counted : lease[i].epoch \notin Outcomes(i, q)
        /\ \A q \in Counted \ {p} : Outcomes(i, q)' = Outcomes(i, q)
        /\ Outcomes(i, p)' = Outcomes(i, p) \cup {lease[i].epoch}
    BY <1>3, SettledOutcomes DEF AttemptsFine
  <2>2. /\ Count(i, p)' = Count(i, p) + 1
        /\ \A q \in Counted \ {p} : Count(i, q)' = Count(i, q)
    <3>1. Cardinality(Outcomes(i, p) \cup {lease[i].epoch}) = Cardinality(Outcomes(i, p)) + 1
      BY <1>0, <2>1, FS_AddElement
    <3> QED
      BY <2>1, <3>1 DEF Count
  <2>3. Cardinality(SettledOf(i))' = Cardinality(SettledOf(i)) + 1
    BY <1>1, <1>3 DEF SettlesAs, PutOff, Ended, Answers
  <2>4. CASE p = "delayed"
    <3>1. /\ status[i] # "failed" /\ status'[i] # "failed"
          /\ retry[i].count + 1 < MaxAttempts /\ retry'[i].count = retry[i].count + 1
      BY <1>3, <2>4 DEF SettlesAs, PutOff, Answers
    <3>2. /\ Count(i, "succeeded")' = Count(i, "succeeded")
          /\ Count(i, "delayed")' = Count(i, "delayed") + 1
          /\ Count(i, "failed")' = Count(i, "failed")
      BY <2>2, <2>4 DEF Counted
    <3> QED
      BY <1>0, <2>3, <3>1, <3>2 DEF CountFine
  <2>5. CASE p = "failed"
    <3>1. /\ status[i] # "failed" /\ status'[i] = "failed"
          /\ retry'[i].count = retry[i].count
      BY <1>3, <2>5 DEF SettlesAs, Ended, Answers
    <3>2. /\ Count(i, "succeeded")' = Count(i, "succeeded")
          /\ Count(i, "delayed")' = Count(i, "delayed")
          /\ Count(i, "failed")' = Count(i, "failed") + 1
      BY <2>2, <2>5 DEF Counted
    <3> QED
      BY <1>0, <2>3, <3>1, <3>2 DEF CountFine
  <2>6. CASE p = "succeeded"
    <3>1. /\ status[i] # "failed" /\ status'[i] # "failed"
          /\ retry'[i].count = retry[i].count
      BY <1>3, <2>6 DEF SettlesAs, Ended, Answers
    <3>2. /\ Count(i, "succeeded")' = Count(i, "succeeded") + 1
          /\ Count(i, "delayed")' = Count(i, "delayed")
          /\ Count(i, "failed")' = Count(i, "failed")
      BY <2>2, <2>6 DEF Counted
    <3> QED
      BY <1>0, <2>3, <3>1, <3>2 DEF CountFine
  <2> QED
    BY <2>4, <2>5, <2>6 DEF Counted
<1> QED
  BY <1>2, <1>3, LifeSplit

(* A new epoch is in a new cycle exactly when the epoch before it failed.  *)
LEMMA CycleStep ==
  ASSUME TypeOK, AttemptsFine, NEW i \in Jobs,
         DispatchFine(i), RowFine(i), WorkFine(i), Lives(i), CycleFine(i)
  PROVE  CycleFine(i)'
<1>0. /\ lease[i].epoch \in Nat /\ work[i].cycle \in Nat
      /\ Outcomes(i, "failed") \subseteq 1 .. lease[i].epoch
      /\ IsFiniteSet(Outcomes(i, "failed"))
  BY OutcomesFinite, RowTyped
<1>1. CASE Started(i)
  <2>1. Outcomes(i, "failed")' = Outcomes(i, "failed")
    BY <1>1, QuietOutcomes DEF QuietLife, Counted, AttemptsFine
  <2>2. lease'[i].epoch = lease[i].epoch + 1 /\ status'[i] = "running" /\ status[i] \in Live
    BY <1>1 DEF Started
  <2>3. lease'[i].epoch \notin Outcomes(i, "failed")
    BY <1>0, <2>2
  <2>4. Cardinality(Outcomes(i, "failed") \ {lease'[i].epoch})
          = Cardinality(Outcomes(i, "failed"))
    BY <2>3, Outcomes(i, "failed") \ {lease'[i].epoch} = Outcomes(i, "failed")
  <2>5. Cardinality(Outcomes(i, "failed"))
          = Cardinality(Outcomes(i, "failed") \ {lease[i].epoch}) + (IF FailedLast(i) THEN 1 ELSE 0)
    <3>1. IsFiniteSet(Outcomes(i, "failed") \ {lease[i].epoch})
      BY <1>0, FS_RemoveElement
    <3>2. CASE FailedLast(i)
      <4>1. (Outcomes(i, "failed") \ {lease[i].epoch}) \cup {lease[i].epoch}
              = Outcomes(i, "failed")
        BY <3>2 DEF FailedLast
      <4>2. Cardinality((Outcomes(i, "failed") \ {lease[i].epoch}) \cup {lease[i].epoch})
              = Cardinality(Outcomes(i, "failed") \ {lease[i].epoch}) + 1
        BY <3>1, FS_AddElement
      <4> QED
        BY <3>2, <4>1, <4>2
    <3>3. CASE ~FailedLast(i)
      <4>1. Outcomes(i, "failed") \ {lease[i].epoch} = Outcomes(i, "failed")
        BY <3>3 DEF FailedLast
      <4>2. Cardinality(Outcomes(i, "failed")) \in Nat
        BY <1>0, FS_CardinalityType
      <4> QED
        BY <3>3, <4>1, <4>2
    <3> QED
      BY <3>2, <3>3
  <2>6. status[i] = "running" => ~FailedLast(i) /\ work[i].cycle > 0 /\ lease[i].epoch > 0
    BY <1>0 DEF FailedLast, Outcomes, AttemptsFine, AttemptFine, WorkFine
  <2>7. lease[i].epoch > 0 => work[i].cycle > 0
    <3>1. Cardinality(Outcomes(i, "failed") \ {lease[i].epoch}) \in Nat
      BY <1>0, FS_RemoveElement, FS_CardinalityType
    <3> QED
      BY <1>0, <3>1 DEF CycleFine
  <2>8. work'[i].cycle = 1 + Cardinality(Outcomes(i, "failed"))
    <3>1. CASE lease[i].epoch = 0
      <4>1. Outcomes(i, "failed") = {}
        BY <1>0, <3>1
      <4>2. Cardinality(Outcomes(i, "failed")) = 0
        BY <4>1, FS_EmptySet
      <4> QED
        BY <1>1, <3>1, <4>2 DEF Started, OpensCycle, CycleFine
    <3>2. CASE lease[i].epoch > 0 /\ FailedLast(i)
      <4>1. OpensCycle(i)
        BY <2>2, <2>6, <3>2 DEF OpensCycle, CycleFine, Live
      <4>2. Cardinality(Outcomes(i, "failed") \ {lease[i].epoch}) \in Nat
        BY <1>0, FS_RemoveElement, FS_CardinalityType
      <4>3. work'[i].cycle = work[i].cycle + 1
        BY <1>1, <4>1 DEF Started
      <4>4. work[i].cycle = 1 + Cardinality(Outcomes(i, "failed") \ {lease[i].epoch})
        BY <3>2 DEF CycleFine
      <4> QED
        BY <2>5, <3>2, <4>2, <4>3, <4>4
    <3>3. CASE lease[i].epoch > 0 /\ ~FailedLast(i)
      <4>1. ~OpensCycle(i)
        BY <1>0, <2>7, <3>3 DEF OpensCycle, CycleFine
      <4>2. Outcomes(i, "failed") \ {lease[i].epoch} = Outcomes(i, "failed")
        BY <3>3 DEF FailedLast
      <4> QED
        BY <1>1, <3>3, <4>1, <4>2 DEF Started, CycleFine
    <3> QED
      BY <1>0, <3>1, <3>2, <3>3
  <2>9. Cardinality(Outcomes(i, "failed") \ {lease[i].epoch})'
          = Cardinality(Outcomes(i, "failed"))
    BY <2>1, <2>4
  <2> QED
    BY <1>0, <2>2, <2>8, <2>9 DEF CycleFine
<1>2. CASE QuietLife(i) /\ ~Started(i)
  <2>1. Outcomes(i, "failed")' = Outcomes(i, "failed")
    BY <1>2, QuietOutcomes DEF Counted, AttemptsFine
  <2>2. lease'[i].epoch = lease[i].epoch /\ work'[i].cycle = work[i].cycle
    BY <1>2 DEF QuietLife, Stays, Inserted, Stopped, Reopened, Resent, Acknowledged,
                Ended, Answers, KeepsLease
  <2>3. FailedLast(i)' <=> FailedLast(i)
    BY <2>1, <2>2 DEF FailedLast
  <2>4. \/ status'[i] = status[i] /\ retry'[i].defer = retry[i].defer
        \/ status[i] = "absent" /\ status'[i] = "queued" /\ retry'[i].defer = retry[i].defer
        \/ status'[i] = "cancelled"
        \/ status[i] = "failed" /\ status'[i] = "queued" /\ retry'[i].defer = "manual_retry"
    BY <1>2 DEF QuietLife, Stays, Inserted, Stopped, Reopened, Resent, Acknowledged,
                Ended, Answers, KeepsRetry
  <2>5. status[i] = "absent" => ~FailedLast(i) /\ retry[i].defer = "none"
    BY <1>0 DEF FailedLast, DispatchFine, RowFine
  <2> QED
    BY <2>1, <2>2, <2>3, <2>4, <2>5 DEF CycleFine
<1>3. ASSUME NEW n \in Nat \ {0}, NEW p \in Counted, SettlesAs(i, n, p) PROVE CycleFine(i)'
  <2>1. /\ lease[i].epoch \notin Outcomes(i, "failed")
        /\ p # "failed" => Outcomes(i, "failed")' = Outcomes(i, "failed")
        /\ p = "failed" => Outcomes(i, "failed")' = Outcomes(i, "failed") \cup {lease[i].epoch}
    BY <1>3, SettledOutcomes DEF AttemptsFine, Counted
  <2>2. lease'[i].epoch = lease[i].epoch /\ work'[i].cycle = work[i].cycle
    BY <1>3 DEF SettlesAs, PutOff, Ended, Answers, KeepsLease
  <2>3. Outcomes(i, "failed")' \ {lease'[i].epoch} = Outcomes(i, "failed") \ {lease[i].epoch}
    BY <2>1, <2>2
  <2>4. FailedLast(i)' <=> p = "failed"
    BY <2>1, <2>2 DEF FailedLast
  <2>5. /\ status'[i] = "failed" => p = "failed"
        /\ status'[i] = "queued" => p = "delayed" /\ retry'[i].defer = "transient"
    BY <1>3 DEF SettlesAs, PutOff, Ended
  <2> QED
    BY <2>2, <2>3, <2>4, <2>5 DEF CycleFine
<1> QED
  BY <1>1, <1>2, <1>3, LifeSplit

LEMMA CountsInit == Init => CountsFine
<1> SUFFICES ASSUME Init, NEW i \in Jobs PROVE CountFine(i) /\ CycleFine(i)
  BY DEF CountsFine
<1>1. \A p : Outcomes(i, p) = {} /\ Count(i, p) = 0
  BY EmptySeq, FS_EmptySet DEF Init, Outcomes, Count
<1>2. SettledOf(i) = {} /\ Cardinality(SettledOf(i)) = 0
  BY FS_EmptySet DEF Init, SettledOf
<1>3. /\ status[i] = "absent" /\ lease[i].epoch = 0 /\ work[i].cycle = 0
      /\ retry[i].count = 0
  BY DEF Init
<1> QED
  BY <1>1, <1>2, <1>3 DEF CountFine, CycleFine, FailedLast

LEMMA CountsStep == ASSUME JobInv, CountsFine, [Next]_vars PROVE CountsFine'
<1> SUFFICES ASSUME NEW i \in Jobs PROVE (CountFine(i) /\ CycleFine(i))'
  BY DEF CountsFine
<1>1. Lives(i)
  BY LifeStep DEF JobInv, TypedInv
<1>2. DispatchFine(i) /\ RowFine(i) /\ WorkFine(i) /\ CountFine(i) /\ CycleFine(i)
  BY DEF JobInv, Sent, RowsFine, CountsFine
<1> QED
  BY <1>1, <1>2, CountStep, CycleStep DEF JobInv, TypedInv

LEMMA CountsAlways == Spec => []CountsFine
  BY CountsInit, CountsStep, JobInvAlways, PTL DEF Spec

(* A settlement that was rolled back and redelivered counts once: the      *)
(* attempts that settled a job number no more than its settled messages.   *)
THEOREM SettlesOnce == Spec => []OneSettlementPerMessage
<1>1. JobInv /\ CountsFine => OneSettlementPerMessage
  <2> SUFFICES ASSUME JobInv, CountsFine, NEW i \in Jobs
               PROVE  Count(i, "succeeded") + Count(i, "delayed") + Count(i, "failed")
                        <= Cardinality({n \in 1 .. dispatched[i] : <<i, n>> \in processed})
    BY DEF OneSettlementPerMessage, Count
  <2>1. SettledOf(i) \subseteq 1 .. dispatched[i] /\ dispatched[i] \in Nat
    BY SettledFinite, RowTyped DEF JobInv, TypedInv
  <2>2. SettledOf(i) = {n \in 1 .. dispatched[i] : <<i, n>> \in processed}
    BY <2>1 DEF SettledOf
  <2> QED
    BY <2>2 DEF CountsFine, CountFine
<1> QED
  BY <1>1, JobInvAlways, CountsAlways, PTL

(* The retry counter of a job is the number of its attempts that were put  *)
(* off or failed and were retried, within the bound of automatic retries.  *)
THEOREM RetriesAdd == Spec => []RetryLedger
<1>1. JobInv /\ CountsFine => RetryLedger
  BY DEF RetryLedger, CountsFine, CountFine, Count, JobInv, Sent, DispatchFine
<1> QED
  BY <1>1, JobInvAlways, CountsAlways, PTL

(* A new cycle of the request budget begins only when a job that had       *)
(* failed is acquired again.                                               *)
THEOREM CyclesAdd == Spec => []CyclePerManualRetry
<1>1. CountsFine => CyclePerManualRetry
  BY DEF CountsFine, CycleFine, CyclePerManualRetry
<1> QED
  BY <1>1, CountsAlways, PTL

-----------------------------------------------------------------------------
(* What the users of a job see of it, and the promise made to them.        *)

Keeps(i) ==
  /\ status'[i] = status[i] /\ KeepsAsked(i) /\ KeepsMessages(i)
OnlyMoves(j) == \A i \in Jobs \ {j} : Keeps(i)

LEMMA KeptPublic ==
  ASSUME NEW i \in Jobs,
         status'[i] = status[i], cancel'[i].asked = cancel[i].asked,
         dispatched'[i] = dispatched[i], SettledOf(i)' = SettledOf(i)
  PROVE  Keeps(i)
  BY DEF Keeps, KeepsAsked, KeepsMessages

(* A step moves one job at most, however many there are.                   *)
LEMMA OneMoves ==
  ASSUME TypeOK, [Next]_vars
  PROVE  (\A i \in Jobs : Keeps(i)) \/ \E j \in Jobs : OnlyMoves(j)
<1> DEFINE Goal == (\A i \in Jobs : Keeps(i)) \/ \E j \in Jobs : OnlyMoves(j)
<1>0. RowsTypeOK
  BY DEF TypeOK
<1>1. ASSUME UNCHANGED <<status, cancel, dispatched, processed>> PROVE \A i \in Jobs : Keeps(i)
  BY <1>1 DEF Keeps, KeepsAsked, KeepsMessages, SettledOf
<1>2. ASSUME NEW j \in Jobs,
             \/ AcceptInsert(j) \/ CancelUnheld(j) \/ CancelHeld(j)
             \/ RequestRetry(j) \/ Redispatch(j)
      PROVE  OnlyMoves(j)
  <2> SUFFICES ASSUME NEW i \in Jobs \ {j} PROVE Keeps(i)
    BY DEF OnlyMoves
  <2>1. /\ status'[i] = status[i] /\ cancel'[i] = cancel[i]
        /\ dispatched'[i] = dispatched[i] /\ UNCHANGED processed
    BY <1>0, <1>2, DispatchedOne
    DEF AcceptInsert, CancelUnheld, CancelHeld, RequestRetry, Redispatch, RowsTypeOK, rows,
        outboxTable
  <2> QED
    BY <2>1, KeptPublic DEF SettledOf
<1>3. ASSUME NEW r \in Runners, Acquire(r) PROVE \E j \in Jobs : OnlyMoves(j)
  <2>1. PICK j \in Jobs : j = runner[r].msg[1]
    BY <1>3, RunnerTyped DEF Acquire, Rest
  <2>2. /\ status' = [status EXCEPT ![j] = "running"]
        /\ cancel' = [cancel EXCEPT ![j] = FencedCancel(j, LeaseTicks)]
        /\ UNCHANGED <<processed, dispatched>>
    BY <1>3, <2>1 DEF Acquire, outboxTable
  <2>3. \A i \in Jobs \ {j} : Keeps(i)
    BY <1>0, <2>2 DEF RowsTypeOK, Keeps, KeepsAsked, KeepsMessages, SettledOf
  <2> QED
    BY <2>3 DEF OnlyMoves
<1>4. ASSUME NEW t \in children, BeginRequest(t) \/ \E step \in {0, 1} : SaveCheckpoint(t, step)
      PROVE  \E j \in Jobs : OnlyMoves(j)
  <2>1. PICK j \in Jobs : j = t.job
    BY DEF TypeOK, ProcessesTypeOK
  <2>2. UNCHANGED <<status, dispatched, processed>>
    BY <1>4 DEF BeginRequest, SaveCheckpoint, outboxTable
  <2>3. cancel' = cancel \/ cancel' = [cancel EXCEPT ![j] = FencedCancel(j, lease[j].left)]
    BY <1>4, <2>1 DEF BeginRequest, SaveCheckpoint
  <2>4. \A i \in Jobs \ {j} : Keeps(i)
    BY <1>0, <2>2, <2>3 DEF RowsTypeOK, Keeps, KeepsAsked, KeepsMessages, SettledOf
  <2> QED
    BY <2>4 DEF OnlyMoves
<1>5. ASSUME NEW r \in Runners, NEW renew \in BOOLEAN, WatchLease(r, renew)
      PROVE  \E j \in Jobs : OnlyMoves(j)
  <2>1. PICK j \in Jobs : j = Token(r).job
    BY <1>5, RunnerTyped DEF WatchLease, Rest
  <2>2. /\ cancel' = [cancel EXCEPT ![j] = FencedCancel(j, lease[j].left)]
        /\ UNCHANGED <<status, dispatched, processed>>
    BY <1>5, <2>1 DEF WatchLease, outboxTable
  <2>3. \A i \in Jobs \ {j} : Keeps(i)
    BY <1>0, <2>2 DEF RowsTypeOK, Keeps, KeepsAsked, KeepsMessages, SettledOf
  <2> QED
    BY <2>3 DEF OnlyMoves
<1>6. ASSUME NEW r \in Runners, Complete(r) \/ FailCancelled(r) \/ Fail(r)
      PROVE  \E j \in Jobs : OnlyMoves(j)
  <2>1. PICK j \in Jobs, n \in Nat \ {0} : j = Token(r).job /\ runner[r].msg = <<j, n>>
    BY <1>6, RunnerTyped DEF Complete, FailCancelled, Fail, Settles, Rest, Messages, Token
  <2> SUFFICES ASSUME NEW i \in Jobs \ {j} PROVE Keeps(i)
    BY DEF OnlyMoves
  <2>2. SettledOf(i)' = SettledOf(i)
    BY <1>6, <2>1, RecordedOne DEF Complete, FailCancelled, Fail
  <2>3. CASE Complete(r)
    BY <1>0, <2>1, <2>2, <2>3, KeptPublic DEF Complete, RowsTypeOK, outboxTable
  <2>4. CASE FailCancelled(r)
    BY <1>0, <2>1, <2>2, <2>4, KeptPublic DEF FailCancelled, RowsTypeOK, outboxTable
  <2>5. CASE Fail(r)
    BY <1>0, <2>1, <2>2, <2>5, KeptPublic, DispatchedOne DEF Fail, RowsTypeOK, outboxTable
  <2> QED
    BY <1>6, <2>3, <2>4, <2>5
<1>7. ASSUME NEW r \in Runners, AcknowledgeCancelled(r) PROVE Goal
  <2>1. PICK j \in Jobs, n \in Nat \ {0} : runner[r].msg = <<j, n>>
    BY <1>7, RunnerTyped DEF AcknowledgeCancelled, Rest, Messages
  <2>2. UNCHANGED <<status, cancel, dispatched>>
    BY <1>7 DEF AcknowledgeCancelled, rows, outboxTable
  <2>3. UNCHANGED processed \/ Record(<<j, n>>)
    BY <1>7, <2>1 DEF AcknowledgeCancelled
  <2>4. CASE Record(<<j, n>>)
    BY <2>2, <2>4, RecordedOne, KeptPublic DEF OnlyMoves
  <2> QED
    BY <1>1, <2>2, <2>3, <2>4
<1>8. ASSUME Tick PROVE \A i \in Jobs : Keeps(i)
  <2> SUFFICES ASSUME NEW i \in Jobs PROVE Keeps(i)
    OBVIOUS
  <2>1. /\ cancel'[i] = [cancel[i] EXCEPT !.left = Countdown(cancel[i].left)]
        /\ UNCHANGED <<status, dispatched, processed>>
    BY <1>8 DEF Tick
  <2>2. cancel'[i].asked = cancel[i].asked
    BY <2>1, RowTyped DEF Cancels
  <2> QED
    BY <2>1, <2>2, KeptPublic DEF SettledOf
<1>9. CASE DatabaseStep
  BY <1>1, <1>2, <1>3, <1>4, <1>5, <1>6, <1>7, <1>8, <1>9
  DEF DatabaseStep, TransitionTopic, PublishPending, rows, outboxTable
<1> QED
  BY <1>1, <1>9, NextSplit DEF vars, tables, rows, outboxTable

(* Only a failed job is reopened; no cancel is taken back, and a cancelled *)
(* job is sent again by the operator alone.                                *)
THEOREM SettledStays == Spec => SettledStaysSettled
<1>1. JobInv /\ [Next]_vars =>
        [\A j \in Jobs :
           /\ status[j] \in Terminal =>
                \/ status'[j] = status[j]
                \/ status[j] = "failed" /\ status'[j] = "queued"
           /\ cancel[j].asked =>
                cancel'[j].asked /\ dispatched'[j] <= dispatched[j] + MaxRedispatches]_vars
  <2> SUFFICES ASSUME JobInv, [Next]_vars, NEW j \in Jobs
               PROVE  /\ status[j] \in Terminal =>
                           \/ status'[j] = status[j]
                           \/ status[j] = "failed" /\ status'[j] = "queued"
                      /\ cancel[j].asked =>
                           /\ cancel'[j].asked
                           /\ dispatched'[j] <= dispatched[j] + MaxRedispatches
    OBVIOUS
  <2>1. /\ Lives(j) /\ RowFine(j) /\ DispatchFine(j)
        /\ dispatched[j] \in Nat /\ retry[j].count \in Nat /\ MaxRedispatches \in Nat
    BY LifeStep, RowTyped, RedispatchAssumption DEF JobInv, TypedInv, RowsFine, Sent
  <2> USE DEF KeepsMessages, KeepsAsked, RowFine, DispatchFine, Live, Terminal
  <2>2. CASE Stays(j) \/ Stopped(j) \/ Started(j)
    BY <2>1, <2>2 DEF Stays, Stopped, Started, Unheld
  <2>3. CASE Inserted(j) \/ Reopened(j) \/ Resent(j)
    BY <2>1, <2>3 DEF Inserted, Reopened, Resent
  <2>4. ASSUME NEW n \in Nat \ {0},
               \/ PutOff(j, n) \/ Acknowledged(j, n)
               \/ \E o \in {"succeeded", "failed", "cancelled"} : Ended(j, n, o)
        PROVE  /\ status[j] \in Terminal => status'[j] = status[j]
               /\ cancel[j].asked => cancel'[j].asked /\ dispatched'[j] = dispatched[j]
    BY <2>1, <2>4 DEF PutOff, Acknowledged, Ended, Answers
  <2> QED
    BY <2>1, <2>2, <2>3, <2>4 DEF Lives
<1> QED
  BY <1>1, JobInvAlways, PTL DEF Spec, SettledStaysSettled

(* What a job is owed without redispatches: its last message, if that is   *)
(* not settled.                                                            *)
Unsettled(i) == {n \in 1 .. dispatched[i] : <<i, n>> \notin processed}
OwedFine ==
  \A i \in Jobs :
    /\ Cardinality(Unsettled(i)) =
         IF dispatched[i] > 0 /\ dispatched[i] \notin SettledOf(i) THEN 1 ELSE 0
    /\ status[i] \in Live => Cardinality(Unsettled(i)) = 1
    /\ status[i] \in {"absent"} \cup (Terminal \ {"cancelled"}) => Cardinality(Unsettled(i)) = 0

LEMMA OwedFacts == ASSUME MaxRedispatches = 0 PROVE JobInv => OwedFine
<1> SUFFICES ASSUME JobInv, NEW i \in Jobs
             PROVE  /\ Cardinality(Unsettled(i)) =
                         IF dispatched[i] > 0 /\ dispatched[i] \notin SettledOf(i) THEN 1 ELSE 0
                    /\ status[i] \in Live => Cardinality(Unsettled(i)) = 1
                    /\ status[i] \in {"absent"} \cup (Terminal \ {"cancelled"}) =>
                         Cardinality(Unsettled(i)) = 0
  BY DEF OwedFine
<1>1. /\ dispatched[i] \in Nat /\ retry[i].count \in Nat
      /\ DispatchFine(i) /\ SettledFine(i)
  BY RowTyped DEF JobInv, TypedInv, Sent
<1>2. \A n \in 1 .. dispatched[i] : n \in Unsettled(i) => n = dispatched[i]
  BY <1>1 DEF SettledFine, Unsettled, SettledOf
<1>3. dispatched[i] > 0 /\ dispatched[i] \notin SettledOf(i) => dispatched[i] \in Unsettled(i)
  BY <1>1 DEF Unsettled, SettledOf
<1>4. dispatched[i] = 0 \/ dispatched[i] \in SettledOf(i) => dispatched[i] \notin Unsettled(i)
  BY <1>1 DEF Unsettled, SettledOf
<1>5. Unsettled(i) \subseteq 1 .. dispatched[i]
  BY DEF Unsettled
<1>6. CASE dispatched[i] > 0 /\ dispatched[i] \notin SettledOf(i)
  <2>1. Unsettled(i) = {dispatched[i]}
    BY <1>2, <1>3, <1>5, <1>6
  <2>2. Cardinality(Unsettled(i)) = 1
    BY <2>1, FS_Singleton
  <2> QED
    BY <1>1, <1>6, <2>2 DEF DispatchFine, SettledFine, Live, Terminal
<1>7. CASE ~(dispatched[i] > 0 /\ dispatched[i] \notin SettledOf(i))
  <2>1. Unsettled(i) = {}
    BY <1>1, <1>2, <1>4, <1>5, <1>7
  <2>2. Cardinality(Unsettled(i)) = 0
    BY <2>1, FS_EmptySet
  <2>3. status[i] \notin Live
    BY <1>1, <1>7 DEF DispatchFine, Live
  <2> QED
    BY <1>7, <2>2, <2>3
<1> QED
  BY <1>6, <1>7

(* The step of JobExecution that moves job j, as a step of JobPromise.     *)
Asked == [i \in Jobs |-> cancel[i].asked]
Owed == [i \in Jobs |-> Cardinality(Unsettled(i))]

LEMMA KeptOwed ==
  ASSUME OwedFine, OwedFine', NEW i \in Jobs, KeepsMessages(i)
  PROVE  Owed'[i] = Owed[i]
  BY DEF OwedFine, KeepsMessages, Owed

(* The values of JobPromise's variables, and how they change at one job.   *)
LEMMA PublicTyped ==
  ASSUME JobInv, JobInv'
  PROVE  /\ DOMAIN status = Jobs /\ DOMAIN status' = Jobs
         /\ status = [i \in Jobs |-> status[i]] /\ status' = [i \in Jobs |-> status'[i]]
         /\ \A i \in Jobs : cancel[i].asked \in BOOLEAN /\ cancel'[i].asked \in BOOLEAN
<1>1. status \in [Jobs -> {"absent"} \cup Live \cup Terminal]
  BY DEF JobInv, TypedInv, TypeOK, RowsTypeOK
<1>2. status' \in [Jobs -> {"absent"} \cup Live \cup Terminal]
  BY DEF JobInv, TypedInv, TypeOK, RowsTypeOK
<1>3. cancel \in [Jobs -> Cancels] /\ cancel' \in [Jobs -> Cancels]
  BY DEF JobInv, TypedInv, TypeOK, RowsTypeOK
<1> QED
  BY <1>1, <1>2, <1>3 DEF Cancels

LEMMA OnlyMovesAt ==
  ASSUME JobInv, JobInv', OwedFine, OwedFine', NEW j \in Jobs, OnlyMoves(j)
  PROVE  /\ \A v : status'[j] = v => status' = [status EXCEPT ![j] = v]
         /\ \A v : cancel'[j].asked = v => Asked' = [Asked EXCEPT ![j] = v]
         /\ \A v : Owed'[j] = v => Owed' = [Owed EXCEPT ![j] = v]
<1>1. \A i \in Jobs \ {j} : /\ status'[i] = status[i] /\ cancel'[i].asked = cancel[i].asked
                            /\ Owed'[i] = Owed[i]
  BY KeptOwed DEF OnlyMoves, Keeps, KeepsAsked
<1>2. \A v : status'[j] = v => status' = [status EXCEPT ![j] = v]
  BY <1>1, PublicTyped
<1>3. \A v : cancel'[j].asked = v => Asked' = [Asked EXCEPT ![j] = v]
  BY <1>1 DEF Asked
<1>4. \A v : Owed'[j] = v => Owed' = [Owed EXCEPT ![j] = v]
  <2>1. Owed = [i \in Jobs |-> Owed[i]] /\ Owed' = [i \in Jobs |-> Owed'[i]]
    BY DEF Owed
  <2> QED
    BY <1>1, <2>1
<1> QED
  BY <1>2, <1>3, <1>4

LEMMA KeptAt ==
  ASSUME JobInv, JobInv', OwedFine, OwedFine', NEW j \in Jobs, OnlyMoves(j), Keeps(j)
  PROVE  UNCHANGED <<status, Asked, Owed>>
<1>1. status'[j] = status[j] /\ cancel'[j].asked = Asked[j] /\ Owed'[j] = Owed[j]
  BY KeptOwed DEF Keeps, KeepsAsked, Asked
<1>2. /\ status' = [status EXCEPT ![j] = status[j]]
      /\ Asked' = [Asked EXCEPT ![j] = Asked[j]] /\ Owed' = [Owed EXCEPT ![j] = Owed[j]]
  BY <1>1, OnlyMovesAt
<1> QED
  BY <1>2, PublicTyped DEF Asked, Owed

(* JobPromise's actions, with the values that refine its variables.       *)
LEMMA PromisedActions ==
  ASSUME NEW j \in Jobs
  PROVE  /\ Promise!Accept(j) <=>
              /\ status[j] \in {"absent", "failed"} /\ status' = [status EXCEPT ![j] = "queued"]
              /\ Owed' = [Owed EXCEPT ![j] = Owed[j] + 1] /\ UNCHANGED Asked
         /\ Promise!Start(j) <=>
              /\ status[j] \in {"queued"} /\ status' = [status EXCEPT ![j] = "running"]
              /\ UNCHANGED Asked \/ Asked' = [Asked EXCEPT ![j] = TRUE]
              /\ UNCHANGED Owed
         /\ Promise!AskCancel(j) <=>
              /\ status[j] = "running" /\ Asked' = [Asked EXCEPT ![j] = TRUE]
              /\ UNCHANGED <<status, Owed>>
         /\ Promise!CancelUnheld(j) <=>
              /\ status[j] \in {"queued", "running"}
              /\ status' = [status EXCEPT ![j] = "cancelled"]
              /\ ~Asked[j] /\ Asked' = [Asked EXCEPT ![j] = TRUE]
              /\ UNCHANGED Owed
         /\ Promise!Settle(j) <=>
              /\ ~Asked[j]
              /\ \E outcome \in {"succeeded", "partially_succeeded", "failed"} :
                   /\ status[j] \in {"running"} /\ status' = [status EXCEPT ![j] = outcome]
              /\ Owed' = [Owed EXCEPT ![j] = Owed[j] - 1] /\ UNCHANGED Asked
         /\ Promise!Delay(j) <=>
              /\ ~Asked[j]
              /\ status[j] \in {"running"} /\ status' = [status EXCEPT ![j] = "queued"]
              /\ UNCHANGED <<Asked, Owed>>
         /\ Promise!SettleCancelled(j) <=>
              /\ status[j] \in {"running"} /\ status' = [status EXCEPT ![j] = "cancelled"]
              /\ Asked' = [Asked EXCEPT ![j] = TRUE]
              /\ Owed' = [Owed EXCEPT ![j] = Owed[j] - 1]
         /\ Promise!Acknowledge(j) <=>
              /\ status[j] = "cancelled" /\ Owed[j] > 0
              /\ Owed' = [Owed EXCEPT ![j] = Owed[j] - 1] /\ UNCHANGED <<status, Asked>>
<1> USE DEF Promise!Move, Promise!Asked, Asked, Owed, Unsettled
<1>1. Promise!Accept(j) <=>
        /\ status[j] \in {"absent", "failed"} /\ status' = [status EXCEPT ![j] = "queued"]
        /\ Owed' = [Owed EXCEPT ![j] = Owed[j] + 1] /\ UNCHANGED Asked
  BY DEF Promise!Accept
<1>2. Promise!Start(j) <=>
        /\ status[j] \in {"queued"} /\ status' = [status EXCEPT ![j] = "running"]
        /\ UNCHANGED Asked \/ Asked' = [Asked EXCEPT ![j] = TRUE]
        /\ UNCHANGED Owed
  BY DEF Promise!Start
<1>3. Promise!AskCancel(j) <=>
        /\ status[j] = "running" /\ Asked' = [Asked EXCEPT ![j] = TRUE]
        /\ UNCHANGED <<status, Owed>>
  BY DEF Promise!AskCancel
<1>4. Promise!CancelUnheld(j) <=>
        /\ status[j] \in {"queued", "running"}
        /\ status' = [status EXCEPT ![j] = "cancelled"]
        /\ ~Asked[j] /\ Asked' = [Asked EXCEPT ![j] = TRUE]
        /\ UNCHANGED Owed
  BY DEF Promise!CancelUnheld
<1>5. Promise!Settle(j) <=>
        /\ ~Asked[j]
        /\ \E outcome \in {"succeeded", "partially_succeeded", "failed"} :
             /\ status[j] \in {"running"} /\ status' = [status EXCEPT ![j] = outcome]
        /\ Owed' = [Owed EXCEPT ![j] = Owed[j] - 1] /\ UNCHANGED Asked
  BY DEF Promise!Settle, Promise!Outcomes
<1>6. Promise!Delay(j) <=>
        /\ ~Asked[j]
        /\ status[j] \in {"running"} /\ status' = [status EXCEPT ![j] = "queued"]
        /\ UNCHANGED <<Asked, Owed>>
  BY DEF Promise!Delay
<1>7. Promise!SettleCancelled(j) <=>
        /\ status[j] \in {"running"} /\ status' = [status EXCEPT ![j] = "cancelled"]
        /\ Asked' = [Asked EXCEPT ![j] = TRUE]
        /\ Owed' = [Owed EXCEPT ![j] = Owed[j] - 1]
  BY DEF Promise!SettleCancelled
<1>8. Promise!Acknowledge(j) <=>
        /\ status[j] = "cancelled" /\ Owed[j] > 0
        /\ Owed' = [Owed EXCEPT ![j] = Owed[j] - 1] /\ UNCHANGED <<status, Asked>>
  BY DEF Promise!Acknowledge
<1> QED
  BY <1>1, <1>2, <1>3, <1>4, <1>5, <1>6, <1>7, <1>8

LEMMA MoveIsPromised ==
  ASSUME MaxRedispatches = 0, JobInv, JobInv', OwedFine, OwedFine', [Next]_vars,
         NEW j \in Jobs, OnlyMoves(j)
  PROVE  Promise!Next \/ UNCHANGED <<status, Asked, Owed>>
<1>0. /\ Lives(j) /\ RowFine(j) /\ DispatchFine(j) /\ SettledFine(j)
      /\ dispatched[j] \in Nat /\ retry[j].count \in Nat
      /\ cancel[j].asked \in BOOLEAN /\ cancel'[j].asked \in BOOLEAN
      /\ \A n \in Nat \ {0} : InHand(j, n) => n <= dispatched[j]
  BY LifeStep, RowTyped, PublicTyped, SettledNumbered DEF JobInv, TypedInv, RowsFine, Sent
<1>1. /\ Asked[j] = cancel[j].asked /\ Asked'[j] = cancel'[j].asked
      /\ Owed[j] = Cardinality(Unsettled(j)) /\ Owed'[j] = Cardinality(Unsettled(j))'
  BY DEF Asked, Owed
<1>2. /\ Owed[j] = IF dispatched[j] > 0 /\ dispatched[j] \notin SettledOf(j) THEN 1 ELSE 0
      /\ Owed'[j] = IF dispatched'[j] > 0 /\ dispatched'[j] \notin SettledOf(j)' THEN 1 ELSE 0
      /\ status[j] \in Live => Owed[j] = 1
      /\ status'[j] \in Live => Owed'[j] = 1
      /\ status[j] \in {"absent"} \cup (Terminal \ {"cancelled"}) => Owed[j] = 0
      /\ status'[j] \in {"absent"} \cup (Terminal \ {"cancelled"}) => Owed'[j] = 0
  BY <1>1 DEF OwedFine
<1>3. /\ status' = [status EXCEPT ![j] = status'[j]]
      /\ Asked' = [Asked EXCEPT ![j] = Asked'[j]]
      /\ Owed' = [Owed EXCEPT ![j] = Owed'[j]]
  BY <1>1, OnlyMovesAt
<1>4. ASSUME cancel'[j].asked = cancel[j].asked PROVE UNCHANGED Asked
  BY <1>1, <1>3, <1>4 DEF Asked
<1>5. ASSUME KeepsMessages(j) PROVE UNCHANGED Owed /\ Owed'[j] = Owed[j]
  BY <1>3, <1>5, KeptOwed DEF Owed
<1>6. ASSUME status'[j] = status[j] PROVE UNCHANGED status
  BY <1>3, <1>6, PublicTyped
<1> USE PromisedActions DEF Live, Terminal
<1>7. CASE Stays(j)
  <2>1. UNCHANGED <<status, Owed>>
    BY <1>5, <1>6, <1>7 DEF Stays
  <2>2. UNCHANGED Asked \/ (status[j] = "running" /\ Asked'[j] = TRUE)
    BY <1>0, <1>1, <1>4, <1>7 DEF Stays, KeepsAsked
  <2> QED
    BY <1>3, <2>1, <2>2 DEF Promise!Next
<1>8. CASE Inserted(j) \/ Reopened(j)
  <2>1. status[j] \in {"absent", "failed"} /\ status'[j] = "queued" /\ UNCHANGED Asked
    BY <1>4, <1>8 DEF Inserted, Reopened, KeepsAsked
  <2>2. Owed'[j] = Owed[j] + 1
    BY <1>2, <2>1
  <2>3. Promise!Accept(j)
    BY <1>3, <2>1, <2>2
  <2> QED
    BY <2>3 DEF Promise!Next
<1>9. CASE Stopped(j)
  <2>1. /\ status[j] \in {"queued", "running"} /\ status'[j] = "cancelled"
        /\ ~Asked[j] /\ Asked'[j] = TRUE /\ UNCHANGED Owed
    BY <1>0, <1>1, <1>5, <1>9 DEF Stopped, Unheld
  <2>2. Promise!CancelUnheld(j)
    BY <1>3, <2>1
  <2> QED
    BY <2>2 DEF Promise!Next
<1>10. CASE Resent(j)
  BY <1>0, <1>10 DEF Resent, DispatchFine
<1>11. CASE Started(j)
  <2>1. status[j] \in {"queued", "running"} /\ status'[j] = "running" /\ UNCHANGED Owed
    BY <1>5, <1>11 DEF Started
  <2>2. UNCHANGED Asked \/ Asked'[j] = TRUE
    BY <1>0, <1>1, <1>4, <1>11 DEF Started, KeepsAsked
  <2>3. CASE status[j] = "queued"
    <3>1. Promise!Start(j)
      BY <1>3, <2>1, <2>2, <2>3
    <3> QED
      BY <3>1 DEF Promise!Next
  <2>4. CASE status[j] = "running"
    <3>1. UNCHANGED status
      BY <1>6, <2>1, <2>4
    <3>2. UNCHANGED Asked \/ Promise!AskCancel(j)
      BY <1>3, <2>1, <2>2, <2>4, <3>1
    <3> QED
      BY <2>1, <3>1, <3>2 DEF Promise!Next
  <2> QED
    BY <2>1, <2>3, <2>4
<1>12. ASSUME NEW n \in Nat \ {0}, PutOff(j, n) PROVE Promise!Next
  <2>1. /\ status[j] = "running" /\ status'[j] = "queued" /\ ~Asked[j] /\ UNCHANGED Asked
    BY <1>1, <1>4, <1>12 DEF PutOff, Answers, KeepsAsked
  <2>2. Owed[j] = 1 /\ Owed'[j] = 1
    BY <1>2, <2>1
  <2>3. UNCHANGED Owed
    <3>1. Owed'[j] = Owed[j]
      BY <2>2
    <3>2. Owed = [i \in Jobs |-> Owed[i]]
      BY DEF Owed
    <3> QED
      BY <1>3, <3>1, <3>2
  <2>4. Promise!Delay(j)
    BY <1>3, <2>1, <2>3
  <2> QED
    BY <2>4 DEF Promise!Next
<1>13. ASSUME NEW n \in Nat \ {0}, NEW o \in {"succeeded", "failed", "cancelled"}, Ended(j, n, o)
       PROVE  Promise!Next
  <2>1. /\ status[j] = "running" /\ n \notin SettledOf(j) /\ n \in SettledOf(j)'
        /\ dispatched'[j] = dispatched[j] /\ InHand(j, n)
    BY <1>13 DEF Ended, Answers
  <2>2. n = dispatched[j]
    BY <1>0, <2>1 DEF SettledFine
  <2>3. Owed[j] = 1 /\ Owed'[j] = 0
    BY <1>2, <2>1, <2>2
  <2>4. CASE status'[j] = "cancelled" /\ cancel'[j].asked
    <3>1. Promise!SettleCancelled(j)
      BY <1>0, <1>1, <1>3, <2>1, <2>3, <2>4
    <3> QED
      BY <3>1 DEF Promise!Next
  <2>5. CASE ~cancel[j].asked /\ KeepsAsked(j)
              /\ status'[j] \in {"succeeded", "partially_succeeded", "failed"}
    <3>1. ~Asked[j] /\ UNCHANGED Asked
      BY <1>1, <1>4, <2>5 DEF KeepsAsked
    <3>2. Promise!Settle(j)
      BY <1>3, <2>1, <2>3, <2>5, <3>1
    <3> QED
      BY <3>2 DEF Promise!Next
  <2> QED
    BY <1>13, <2>4, <2>5 DEF Ended
<1>14. ASSUME NEW n \in Nat \ {0}, Acknowledged(j, n)
       PROVE  Promise!Next \/ UNCHANGED <<status, Asked, Owed>>
  <2>1. /\ status[j] = "cancelled" /\ UNCHANGED <<status, Asked>> /\ InHand(j, n)
        /\ dispatched'[j] = dispatched[j] /\ SettledOf(j)' = SettledOf(j) \cup {n}
    BY <1>4, <1>6, <1>14 DEF Acknowledged, KeepsAsked
  <2>2. CASE n \in SettledOf(j)
    <3>1. KeepsMessages(j)
      BY <2>1, <2>2 DEF KeepsMessages
    <3> QED
      BY <1>5, <2>1, <3>1
  <2>3. CASE n \notin SettledOf(j)
    <3>1. n = dispatched[j]
      BY <1>0, <2>1, <2>3 DEF SettledFine
    <3>2. Owed[j] = 1 /\ Owed'[j] = 0
      BY <1>2, <2>1, <2>3, <3>1
    <3>3. Promise!Acknowledge(j)
      BY <1>3, <2>1, <3>2
    <3> QED
      BY <3>3 DEF Promise!Next
  <2> QED
    BY <2>2, <2>3
<1> QED
  BY <1>0, <1>7, <1>8, <1>9, <1>10, <1>11, <1>12, <1>13, <1>14 DEF Lives

(* The job pipeline keeps JobPromise, for any number of jobs, runners,     *)
(* leases, crashes, retries and topic changes, if the operator redispatches *)
(* nothing: users see only its steps, and each job owes what it promises.  *)
THEOREM PromiseKept == ASSUME MaxRedispatches = 0 PROVE Spec => KeepsPromise
<1>1. Init => Promise!Init
  <2> SUFFICES ASSUME Init PROVE Promise!Init
    OBVIOUS
  <2>1. /\ status = [i \in Jobs |-> "absent"]
        /\ \A i \in Jobs : cancel[i].asked = FALSE /\ dispatched[i] = 0
    BY DEF Init
  <2>2. \A i \in Jobs : Cardinality(Unsettled(i)) = 0
    <3> SUFFICES ASSUME NEW i \in Jobs PROVE Cardinality(Unsettled(i)) = 0
      OBVIOUS
    <3>1. Unsettled(i) = {}
      BY <2>1 DEF Unsettled
    <3> QED
      BY <3>1, FS_EmptySet
  <2>3. Asked = [i \in Jobs |-> FALSE] /\ Owed = [i \in Jobs |-> 0]
    BY <2>1, <2>2 DEF Asked, Owed
  <2> QED
    BY <2>1, <2>3 DEF Promise!Init, Asked, Owed, Unsettled
<1>2. JobInv => OwedFine
  BY OwedFacts
<1>3. JobInv /\ JobInv' /\ OwedFine /\ OwedFine' /\ [Next]_vars => [Promise!Next]_(Promise!vars)
  <2> SUFFICES ASSUME JobInv, JobInv', OwedFine, OwedFine', [Next]_vars
               PROVE  Promise!Next \/ UNCHANGED Promise!vars
    OBVIOUS
  <2>1. ASSUME UNCHANGED <<status, Asked, Owed>> PROVE UNCHANGED Promise!vars
    BY <2>1 DEF Promise!vars, Asked, Owed, Unsettled
  <2>2. CASE \A i \in Jobs : Keeps(i)
    <3>1. UNCHANGED <<status, Asked, Owed>>
      <4>1. \A i \in Jobs : status'[i] = status[i] /\ cancel'[i].asked = cancel[i].asked
                            /\ Cardinality(Unsettled(i))' = Cardinality(Unsettled(i))
        BY <2>2 DEF Keeps, KeepsAsked, KeepsMessages, OwedFine
      <4> QED
        BY <4>1, PublicTyped DEF Asked, Owed
    <3> QED
      BY <2>1, <3>1
  <2>3. CASE \E j \in Jobs : OnlyMoves(j)
    BY <2>1, <2>3, MoveIsPromised
  <2> QED
    BY <2>2, <2>3, OneMoves DEF JobInv, TypedInv
<1> QED
  BY <1>1, <1>2, <1>3, JobInvAlways, PTL DEF Spec, KeepsPromise, Promise!Spec

-----------------------------------------------------------------------------
(* What a step leaves in the hands of runner r.                            *)

HandKept(r) ==
  /\ runner'[r].pc = runner[r].pc /\ runner'[r].msg = runner[r].msg
  /\ runner'[r].report = runner[r].report
HandElsewhere(r) == runner'[r].pc \notin {"handled", "reporting"}
HandHandled(r) == runner'[r].pc = "handled" /\ runner'[r].msg \in processed'
HandReports(r) ==
  /\ runner'[r].pc = "reporting" /\ runner'[r].msg = runner[r].msg /\ runner[r].msg[1] \in Jobs
  /\ runner'[r].report = "stopped" => cancel'[runner[r].msg[1]].asked
Hand(r) == HandKept(r) \/ HandElsewhere(r) \/ HandHandled(r) \/ HandReports(r)

LEMMA HandOfStates ==
  ASSUME NEW x \in RunnerStates
  PROVE  /\ \A pc : [x EXCEPT !.pc = pc].pc = pc /\ [x EXCEPT !.pc = pc].msg = x.msg
         /\ \A pc, m : [x EXCEPT !.pc = pc, !.msg = m].pc = pc
         /\ \A pc, m : [x EXCEPT !.pc = pc, !.epoch = m].pc = pc
         /\ \A report, wait :
              LET y == [x EXCEPT !.pc = "reporting", !.report = report, !.wait = wait] IN
              y.pc = "reporting" /\ y.report = report /\ y.msg = x.msg
         /\ \A wait : LET y == [x EXCEPT !.wait = wait] IN
              y.pc = x.pc /\ y.msg = x.msg /\ y.report = x.report
  BY DEF RunnerStates

LEMMA HandStep ==
  ASSUME TypeOK, [Next]_vars, NEW r \in Runners
  PROVE  Hand(r)
<1>0. runner \in [Runners -> RunnerStates] /\ runner[r] \in RunnerStates
  BY RunnerTyped DEF TypeOK, ProcessesTypeOK
<1>1. ASSUME runner'[r] = runner[r] PROVE Hand(r)
  BY <1>1 DEF Hand, HandKept
<1>2. ASSUME NEW pc, NEW wait, runner' = [runner EXCEPT ![r] = Resting(pc, wait)], pc \in Rest
      PROVE  Hand(r)
  BY <1>0, <1>2 DEF Resting, Rest, Hand, HandElsewhere
<1>3. ASSUME NEW q \in Runners, NEW x, runner' = [runner EXCEPT ![q] = x], q # r PROVE Hand(r)
  BY <1>0, <1>1, <1>3
<1>4. ASSUME NEW q \in Runners, NEW pc \in Rest, Drop(q, pc) PROVE Hand(r)
  BY <1>2, <1>3, <1>4 DEF Drop
<1>5. ASSUME NEW q \in Runners, NEW wait, Defer(q, wait) PROVE Hand(r)
  <2>1. runner' = [runner EXCEPT ![q] = Resting("deferred", wait)]
          \/ runner' = [runner EXCEPT ![q] = Resting("idle", 0)]
    BY <1>5 DEF Defer
  <2> QED
    BY <1>2, <1>3, <2>1 DEF Rest
<1>6. ASSUME NEW q \in Runners, NEW pc, Goto(q, pc), pc \notin {"handled", "reporting"}
      PROVE  Hand(r)
  <2>1. q = r => runner'[r].pc = pc
    BY <1>0, <1>6, HandOfStates DEF Goto
  <2>2. q # r => runner'[r] = runner[r]
    BY <1>0, <1>6 DEF Goto
  <2> QED
    BY <1>1, <1>6, <2>1, <2>2 DEF Hand, HandElsewhere
<1>7. ASSUME NEW q \in Runners, Goto(q, "handled"), runner[q].msg \in processed' PROVE Hand(r)
  <2>1. q = r => runner'[r].pc = "handled" /\ runner'[r].msg = runner[r].msg
    BY <1>0, <1>7, HandOfStates DEF Goto
  <2>2. q # r => runner'[r] = runner[r]
    BY <1>0, <1>7 DEF Goto
  <2> QED
    BY <1>1, <1>7, <2>1, <2>2 DEF Hand, HandHandled
<1>8. ASSUME NEW q \in Runners, NEW report, NEW wait, ToReport(q, report, wait),
             runner[q].pc \notin Rest,
             report = "stopped" => cancel'[runner[q].msg[1]].asked
      PROVE  Hand(r)
  <2>1. q = r => /\ runner'[r].pc = "reporting" /\ runner'[r].msg = runner[r].msg
                 /\ runner'[r].report = report
    BY <1>0, <1>8, HandOfStates DEF ToReport
  <2>2. q # r => runner'[r] = runner[r]
    BY <1>0, <1>8 DEF ToReport
  <2>3. runner[q].msg[1] \in Jobs
    BY <1>8, RunnerTyped
  <2> QED
    BY <1>1, <1>8, <2>1, <2>2, <2>3 DEF Hand, HandReports
<1>9. ASSUME NEW q \in Runners, Deliver(q) PROVE Hand(r)
  <2>1. CASE CheckProcessed(q)
    <3>1. CASE runner[q].msg \in processed
      BY <1>7, <2>1, <3>1 DEF CheckProcessed
    <3>2. CASE runner[q].msg \notin processed
      BY <1>6, <2>1, <3>2 DEF CheckProcessed
    <3> QED
      BY <3>1, <3>2
  <2>2. CASE AcknowledgeCancelled(q)
    <3>1. \/ Record(runner[q].msg) /\ Goto(q, "handled")
          \/ Goto(q, "admitted")
      BY <2>2 DEF AcknowledgeCancelled
    <3> QED
      BY <1>6, <1>7, <3>1 DEF Record
  <2>3. CASE Acquire(q)
    <3>1. PICK n : runner' = [runner EXCEPT ![q].pc = "acquired", ![q].epoch = n]
      BY <2>3 DEF Acquire
    <3>2. q = r => runner'[r].pc = "acquired"
      BY <1>0, <3>1, HandOfStates
    <3>3. q # r => runner'[r] = runner[r]
      BY <1>0, <3>1
    <3> QED
      BY <1>1, <3>2, <3>3 DEF Hand, HandElsewhere
  <2>4. CASE AcquireRefused(q) \/ StartChild(q)
    BY <1>6, <2>4 DEF AcquireRefused, StartChild
  <2>5. CASE Refused(q)
    <3>1. \/ \E n : Defer(q, n)
          \/ \E pc \in Rest : Drop(q, pc)
      BY <2>5 DEF Refused, Rest
    <3> QED
      BY <1>4, <1>5, <3>1
  <2>6. CASE RecoverAiCallsRaises(q)
    BY <1>4, <2>6 DEF RecoverAiCallsRaises, Rest
  <2>7. CASE NoHandler(q)
    BY <1>8, <2>7 DEF NoHandler, Rest
  <2> QED
    BY <1>9, <2>1, <2>2, <2>3, <2>4, <2>5, <2>6, <2>7 DEF Deliver
<1>10. ASSUME NEW q \in Runners, Settle(q) PROVE Hand(r)
  <2>1. CASE Complete(q) \/ FailCancelled(q) \/ Fail(q)
    <3>1. Settled(q) /\ runner[q].msg \in processed'
      BY <2>1 DEF Complete, FailCancelled, Fail, Record
    <3>2. [Resting("handled", 0) EXCEPT !.msg = runner[q].msg].pc = "handled"
          /\ [Resting("handled", 0) EXCEPT !.msg = runner[q].msg].msg = runner[q].msg
      BY DEF Resting
    <3>3. q = r => runner'[r].pc = "handled" /\ runner'[r].msg = runner[r].msg
      BY <1>0, <3>1, <3>2 DEF Settled
    <3>4. q # r => runner'[r] = runner[r]
      BY <1>0, <3>1 DEF Settled
    <3> QED
      BY <1>1, <3>1, <3>3, <3>4 DEF Hand, HandHandled
  <2>2. CASE SettleRaises(q)
    BY <1>4, <2>2 DEF SettleRaises, Rest
  <2> QED
    BY <1>10, <2>1, <2>2 DEF Settle
<1>11. ASSUME NEW q \in Runners, NEW renew \in BOOLEAN, WatchLease(q, renew) PROVE Hand(r)
  <2>1. CASE ~StopsChild(Token(q).job)
    BY <1>1, <1>11, <2>1 DEF WatchLease
  <2>2. CASE StopsChild(Token(q).job)
    <3>1. PICK j \in Jobs : j = runner[q].msg[1] /\ j = Token(q).job
      BY <1>11, RunnerTyped DEF WatchLease, Rest, Token
    <3>2. cancel'[j].asked
      BY <1>11, <2>2, <3>1 DEF WatchLease, StopsChild, TypeOK, RowsTypeOK
    <3>3. ToReport(q, "stopped", 0) /\ runner[q].pc \notin Rest
      BY <1>11, <2>2 DEF WatchLease, Rest
    <3> QED
      BY <1>8, <3>1, <3>2, <3>3
  <2> QED
    BY <2>1, <2>2
<1>12. ASSUME NEW q \in Runners, ChildEnds(q) PROVE Hand(r)
  <2>1. PICK report \in Reports \ {"none", "stopped"} :
          ToReport(q, report, IF report = "transient" THEN RetryTicks ELSE 0)
    BY <1>12 DEF ChildEnds
  <2>2. runner[q].pc \notin Rest
    BY <1>12 DEF ChildEnds, Rest
  <2> QED
    BY <1>8, <2>1, <2>2
<1>13. ASSUME NEW q \in Runners, LeaseLost(q) \/ ChildCrashes(q) PROVE Hand(r)
  <2>1. \E n : Defer(q, n)
    BY <1>13 DEF LeaseLost, ChildCrashes, DeferAfterChildExit
  <2> QED
    BY <1>5, <2>1
<1>14. ASSUME NEW q \in Runners,
              \/ HostNext(q) \/ Shutdown(q) \/ Restart(q)
              \/ \E orphaned \in BOOLEAN : Crash(q, orphaned)
       PROVE  Hand(r)
  <2>1. \E pc \in Rest : Drop(q, pc)
    BY <1>14 DEF HostNext, Shutdown, Restart, Crash, Rest
  <2> QED
    BY <1>4, <2>1
<1>15. ASSUME NEW q \in Runners, NEW m, HostPick(q, m) PROVE Hand(r)
  <2>1. runner' = [runner EXCEPT ![q].pc = "fetched", ![q].msg = m]
    BY <1>15 DEF HostPick
  <2>2. q = r => runner'[r].pc = "fetched"
    BY <1>0, <2>1, HandOfStates
  <2>3. q # r => runner'[r] = runner[r]
    BY <1>0, <2>1
  <2> QED
    BY <1>1, <2>2, <2>3 DEF Hand, HandElsewhere
<1>16. CASE Fetch
  <2>1. PICK m : runner' = [runner EXCEPT ![Worker].pc = "fetched", ![Worker].msg = m]
    BY <1>16 DEF Fetch
  <2>2. Worker = r => runner'[r].pc = "fetched"
    BY <1>0, <2>1, HandOfStates
  <2>3. Worker # r => runner'[r] = runner[r]
    BY <1>0, <2>1
  <2> QED
    BY <1>1, <2>2, <2>3 DEF Hand, HandElsewhere
<1>17. CASE PublishFails \/ Commit \/ Wake
  <2>1. \E pc \in Rest : Drop(Worker, pc)
    BY <1>17 DEF PublishFails, Commit, Wake, Rest
  <2> QED
    BY <1>4, <2>1 DEF Runners
<1>18. CASE Tick
  <2>1. runner'[r] = [runner[r] EXCEPT !.wait = Countdown(runner[r].wait)]
    BY <1>18 DEF Tick
  <2> QED
    BY <1>0, <2>1, HandOfStates DEF Hand, HandKept
<1>19. ASSUME UNCHANGED runner PROVE Hand(r)
  BY <1>1, <1>19
<1>20. ASSUME NEW q \in Runners, RunnerStep(q) PROVE Hand(r)
  BY <1>9, <1>10, <1>11, <1>12, <1>13, <1>14, <1>15, <1>20 DEF RunnerStep
<1>21. ASSUME NEW j \in Jobs, Request(j) PROVE Hand(r)
  BY <1>19, <1>21 DEF Request, AcceptRead, AcceptInsert, CancelUnheld, CancelHeld, RequestRetry,
                      Redispatch
<1>22. ASSUME NEW t \in children, Child(t) PROVE Hand(r)
  BY <1>19, <1>22 DEF Child, BeginRequest, SaveCheckpoint, OrphanExits
<1> QED
  BY <1>16, <1>17, <1>18, <1>19, <1>20, <1>21, <1>22
  DEF Next, TransitionTopic, PublishPending, vars

(* No step takes a cancel back, and no step takes a message out of the     *)
(* inbox.                                                                  *)
LEMMA CancelStays ==
  ASSUME TypeOK, RowsFine, [Next]_vars, NEW i \in Jobs, cancel[i].asked
  PROVE  cancel'[i].asked
<1>1. Lives(i) /\ RowFine(i)
  BY LifeStep DEF RowsFine
<1> QED
  BY <1>1 DEF Lives, Stays, Inserted, Stopped, Reopened, Resent, Started, PutOff, Ended,
              Acknowledged, KeepsAsked, RowFine

StoppedFine ==
  \A r \in Runners :
    runner[r].pc = "reporting" =>
      runner[r].msg[1] \in Jobs /\ (runner[r].report = "stopped" => cancel[runner[r].msg[1]].asked)

(* A child is reported as stopped only while the cancel that stopped it    *)
(* stands, until its job is settled: a job never succeeds by being stopped. *)
THEOREM StoppedCancelled == Spec => []StoppedChildIsCancelled
<1>1. Init => StoppedFine
  BY DEF Init, StoppedFine, Resting
<1>2. TypedInv /\ RowsFine /\ StoppedFine /\ [Next]_vars => StoppedFine'
  <2> SUFFICES ASSUME TypeOK, RowsFine, StoppedFine, [Next]_vars, NEW r \in Runners,
                      runner'[r].pc = "reporting"
               PROVE  /\ runner'[r].msg[1] \in Jobs
                      /\ runner'[r].report = "stopped" => cancel'[runner'[r].msg[1]].asked
    BY DEF StoppedFine, TypedInv
  <2>1. HandKept(r) \/ HandReports(r)
    BY HandStep DEF Hand, HandElsewhere, HandHandled
  <2> QED
    BY <2>1, CancelStays DEF HandKept, HandReports, StoppedFine
<1>3. StoppedFine => StoppedChildIsCancelled
  BY DEF StoppedFine, StoppedChildIsCancelled, Token
<1> QED
  BY <1>1, <1>2, <1>3, TypedAlways, RowsFineAlways, PTL DEF Spec

(* A child whose lease was taken over writes no row and settles nothing.   *)
THEOREM SupersededFenced == Spec => SupersededChildIsFenced
<1>1. [Next]_vars =>
        [\A t \in children :
           lease[t.job].epoch # t.epoch /\ Child(t) => UNCHANGED <<rows, processed>>]_vars
  BY DEF Child, BeginRequest, SaveCheckpoint, OrphanExits, Current
<1> QED
  BY <1>1, PTL DEF Spec, SupersededChildIsFenced

-----------------------------------------------------------------------------
(* Messages on their way: a message is in the outbox until it is published *)
(* and in the partition until its offset is committed, after it is settled. *)

LogHas(m) == \E k \in DOMAIN log : log[k] = m

LEMMA OutboxGrows ==
  ASSUME TypeOK, [Next]_vars
  PROVE  /\ processed \subseteq processed'
         /\ PublishPending \/ unpublished \subseteq unpublished'
         /\ \A i \in Jobs : \/ dispatched'[i] = dispatched[i]
                            \/ /\ dispatched'[i] = dispatched[i] + 1
                               /\ <<i, dispatched'[i]>> \in unpublished'
<1> DEFINE Sends == \A i \in Jobs : \/ dispatched'[i] = dispatched[i]
                                    \/ /\ dispatched'[i] = dispatched[i] + 1
                                       /\ <<i, dispatched'[i]>> \in unpublished'
<1>1. ASSUME NEW j \in Jobs, NEW delay, Dispatch(j, delay)
      PROVE  Sends /\ unpublished \subseteq unpublished'
  <2>1. \A i \in Jobs : dispatched'[i] = IF i = j THEN dispatched[i] + 1 ELSE dispatched[i]
    BY <1>1, DispatchedOne
  <2>2. unpublished' = unpublished \cup {<<j, dispatched[j] + 1>>}
    BY <1>1 DEF Dispatch
  <2> QED
    BY <2>1, <2>2
<1>2. ASSUME UNCHANGED outboxTable PROVE Sends /\ unpublished \subseteq unpublished'
  BY <1>2 DEF outboxTable
<1>3. ASSUME NEW j \in Jobs,
             \/ AcceptInsert(j) \/ CancelUnheld(j) \/ CancelHeld(j)
             \/ RequestRetry(j) \/ Redispatch(j)
      PROVE  Sends /\ unpublished \subseteq unpublished' /\ UNCHANGED processed
  <2>1. UNCHANGED outboxTable \/ Dispatch(j, 0)
    BY <1>3 DEF AcceptInsert, CancelUnheld, CancelHeld, RequestRetry, Redispatch
  <2>2. UNCHANGED processed
    BY <1>3 DEF AcceptInsert, CancelUnheld, CancelHeld, RequestRetry, Redispatch
  <2> QED
    BY <1>1, <1>2, <2>1, <2>2
<1>4. ASSUME NEW r \in Runners, Complete(r) \/ FailCancelled(r) \/ Fail(r)
      PROVE  Sends /\ unpublished \subseteq unpublished' /\ processed \subseteq processed'
  <2>1. Token(r).job \in Jobs
    BY <1>4, RunnerTyped DEF Complete, FailCancelled, Fail, Settles, Rest
  <2>2. Record(runner[r].msg) /\ (UNCHANGED outboxTable \/ Dispatch(Token(r).job, runner[r].wait))
    BY <1>4 DEF Complete, FailCancelled, Fail
  <2> QED
    BY <1>1, <1>2, <2>1, <2>2 DEF Record
<1>5. ASSUME NEW r \in Runners, AcknowledgeCancelled(r)
      PROVE  UNCHANGED outboxTable /\ processed \subseteq processed'
  BY <1>5 DEF AcknowledgeCancelled, Record
<1>6. CASE DatabaseStep
  <2>1. CASE PublishPending
    BY <2>1 DEF PublishPending
  <2>2. CASE Tick
    BY <2>2 DEF Tick
  <2>3. ASSUME NEW r \in Runners, Acquire(r) \/ \E renew \in BOOLEAN : WatchLease(r, renew)
        PROVE  UNCHANGED <<outboxTable, processed>>
    BY <2>3 DEF Acquire, WatchLease
  <2>4. ASSUME NEW t \in children, BeginRequest(t) \/ \E step \in {0, 1} : SaveCheckpoint(t, step)
        PROVE  UNCHANGED <<outboxTable, processed>>
    BY <2>4 DEF BeginRequest, SaveCheckpoint
  <2>5. ASSUME NEW target, TransitionTopic(target) PROVE UNCHANGED <<outboxTable, processed>>
    BY <2>5 DEF TransitionTopic
  <2> QED
    BY <1>2, <1>3, <1>4, <1>5, <1>6, <2>1, <2>2, <2>3, <2>4, <2>5 DEF DatabaseStep
<1>7. CASE UNCHANGED tables
  BY <1>2, <1>7 DEF tables
<1> QED
  BY <1>6, <1>7, NextSplit DEF vars, tables

(* A publish puts every message it takes from the outbox in the partition. *)
LEMMA BatchIsWhole ==
  ASSUME TypeOK, NEW batch \in Orders(Pending), NEW m \in Pending
  PROVE  \E k \in DOMAIN batch : batch[k] = m
<1>1. IsFiniteSet(Pending) /\ Cardinality(Pending) \in Nat
  BY PendingFacts
<1>2. batch \in [1 .. Cardinality(Pending) -> Pending]
      /\ \A a, b \in DOMAIN batch : a # b => batch[a] # batch[b]
  BY DEF Orders
<1>3. batch \in Injection(1 .. Cardinality(Pending), Pending)
  BY <1>2 DEF Injection, IsInjective
<1>4. Cardinality(1 .. Cardinality(Pending)) = Cardinality(Pending)
  BY <1>1, FS_Interval
<1>5. batch \in Surjection(1 .. Cardinality(Pending), Pending)
  BY <1>1, <1>3, <1>4, FS_Injection
<1> QED
  BY <1>2, <1>5 DEF Surjection

LEMMA LogKeeps ==
  ASSUME TypeOK, CommitsWhatItHandled, [Next]_vars, NEW m, LogHas(m)
  PROVE  LogHas(m)' \/ (Commit /\ m = runner[Worker].msg)
<1>0. log \in Seq(Messages) /\ DOMAIN log = 1 .. Len(log) /\ Len(log) \in Nat
  BY LenProperties DEF TypeOK, ProcessesTypeOK
<1>1. PICK k \in 1 .. Len(log) : log[k] = m
  BY <1>0 DEF LogHas
<1>2. ASSUME NEW q \in Seq(Messages), log' = log \o q PROVE LogHas(m)'
  <2>1. /\ Len(log') = Len(log) + Len(q) /\ log' \in Seq(Messages) /\ Len(q) \in Nat
        /\ log'[k] = log[k]
    BY <1>0, <1>1, <1>2, ConcatProperties, LenProperties
  <2>2. k \in DOMAIN log'
    BY <1>0, <2>1, LenProperties
  <2> QED
    BY <1>1, <2>1, <2>2 DEF LogHas
<1>3. CASE UNCHANGED log
  BY <1>0, <1>1, <1>3 DEF LogHas
<1>4. CASE PublishPending
  BY <1>2, <1>4, PendingFacts DEF PublishPending
<1>5. CASE PublishFails
  <2>1. PICK batch \in Orders(Pending), n \in 0 .. Cardinality(Pending) :
          log' = log \o SubSeq(batch, 1, n)
    BY <1>5 DEF PublishFails
  <2>2. batch \in Seq(Messages) /\ Len(batch) = Cardinality(Pending) /\ Cardinality(Pending) \in Nat
    BY PendingFacts
  <2>3. SubSeq(batch, 1, n) \in Seq(Messages)
    BY <2>2, SubSeqProperties
  <2> QED
    BY <1>2, <2>1, <2>3
<1>6. CASE Commit
  <2>1. log # <<>> /\ log' = Tail(log) /\ runner[Worker].msg = Head(log)
    BY <1>6 DEF Commit, CommitsWhatItHandled, Rest
  <2>2. /\ Len(log') = Len(log) - 1 /\ log' \in Seq(Messages) /\ Head(log) = log[1]
        /\ \A l \in 1 .. Len(log) - 1 : log'[l] = log[l + 1]
    BY <1>0, <2>1, HeadTailProperties
  <2>3. DOMAIN log' = 1 .. Len(log) - 1
    BY <1>0, <2>2, LenProperties
  <2>4. CASE k = 1
    BY <1>1, <1>6, <2>1, <2>2, <2>4
  <2>5. CASE k > 1
    <3>1. k - 1 \in DOMAIN log' /\ log'[k - 1] = m
      BY <1>0, <1>1, <2>2, <2>3, <2>5
    <3> QED
      BY <3>1 DEF LogHas
  <2> QED
    BY <1>0, <1>1, <2>4, <2>5
<1> QED
  BY <1>3, <1>4, <1>5, <1>6, LogSplit DEF vars

OnItsWay(m) == m \in processed \/ m \in unpublished \/ LogHas(m)
HandledFine == \A r \in Runners : runner[r].pc = "handled" => runner[r].msg \in processed
WayFine == \A i \in Jobs : \A n \in 1 .. dispatched[i] : OnItsWay(<<i, n>>)

LEMMA HandledFineStep ==
  ASSUME TypeOK, HandledFine, [Next]_vars
  PROVE  HandledFine'
<1> SUFFICES ASSUME NEW r \in Runners, runner'[r].pc = "handled"
             PROVE  runner'[r].msg \in processed'
  BY DEF HandledFine
<1>1. HandKept(r) \/ HandHandled(r)
  BY HandStep DEF Hand, HandElsewhere, HandReports
<1> QED
  BY <1>1, OutboxGrows DEF HandKept, HandHandled, HandledFine

LEMMA WayFineStep ==
  ASSUME TypeOK, CommitsWhatItHandled, HandledFine, WayFine, [Next]_vars
  PROVE  WayFine'
<1> SUFFICES ASSUME NEW i \in Jobs, NEW n \in 1 .. dispatched'[i] PROVE OnItsWay(<<i, n>>)'
  BY DEF WayFine, OnItsWay, LogHas
<1>0. PICK m : m = <<i, n>>
  OBVIOUS
<1>1. dispatched[i] \in Nat
  BY RowTyped
<1>2. n \in 1 .. dispatched[i] \/ m \in unpublished'
  <2>1. CASE dispatched'[i] = dispatched[i]
    BY <2>1
  <2>2. CASE dispatched'[i] = dispatched[i] + 1 /\ <<i, dispatched'[i]>> \in unpublished'
    <3>1. n \in 1 .. dispatched[i] \/ n = dispatched'[i]
      BY <1>1, <2>2
    <3> QED
      BY <1>0, <2>2, <3>1
  <2> QED
    BY <2>1, <2>2, OutboxGrows
<1>3. ASSUME n \in 1 .. dispatched[i]
      PROVE  m \in processed' \/ m \in unpublished' \/ LogHas(m)'
  <2>1. m \in processed \/ m \in unpublished \/ LogHas(m)
    BY <1>0, <1>3 DEF WayFine, OnItsWay
  <2>2. CASE m \in processed
    BY <2>2, OutboxGrows
  <2>3. CASE m \in unpublished
    <3>1. CASE PublishPending
      <4>1. CASE m \notin Pending
        BY <2>3, <3>1, <4>1 DEF PublishPending
      <4>2. CASE m \in Pending
        <5>1. PICK batch \in Orders(Pending) : log' = log \o batch
          BY <3>1 DEF PublishPending
        <5>2. PICK k \in DOMAIN batch : batch[k] = m
          BY <4>2, BatchIsWhole
        <5>3. log \in Seq(Messages) /\ batch \in Seq(Messages)
          BY PendingFacts DEF TypeOK, ProcessesTypeOK
        <5>4. /\ Len(log) \in Nat /\ Len(batch) \in Nat /\ DOMAIN batch = 1 .. Len(batch)
              /\ Len(log') = Len(log) + Len(batch) /\ log' \in Seq(Messages)
              /\ \A l \in 1 .. Len(log) + Len(batch) :
                   log'[l] = IF l <= Len(log) THEN log[l] ELSE batch[l - Len(log)]
          BY <5>1, <5>3, ConcatProperties, LenProperties
        <5>5. DOMAIN log' = 1 .. Len(log) + Len(batch)
          BY <5>4, LenProperties
        <5>6. k + Len(log) \in DOMAIN log' /\ log'[k + Len(log)] = m
          BY <5>2, <5>4, <5>5
        <5> QED
          BY <5>6 DEF LogHas
      <4> QED
        BY <4>1, <4>2
    <3>2. CASE unpublished \subseteq unpublished'
      BY <2>3, <3>2
    <3> QED
      BY <3>1, <3>2, OutboxGrows
  <2>4. CASE LogHas(m)
    <3>1. Commit /\ m = runner[Worker].msg => m \in processed
      BY DEF Commit, HandledFine, Runners
    <3> QED
      BY <2>4, <3>1, LogKeeps, OutboxGrows
  <2> QED
    BY <2>1, <2>2, <2>3, <2>4
<1> QED
  BY <1>0, <1>2, <1>3 DEF OnItsWay, LogHas

(* A message that is not settled is in the outbox or in the partition, at  *)
(* every point where a process may die.                                    *)
THEOREM NothingLost == Spec => []NoMessageLost
<1>1. Init => HandledFine /\ WayFine
  <2> SUFFICES ASSUME Init PROVE HandledFine /\ WayFine
    OBVIOUS
  <2>1. HandledFine
    BY DEF Init, HandledFine, Resting
  <2>2. WayFine
    BY DEF Init, WayFine
  <2> QED
    BY <2>1, <2>2
<1>2. TypedInv /\ HandledFine /\ WayFine /\ [Next]_vars => HandledFine' /\ WayFine'
  BY HandledFineStep, WayFineStep DEF TypedInv
<1>3. WayFine => NoMessageLost
  BY DEF WayFine, OnItsWay, LogHas, NoMessageLost
<1> QED
  BY <1>1, <1>2, <1>3, TypedAlways, PTL DEF Spec

-----------------------------------------------------------------------------
(* Topics. A job carries a generation of its topic that is not to come.    *)

GenerationsFine ==
  /\ topic.sequence \in Nat
  /\ \A i \in Jobs : /\ frozen[i] <= topic.sequence
                     /\ accepting[i] # NotAccepting => accepting[i] <= topic.sequence

(* A job keeps its generation, a topic starts new ones, and only a job of  *)
(* the topic's current generation sends a request.                         *)
LEMMA GenerationStep ==
  ASSUME TypeOK, RowsFine, GenerationsFine, [Next]_vars
  PROVE  /\ GenerationsFine'
         /\ topic' = topic \/ topic'.sequence = topic.sequence + 1
         /\ \A i \in Jobs : status[i] # "absent" =>
              /\ frozen'[i] = frozen[i]
              /\ work'[i].requests = work[i].requests \/ TopicMatches(i)
<1> DEFINE Keep == \A i \in Jobs : status[i] # "absent" =>
                      /\ frozen'[i] = frozen[i]
                      /\ work'[i].requests = work[i].requests \/ TopicMatches(i)
<1>0. RowsTypeOK /\ topic.sequence \in Nat /\ accepting \in [Jobs -> Nat \cup {NotAccepting}]
      /\ \A i \in Jobs : frozen[i] \in Nat /\ work[i] \in Works
  BY DEF TypeOK, RowsTypeOK, TablesTypeOK, ProcessesTypeOK
<1>1. ASSUME UNCHANGED <<topic, frozen, accepting>> PROVE GenerationsFine'
  BY <1>1 DEF GenerationsFine
<1>2. ASSUME UNCHANGED <<frozen, work>> PROVE Keep
  BY <1>2
<1>3. ASSUME NEW j \in Jobs, AcceptRead(j)
      PROVE  GenerationsFine' /\ UNCHANGED <<topic, frozen, work>>
  <2>1. UNCHANGED <<topic, frozen, work>> /\ accepting' = [accepting EXCEPT ![j] = topic.sequence]
    BY <1>3 DEF AcceptRead, rows
  <2> QED
    BY <1>0, <2>1 DEF GenerationsFine
<1>4. ASSUME NEW j \in Jobs, AcceptInsert(j) PROVE GenerationsFine' /\ Keep /\ UNCHANGED topic
  <2>1. /\ UNCHANGED <<topic, work>> /\ accepting[j] # NotAccepting /\ status[j] = "absent"
        /\ accepting' = [accepting EXCEPT ![j] = NotAccepting]
        /\ frozen' = [frozen EXCEPT ![j] = accepting[j]]
    BY <1>4 DEF AcceptInsert, RowsFine, Uninserted
  <2>2. GenerationsFine'
    BY <1>0, <2>1 DEF GenerationsFine, RowsTypeOK
  <2>3. Keep
    BY <1>0, <2>1 DEF RowsTypeOK
  <2> QED
    BY <2>1, <2>2, <2>3
<1>5. ASSUME NEW target, TransitionTopic(target)
      PROVE  /\ GenerationsFine' /\ Keep /\ topic'.sequence = topic.sequence + 1
  <2>1. /\ topic'.sequence = topic.sequence + 1 /\ UNCHANGED <<frozen, work, accepting>>
    BY <1>5 DEF TransitionTopic, rows
  <2>2. \A i \in Jobs : accepting[i] # NotAccepting => accepting[i] \in Nat
    BY <1>0
  <2> QED
    BY <1>0, <1>2, <2>1, <2>2 DEF GenerationsFine
<1>6. ASSUME NEW t \in children, BeginRequest(t)
      PROVE  Keep /\ UNCHANGED <<topic, frozen, accepting>>
  <2>1. UNCHANGED <<topic, frozen, accepting>> /\ t.job \in Jobs
    BY <1>6 DEF BeginRequest, TypeOK, ProcessesTypeOK
  <2>2. CASE FencedCancel(t.job, lease[t.job].left).asked
    BY <1>6, <2>1, <2>2 DEF BeginRequest
  <2>3. CASE ~FencedCancel(t.job, lease[t.job].left).asked
    <3>1. TopicMatches(t.job)
      BY <2>3 DEF FencedCancel
    <3>2. work' = [work EXCEPT ![t.job] = OneRequest(work[t.job])]
      BY <1>6, <2>3 DEF BeginRequest
    <3>3. \A i \in Jobs : i # t.job => work'[i] = work[i]
      BY <1>0, <3>2 DEF RowsTypeOK
    <3> QED
      BY <2>1, <3>1, <3>3
  <2> QED
    BY <2>2, <2>3
<1>7. ASSUME NEW t \in children, NEW step \in {0, 1}, SaveCheckpoint(t, step)
      PROVE  Keep /\ UNCHANGED <<topic, frozen, accepting>>
  <2>1. UNCHANGED <<topic, frozen, accepting>> /\ t.job \in Jobs
    BY <1>7 DEF SaveCheckpoint, TypeOK, ProcessesTypeOK
  <2>2. \A i \in Jobs : work'[i].requests = work[i].requests
    BY <1>0, <1>7, <2>1 DEF SaveCheckpoint, RowsTypeOK, Works
  <2> QED
    BY <2>1, <2>2
<1>8. ASSUME NEW r \in Runners, Acquire(r) PROVE Keep /\ UNCHANGED <<topic, frozen, accepting>>
  <2>1. UNCHANGED <<topic, frozen, accepting>>
    BY <1>8 DEF Acquire
  <2>2. PICK j \in Jobs : j = runner[r].msg[1]
    BY <1>8, RunnerTyped DEF Acquire, Rest
  <2>3. work' = work \/ work' = [work EXCEPT ![j] = NewCycle(work[j])]
    BY <1>8, <2>2 DEF Acquire
  <2>4. \A i \in Jobs : NewCycle(work[i]).requests = work[i].requests
    BY <1>0, WorkFields
  <2>5. \A i \in Jobs : work'[i].requests = work[i].requests
    BY <1>0, <2>3, <2>4 DEF RowsTypeOK
  <2> QED
    BY <2>1, <2>5
<1>9. ASSUME NEW r \in Runners,
             \/ Complete(r) \/ FailCancelled(r) \/ Fail(r) \/ AcknowledgeCancelled(r)
             \/ \E renew \in BOOLEAN : WatchLease(r, renew)
      PROVE  UNCHANGED <<topic, frozen, work>>
  BY <1>9 DEF Complete, FailCancelled, Fail, AcknowledgeCancelled, WatchLease, rows
<1>10. ASSUME NEW j \in Jobs, CancelUnheld(j) \/ CancelHeld(j) \/ RequestRetry(j) \/ Redispatch(j)
       PROVE  UNCHANGED <<topic, frozen, work>>
  BY <1>10 DEF CancelUnheld, CancelHeld, RequestRetry, Redispatch, rows
<1>11. ASSUME Tick \/ PublishPending PROVE UNCHANGED <<topic, frozen, work>>
  BY <1>11 DEF Tick, PublishPending, rows
<1>12. ASSUME UNCHANGED tables PROVE UNCHANGED <<topic, frozen, work>>
  BY <1>12 DEF tables, rows
<1>13. /\ Keep
       /\ topic' = topic \/ topic'.sequence = topic.sequence + 1
  BY <1>2, <1>4, <1>5, <1>6, <1>7, <1>8, <1>9, <1>10, <1>11, <1>12, NextSplit
  DEF DatabaseStep, vars, tables, rows
<1>14. GenerationsFine'
  <2>1. CASE UNCHANGED accepting /\ UNCHANGED <<topic, frozen>>
    BY <1>1, <2>1
  <2>2. CASE UNCHANGED accepting
    <3>1. ASSUME NEW j \in Jobs, AcceptInsert(j) PROVE GenerationsFine'
      BY <1>4, <3>1
    <3>2. ASSUME NEW target, TransitionTopic(target) PROVE GenerationsFine'
      BY <1>5, <3>2
    <3>3. \/ UNCHANGED <<topic, frozen>> \/ \E j \in Jobs : AcceptInsert(j)
          \/ \E target : TransitionTopic(target)
      BY <1>6, <1>7, <1>8, <1>9, <1>10, <1>11, <1>12, NextSplit
      DEF DatabaseStep, vars, tables, rows
    <3> QED
      BY <2>1, <2>2, <3>1, <3>2, <3>3
  <2> QED
    BY <1>3, <1>4, <2>2, AcceptingSplit DEF vars
<1> QED
  BY <1>13, <1>14

(* A job whose topic was paused or changed its generation sends no more    *)
(* requests, whatever the topic does later.                                *)
THEOREM EndedGenerationIsSilent == Spec => EndedGenerationSendsNothing
<1>1. Init => GenerationsFine
  BY DEF Init, GenerationsFine
<1>2. TypedInv /\ RowsFine /\ GenerationsFine /\ [Next]_vars => GenerationsFine'
  BY GenerationStep DEF TypedInv
<1>3. TypedInv /\ RowsFine /\ GenerationsFine /\ [Next]_vars =>
        [\A j \in TopicJobs : status[j] # "absent" /\ ~TopicMatches(j) =>
           /\ work'[j].requests = work[j].requests
           /\ ~TopicMatches(j)']_vars
  <2> SUFFICES ASSUME TypeOK, RowsFine, GenerationsFine, [Next]_vars, NEW j \in TopicJobs,
                      status[j] # "absent", ~TopicMatches(j)
               PROVE  work'[j].requests = work[j].requests /\ ~TopicMatches(j)'
    BY DEF TypedInv
  <2>1. j \in Jobs
    BY JobSetsAssumption
  <2>2. frozen[j] \in Nat /\ topic.sequence \in Nat
    BY <2>1 DEF TypeOK, RowsTypeOK, TablesTypeOK
  <2> QED
    BY <2>1, <2>2, GenerationStep DEF TopicMatches, GenerationsFine
<1> QED
  BY <1>1, <1>2, <1>3, TypedAlways, RowsFineAlways, PTL DEF Spec, EndedGenerationSendsNothing

-----------------------------------------------------------------------------
(* The lease, as the handler of job i sees it. What Lives(i) leaves open:  *)
(* only an acquisition gives a lease, a cancel of a job that goes on       *)
(* running meets a live one, and only its holder settles a running job.    *)

LeaseLives(i) ==
  IF lease'[i].epoch = lease[i].epoch
    THEN /\ lease'[i].left > 0 => lease[i].left > 0
         /\ status'[i] = status[i] /\ cancel'[i].asked # cancel[i].asked => lease'[i].left > 0
         /\ status[i] = "running" /\ SettledOf(i)' # SettledOf(i) => lease[i].left > 0
    ELSE lease'[i].left > 0 /\ Acquirable(i) /\ lease'[i].epoch <= MaxEpochs

LEMMA KeptLease ==
  ASSUME NEW i \in Jobs, lease'[i] = lease[i], cancel'[i].asked = cancel[i].asked,
         status[i] # "running" \/ SettledOf(i)' = SettledOf(i)
  PROVE  LeaseLives(i)
  BY DEF LeaseLives

LEMMA RequestLease ==
  ASSUME TypeOK, RowsFine, NEW j \in Jobs, NEW i \in Jobs,
         \/ AcceptInsert(j) \/ CancelUnheld(j) \/ CancelHeld(j)
         \/ RequestRetry(j) \/ Redispatch(j)
  PROVE  LeaseLives(i)
<1>0. RowsTypeOK /\ lease[i] \in Leases /\ lease[i].left \in Nat
  BY RowTyped DEF TypeOK
<1>1. SettledOf(i)' = SettledOf(i)
  BY DEF AcceptInsert, CancelUnheld, CancelHeld, RequestRetry, Redispatch, SettledOf
<1>2. CASE AcceptInsert(j) \/ RequestRetry(j) \/ Redispatch(j)
  BY <1>1, <1>2, KeptLease DEF AcceptInsert, RequestRetry, Redispatch, rows
<1>3. CASE CancelUnheld(j)
  <2>1. CASE i # j
    BY <1>0, <1>1, <1>3, <2>1, KeptLease DEF CancelUnheld, ReleaseLease, RowsTypeOK
  <2>2. CASE i = j
    <3>1. lease'[i].epoch = lease[i].epoch /\ lease'[i].left = 0
      BY <1>0, <1>3, <2>2 DEF CancelUnheld, ReleaseLease, RowsTypeOK
    <3>2. status[i] # "cancelled" /\ status'[i] = "cancelled"
      BY <1>0, <1>3, <2>2 DEF CancelUnheld, Unheld, RowsTypeOK
    <3> QED
      BY <1>1, <3>1, <3>2 DEF LeaseLives
  <2> QED
    BY <2>1, <2>2
<1>4. CASE CancelHeld(j)
  <2>1. lease' = lease /\ lease[j].left > 0
    BY <1>4 DEF CancelHeld
  <2>2. i # j => cancel'[i] = cancel[i]
    BY <1>0, <1>4 DEF CancelHeld, RowsTypeOK
  <2> QED
    BY <1>1, <2>1, <2>2 DEF LeaseLives
<1> QED
  BY <1>2, <1>3, <1>4

LEMMA AcquireLease ==
  ASSUME TypeOK, NEW r \in Runners, Acquire(r), NEW i \in Jobs
  PROVE  LeaseLives(i)
<1>1. PICK j \in Jobs : j = runner[r].msg[1]
  BY RunnerTyped DEF Acquire, Rest
<1>0. RowsTypeOK /\ lease[i].epoch \in Nat
  BY RowTyped DEF TypeOK
<1>2. /\ lease' = [lease EXCEPT ![j] = [owner |-> r, epoch |-> lease[j].epoch + 1,
                                        left |-> LeaseTicks]]
      /\ cancel' = [cancel EXCEPT ![j] = FencedCancel(j, LeaseTicks)]
      /\ Acquirable(j) /\ lease[j].epoch + 1 <= MaxEpochs /\ processed' = processed
  BY <1>1 DEF Acquire
<1>3. CASE i # j
  BY <1>0, <1>2, <1>3, KeptLease DEF RowsTypeOK, SettledOf
<1>4. CASE i = j
  <2>1. lease'[i].epoch = lease[i].epoch + 1 /\ lease'[i].left = LeaseTicks
    BY <1>0, <1>2, <1>4 DEF RowsTypeOK
  <2> QED
    BY <1>0, <1>2, <1>4, <2>1, TicksAssumption DEF LeaseLives
<1> QED
  BY <1>3, <1>4

(* A holder that writes under its lease renews it, ends it, or meets a     *)
(* cancel and leaves it as it is.                                          *)
LEMMA HolderLease ==
  ASSUME TypeOK, NEW j \in Jobs, NEW i \in Jobs, NEW n \in Nat, lease[j].left > 0,
         lease' = lease \/ lease' = [lease EXCEPT ![j].left = n],
         \/ cancel' = cancel
         \/ cancel' = [cancel EXCEPT ![j] = FencedCancel(j, lease[j].left)] /\ (n > 0 \/ lease' = lease),
         processed' = processed
  PROVE  LeaseLives(i)
<1>0. RowsTypeOK /\ lease[j].left \in Nat /\ lease[i] \in Leases
  BY RowTyped DEF TypeOK
<1>1. SettledOf(i)' = SettledOf(i)
  BY DEF SettledOf
<1>2. CASE i # j
  BY <1>0, <1>1, <1>2, KeptLease DEF RowsTypeOK
<1>3. CASE i = j
  <2>1. CASE lease' = [lease EXCEPT ![j].left = n]
    <3>1. lease'[i] = [lease[i] EXCEPT !.left = n]
      BY <1>0, <1>3, <2>1 DEF RowsTypeOK
    <3>2. lease'[i].epoch = lease[i].epoch /\ lease'[i].left = n
      BY <1>0, <3>1, RowFields
    <3> QED
      BY <1>1, <1>3, <2>1, <3>2 DEF LeaseLives
  <2>2. CASE lease' = lease
    BY <1>1, <1>3, <2>2 DEF LeaseLives
  <2> QED
    BY <2>1, <2>2
<1> QED
  BY <1>2, <1>3

LEMMA ChildLease ==
  ASSUME TypeOK, NEW t \in children, NEW i \in Jobs,
         BeginRequest(t) \/ \E step \in {0, 1} : SaveCheckpoint(t, step)
  PROVE  LeaseLives(i)
<1>0. RowsTypeOK /\ t.job \in Jobs /\ LeaseTicks \in Nat /\ LeaseTicks > 0
  BY TicksAssumption DEF TypeOK, ProcessesTypeOK
<1>1. lease[t.job].left > 0 /\ processed' = processed
  BY DEF BeginRequest, SaveCheckpoint, Current
<1>2. CASE BeginRequest(t)
  <2>1. /\ cancel' = [cancel EXCEPT ![t.job] = FencedCancel(t.job, lease[t.job].left)]
        /\ lease' = lease \/ lease' = [lease EXCEPT ![t.job].left = LeaseTicks]
    BY <1>2 DEF BeginRequest
  <2> QED
    BY <1>0, <1>1, <2>1, HolderLease
<1>3. ASSUME NEW step \in {0, 1}, SaveCheckpoint(t, step) PROVE LeaseLives(i)
  <2>1. Lesser(LeaseTicks, cancel[t.job].left) \in Nat
    BY <1>0, CancelRecords, TicksAssumption DEF Lesser, RowsTypeOK
  <2>2. PICK n \in Nat : lease' = [lease EXCEPT ![t.job].left = n]
    BY <1>0, <1>3, <2>1 DEF SaveCheckpoint
  <2>3. cancel' = cancel
    BY <1>3 DEF SaveCheckpoint
  <2> QED
    BY <1>0, <1>1, <2>2, <2>3, HolderLease
<1> QED
  BY <1>2, <1>3

LEMMA SupervisorLease ==
  ASSUME TypeOK, NEW r \in Runners, NEW renew \in BOOLEAN, WatchLease(r, renew), NEW i \in Jobs
  PROVE  LeaseLives(i)
<1>1. PICK j \in Jobs : j = Token(r).job
  BY RunnerTyped DEF WatchLease, Rest
<1>2. /\ lease[j].left > 0 /\ processed' = processed
      /\ cancel' = [cancel EXCEPT ![j] = FencedCancel(j, lease[j].left)]
      /\ lease' = lease \/ lease' = [lease EXCEPT ![j].left = LeaseTicks]
  BY <1>1 DEF WatchLease, Current
<1>3. LeaseTicks \in Nat /\ LeaseTicks > 0
  BY TicksAssumption
<1> QED
  BY <1>2, <1>3, HolderLease

LEMMA TickLease == ASSUME TypeOK, Tick, NEW i \in Jobs PROVE LeaseLives(i)
<1>0. lease[i] \in Leases /\ cancel[i] \in Cancels /\ lease[i].left \in Nat
  BY RowTyped
<1>1. /\ lease'[i] = [lease[i] EXCEPT !.left = Countdown(lease[i].left)]
      /\ cancel'[i] = [cancel[i] EXCEPT !.left = Countdown(cancel[i].left)]
      /\ processed' = processed
  BY DEF Tick
<1>2. lease'[i].epoch = lease[i].epoch /\ lease'[i].left = Countdown(lease[i].left)
  BY <1>0, <1>1 DEF Leases
<1>3. cancel'[i].asked = cancel[i].asked
  BY <1>0, <1>1 DEF Cancels
<1> QED
  BY <1>0, <1>1, <1>2, <1>3 DEF LeaseLives, Countdown, SettledOf

LEMMA SettleLease ==
  ASSUME TypeOK, NEW r \in Runners, Complete(r) \/ FailCancelled(r) \/ Fail(r), NEW i \in Jobs
  PROVE  LeaseLives(i)
<1>0. RowsTypeOK
  BY DEF TypeOK
<1>1. PICK j \in Jobs, n \in Nat \ {0} : j = Token(r).job /\ runner[r].msg = <<j, n>>
  BY RunnerTyped DEF Complete, FailCancelled, Fail, Settles, Rest, Messages, Token
<1>2. /\ status[j] = "running" /\ lease[j].left > 0
      /\ Record(<<j, n>>) /\ ReleaseLease(j)
  BY <1>1 DEF Complete, FailCancelled, Fail, Settles, Current, Token
<1>3. CASE i # j
  <2>1. cancel'[i] = cancel[i]
    BY <1>0, <1>1, <1>3 DEF Complete, FailCancelled, Fail, RowsTypeOK
  <2> QED
    BY <1>0, <1>2, <1>3, <2>1, RecordedOne, KeptLease DEF ReleaseLease, RowsTypeOK
<1>4. CASE i = j
  <2>1. status'[i] # "running"
    BY <1>0, <1>1, <1>4 DEF Complete, FailCancelled, Fail, RowsTypeOK
  <2>2. lease'[i].epoch = lease[i].epoch /\ lease'[i].left = 0
    BY <1>0, <1>2, <1>4 DEF ReleaseLease, RowsTypeOK
  <2> QED
    BY <1>2, <1>4, <2>1, <2>2 DEF LeaseLives
<1> QED
  BY <1>3, <1>4

LEMMA AcknowledgeLease ==
  ASSUME TypeOK, NEW r \in Runners, AcknowledgeCancelled(r), NEW i \in Jobs
  PROVE  LeaseLives(i)
<1>1. PICK j \in Jobs, n \in Nat \ {0} : runner[r].msg = <<j, n>>
  BY RunnerTyped DEF AcknowledgeCancelled, Rest, Messages
<1>2. UNCHANGED <<lease, cancel>>
  BY DEF AcknowledgeCancelled, rows
<1>3. UNCHANGED processed \/ (status[j] = "cancelled" /\ Record(<<j, n>>))
  BY <1>1 DEF AcknowledgeCancelled, Acknowledges
<1>4. status[i] # "running" \/ SettledOf(i)' = SettledOf(i)
  <2>1. CASE UNCHANGED processed
    BY <2>1 DEF SettledOf
  <2>2. CASE status[j] = "cancelled" /\ Record(<<j, n>>)
    BY <2>2, RecordedOne
  <2> QED
    BY <1>3, <2>1, <2>2
<1> QED
  BY <1>2, <1>4, KeptLease

LEMMA LeaseStep ==
  ASSUME TypeOK, RowsFine, [Next]_vars, NEW i \in Jobs
  PROVE  LeaseLives(i)
<1>1. ASSUME UNCHANGED <<rows, processed>> PROVE LeaseLives(i)
  BY <1>1, KeptLease DEF rows, SettledOf
<1>2. ASSUME DatabaseStep PROVE LeaseLives(i)
  BY <1>1, <1>2, RequestLease, AcquireLease, ChildLease, SupervisorLease, TickLease, SettleLease,
     AcknowledgeLease
  DEF DatabaseStep, TransitionTopic, PublishPending
<1> QED
  BY <1>1, <1>2, NextSplit DEF vars, tables

(* The rows the handler sees, and what the actions of LeasedJob do to one. *)
SeenRows ==
  [status : {"queued", "running", "succeeded", "partially_succeeded", "failed", "cancelled"},
   epoch : Nat, held : BOOLEAN, asked : BOOLEAN]
Seen(i) == [k \in {i} |-> SeenByHandler(k)]

LEMMA SameRow ==
  ASSUME NEW x \in SeenRows, NEW y \in SeenRows, x.status = y.status, x.epoch = y.epoch,
         x.held = y.held, x.asked = y.asked
  PROVE  x = y
  BY DEF SeenRows

LEMMA HeldIs ==
  ASSUME NEW n \in Nat
  PROVE  (n = 0 => (n > 0) = FALSE) /\ (n > 0 => (n > 0) = TRUE)
  OBVIOUS

LEMMA SeenTyped ==
  ASSUME TypeOK, NEW i \in Jobs
  PROVE  /\ SeenByHandler(i) \in SeenRows
         /\ Seen(i) \in [{i} -> SeenRows] /\ Seen(i)[i] = SeenByHandler(i)
         /\ SeenByHandler(i).status = IF status[i] = "absent" THEN "queued" ELSE status[i]
         /\ SeenByHandler(i).epoch = lease[i].epoch
         /\ SeenByHandler(i).held = (lease[i].left > 0)
         /\ SeenByHandler(i).asked = cancel[i].asked
<1>1. /\ status[i] \in {"absent"} \cup Live \cup Terminal /\ lease[i].epoch \in Nat
      /\ lease[i].left \in Nat /\ cancel[i].asked \in BOOLEAN
  BY RowTyped DEF TypeOK, RowsTypeOK, Cancels
<1>2. SeenByHandler(i) \in SeenRows
  BY <1>1 DEF SeenByHandler, SeenRows, Live, Terminal
<1> QED
  BY <1>2 DEF Seen, SeenByHandler

(* What the actions of LeasedJob do to the row of i.                       *)
RowAcquired(f, i) ==
  [f EXCEPT ![i].status = "running", ![i].epoch = @ + 1, ![i].held = TRUE]
RowAcquiredCancelled(f, i) ==
  [f EXCEPT ![i].status = "running", ![i].epoch = @ + 1, ![i].held = TRUE,
            ![i].asked = TRUE]
RowLet(f, i) ==
  [f EXCEPT ![i].held = FALSE]
RowAsked(f, i) ==
  [f EXCEPT ![i].asked = TRUE, ![i].status = IF f[i].held THEN @ ELSE "cancelled"]
RowReleased(f, i, outcome) ==
  [f EXCEPT ![i].held = FALSE, ![i].status = IF f[i].asked THEN "cancelled" ELSE outcome]
RowCancelled(f, i) ==
  [f EXCEPT ![i].held = FALSE, ![i].status = "cancelled", ![i].asked = TRUE]
RowQueued(f, i) ==
  [f EXCEPT ![i].status = "queued"]

LEMMA SeenAcquired ==
  ASSUME NEW i, NEW f \in [{i} -> SeenRows], NEW y \in SeenRows,
         y.status = "running", y.epoch = f[i].epoch + 1,
         y.held = TRUE, y.asked = f[i].asked
  PROVE  [k \in {i} |-> y] = RowAcquired(f, i)
<1> DEFINE z == [f[i] EXCEPT !.status = "running", !.epoch = @ + 1, !.held = TRUE]
<1>1. f[i] \in SeenRows /\ f[i].epoch + 1 \in Nat
  BY DEF SeenRows
<1>2. /\ z \in SeenRows /\ z.status = "running" /\ z.epoch = f[i].epoch + 1
      /\ z.held = TRUE /\ z.asked = f[i].asked
  BY <1>1 DEF SeenRows
<1>3. y = z
  BY <1>2, SameRow
<1> QED
  BY <1>3 DEF RowAcquired

LEMMA SeenAcquiredCancelled ==
  ASSUME NEW i, NEW f \in [{i} -> SeenRows], NEW y \in SeenRows,
         y.status = "running", y.epoch = f[i].epoch + 1,
         y.held = TRUE, y.asked = TRUE
  PROVE  [k \in {i} |-> y] = RowAcquiredCancelled(f, i)
<1> DEFINE z == [f[i] EXCEPT !.status = "running", !.epoch = @ + 1, !.held = TRUE,
                               !.asked = TRUE]
<1>1. f[i] \in SeenRows /\ f[i].epoch + 1 \in Nat
  BY DEF SeenRows
<1>2. /\ z \in SeenRows /\ z.status = "running" /\ z.epoch = f[i].epoch + 1
      /\ z.held = TRUE /\ z.asked = TRUE
  BY <1>1 DEF SeenRows
<1>3. y = z
  BY <1>2, SameRow
<1> QED
  BY <1>3 DEF RowAcquiredCancelled

LEMMA SeenLet ==
  ASSUME NEW i, NEW f \in [{i} -> SeenRows], NEW y \in SeenRows,
         y.status = f[i].status, y.epoch = f[i].epoch,
         y.held = FALSE, y.asked = f[i].asked
  PROVE  [k \in {i} |-> y] = RowLet(f, i)
<1> DEFINE z == [f[i] EXCEPT !.held = FALSE]
<1>1. f[i] \in SeenRows /\ f[i].epoch + 1 \in Nat
  BY DEF SeenRows
<1>2. /\ z \in SeenRows /\ z.status = f[i].status /\ z.epoch = f[i].epoch
      /\ z.held = FALSE /\ z.asked = f[i].asked
  BY <1>1 DEF SeenRows
<1>3. y = z
  BY <1>2, SameRow
<1> QED
  BY <1>3 DEF RowLet

LEMMA SeenAsked ==
  ASSUME NEW i, NEW f \in [{i} -> SeenRows], NEW y \in SeenRows,
         y.status = IF f[i].held THEN f[i].status ELSE "cancelled", y.epoch = f[i].epoch,
         y.held = f[i].held, y.asked = TRUE
  PROVE  [k \in {i} |-> y] = RowAsked(f, i)
<1> DEFINE z == [f[i] EXCEPT !.asked = TRUE, !.status = y.status]
<1>1. f[i] \in SeenRows /\ f[i].epoch + 1 \in Nat
  BY DEF SeenRows
<1>2. /\ z \in SeenRows /\ z.status = y.status /\ z.epoch = f[i].epoch
      /\ z.held = f[i].held /\ z.asked = TRUE
  BY <1>1 DEF SeenRows
<1>3. y = z
  BY <1>2, SameRow
<1> QED
  BY <1>3 DEF RowAsked

LEMMA SeenReleased ==
  ASSUME NEW i, NEW f \in [{i} -> SeenRows], NEW y \in SeenRows,
         f[i].asked = FALSE, y.epoch = f[i].epoch,
         y.held = FALSE, y.asked = FALSE
  PROVE  [k \in {i} |-> y] = RowReleased(f, i, y.status)
<1> DEFINE z == [f[i] EXCEPT !.held = FALSE, !.status = y.status]
<1>1. f[i] \in SeenRows
  OBVIOUS
<1>2. /\ z \in SeenRows /\ z.status = y.status /\ z.epoch = f[i].epoch
      /\ z.held = FALSE /\ z.asked = FALSE
  BY <1>1 DEF SeenRows
<1>3. y = z
  BY <1>2, SameRow
<1> QED
  BY <1>3 DEF RowReleased

LEMMA SeenCancelled ==
  ASSUME NEW i, NEW f \in [{i} -> SeenRows], NEW y \in SeenRows,
         y.status = "cancelled", y.epoch = f[i].epoch,
         y.held = FALSE, y.asked = TRUE
  PROVE  [k \in {i} |-> y] = RowCancelled(f, i)
<1> DEFINE z == [f[i] EXCEPT !.held = FALSE, !.status = "cancelled", !.asked = TRUE]
<1>1. f[i] \in SeenRows /\ f[i].epoch + 1 \in Nat
  BY DEF SeenRows
<1>2. /\ z \in SeenRows /\ z.status = "cancelled" /\ z.epoch = f[i].epoch
      /\ z.held = FALSE /\ z.asked = TRUE
  BY <1>1 DEF SeenRows
<1>3. y = z
  BY <1>2, SameRow
<1> QED
  BY <1>3 DEF RowCancelled

LEMMA SeenQueued ==
  ASSUME NEW i, NEW f \in [{i} -> SeenRows], NEW y \in SeenRows,
         y.status = "queued", y.epoch = f[i].epoch,
         y.held = f[i].held, y.asked = f[i].asked
  PROVE  [k \in {i} |-> y] = RowQueued(f, i)
<1> DEFINE z == [f[i] EXCEPT !.status = "queued"]
<1>1. f[i] \in SeenRows /\ f[i].epoch + 1 \in Nat
  BY DEF SeenRows
<1>2. /\ z \in SeenRows /\ z.status = "queued" /\ z.epoch = f[i].epoch
      /\ z.held = f[i].held /\ z.asked = f[i].asked
  BY <1>1 DEF SeenRows
<1>3. y = z
  BY <1>2, SameRow
<1> QED
  BY <1>3 DEF RowQueued

LEMMA SeenTypedNext ==
  ASSUME TypeOK', NEW i \in Jobs
  PROVE  /\ SeenByHandler(i)' \in SeenRows
         /\ SeenByHandler(i)'.status = IF status'[i] = "absent" THEN "queued" ELSE status'[i]
         /\ SeenByHandler(i)'.epoch = lease'[i].epoch
         /\ SeenByHandler(i)'.held = (lease'[i].left > 0)
         /\ SeenByHandler(i)'.asked = cancel'[i].asked
<1>1. /\ status'[i] \in {"absent"} \cup Live \cup Terminal /\ lease'[i].epoch \in Nat
      /\ lease'[i].left \in Nat /\ cancel'[i].asked \in BOOLEAN
  BY DEF TypeOK, RowsTypeOK, Leases, Cancels
<1> QED
  BY <1>1 DEF SeenByHandler, SeenRows, Live, Terminal

(* What Lives(i) and LeaseLives(i) say of a row is a step of LeasedJob.    *)
LEMMA SeenStep ==
  ASSUME TypeOK, TypeOK', RowsFine, RowsFine', NEW i \in Jobs, Lives(i), LeaseLives(i)
  PROVE  Handled(i)!LeaseNext \/ Seen(i)' = Seen(i)
<1> DEFINE x == SeenByHandler(i)
           y == SeenByHandler(i)'
           f == Seen(i)
           g == [k \in {i} |-> y]
<1>1. /\ f \in [{i} -> SeenRows] /\ f[i] = x /\ x \in SeenRows
      /\ x.status = IF status[i] = "absent" THEN "queued" ELSE status[i]
      /\ x.epoch = lease[i].epoch /\ x.held = (lease[i].left > 0) /\ x.asked = cancel[i].asked
  BY SeenTyped
<1>2. /\ y \in SeenRows
      /\ y.status = IF status'[i] = "absent" THEN "queued" ELSE status'[i]
      /\ y.epoch = lease'[i].epoch /\ y.held = (lease'[i].left > 0)
      /\ y.asked = cancel'[i].asked
  BY SeenTypedNext
<1>3. Seen(i)' = g
  BY DEF Seen
<1>4. RowFine(i) /\ status[i] \in {"absent"} \cup Live \cup Terminal
      /\ lease[i].left \in Nat /\ lease[i].epoch \in Nat /\ cancel[i].asked \in BOOLEAN
  BY RowTyped DEF RowsFine, TypeOK, RowsTypeOK, Cancels
<1>5. /\ lease'[i].left > 0 => status'[i] = "running"
      /\ lease'[i].left \in Nat /\ lease'[i].epoch \in Nat /\ cancel'[i].asked \in BOOLEAN
  BY DEF RowsFine, RowFine, TypeOK, RowsTypeOK, Leases, Cancels
<1> HIDE DEF x, y, f, g
<1> USE DEF KeepsLease, KeepsAsked, RowFine
<1>held. /\ lease[i].left = 0 => x.held = FALSE
         /\ lease[i].left > 0 => x.held = TRUE
         /\ lease'[i].left = 0 => y.held = FALSE
         /\ lease'[i].left > 0 => y.held = TRUE
  <2>1. /\ lease[i].left = 0 => (lease[i].left > 0) = FALSE
        /\ lease[i].left > 0 => (lease[i].left > 0) = TRUE
    BY <1>4, HeldIs
  <2>2. /\ lease'[i].left = 0 => (lease'[i].left > 0) = FALSE
        /\ lease'[i].left > 0 => (lease'[i].left > 0) = TRUE
    BY <1>5, HeldIs
  <2> QED
    BY <1>1, <1>2, <2>1, <2>2, Zenon
(* A step the handler does not see, the end of the lease, or a cancel.     *)
<1>6. ASSUME x.status = y.status, x.epoch = y.epoch, x.asked = y.asked, y.held => x.held
      PROVE  Handled(i)!LeaseNext \/ g = f
  <2>1. CASE x.held = y.held
    <3>1. x = y
      BY <1>1, <1>2, <1>6, <2>1, SameRow
    <3> QED
      BY <1>1, <3>1 DEF g
  <2>2. CASE x.held = TRUE /\ y.held = FALSE
    <3>1. g = RowLet(f, i)
      BY <1>1, <1>2, <1>6, <2>2, SeenLet DEF g
    <3>2. Handled(i)!LeaseEnds(i)
      BY <1>1, <1>3, <2>2, <3>1 DEF Handled!LeaseEnds, Seen, RowLet, f
    <3> QED
      BY <3>2 DEF Handled!LeaseNext
  <2> QED
    BY <1>1, <1>2, <1>6, <2>1, <2>2 DEF SeenRows
<1>7. ASSUME x.status \in {"queued", "running"}, x.asked = FALSE, y.asked = TRUE,
             x.epoch = y.epoch, x.held = y.held,
             y.status = IF x.held THEN x.status ELSE "cancelled"
      PROVE  Handled(i)!LeaseNext
  <2>1. g = RowAsked(f, i)
    BY <1>1, <1>2, <1>7, SeenAsked DEF g
  <2>2. Handled(i)!AskCancel(i)
    BY <1>1, <1>3, <1>7, <2>1 DEF Handled!AskCancel, Seen, RowAsked, f
  <2> QED
    BY <2>2 DEF Handled!LeaseNext
<1>8. ASSUME x.status = "running", x.held = TRUE, y.held = FALSE, y.epoch = x.epoch,
             \/ y.status = "cancelled" /\ y.asked = TRUE
             \/ /\ x.asked = FALSE /\ y.asked = FALSE
                /\ y.status \in {"queued", "succeeded", "partially_succeeded", "failed"}
      PROVE  Handled(i)!LeaseNext
  <2>1. Handled(i)!Holds(i, f[i].epoch)
    BY <1>1, <1>8 DEF Handled!Holds, Seen, f
  <2>2. CASE y.status = "cancelled" /\ y.asked = TRUE
    <3>1. g = RowCancelled(f, i)
      BY <1>1, <1>2, <1>8, <2>2, SeenCancelled DEF g
    <3>2. Handled(i)!EndsUnderLease(i)
      BY <1>3, <2>1, <3>1 DEF Handled!EndsUnderLease, Seen, RowCancelled, f
    <3> QED
      BY <3>2 DEF Handled!LeaseNext
  <2>3. CASE /\ x.asked = FALSE /\ y.asked = FALSE
             /\ y.status \in {"queued", "succeeded", "partially_succeeded", "failed"}
    <3>0. /\ f \in [{i} -> SeenRows] /\ y \in SeenRows /\ y.epoch = f[i].epoch
          /\ y.held = FALSE /\ f[i].asked = FALSE /\ y.asked = FALSE
      BY <1>1, <1>2, <1>8, <2>3
    <3>1. g = RowReleased(f, i, y.status)
      BY <3>0, SeenReleased DEF g
    <3>2. Handled(i)!EndsUnderLease(i)
      BY <1>3, <2>1, <2>3, <3>1 DEF Handled!EndsUnderLease, Handled!Released, Seen, RowReleased, f
    <3> QED
      BY <3>2 DEF Handled!LeaseNext
  <2> QED
    BY <1>8, <2>2, <2>3
<1>9. CASE Stays(i) \/ Resent(i) \/ Inserted(i) \/ \E n \in Nat \ {0} : Acknowledged(i, n)
  <2>1. /\ x.status = y.status /\ lease'[i].epoch = lease[i].epoch
        /\ \/ KeepsAsked(i)
           \/ status[i] = "running" /\ status'[i] = status[i] /\ ~cancel[i].asked /\ cancel'[i].asked
    BY <1>1, <1>2, <1>9 DEF Stays, Resent, Inserted, Acknowledged
  <2>2. lease'[i].left > 0 => lease[i].left > 0
    BY <2>1 DEF LeaseLives
  <2>3. CASE KeepsAsked(i)
    <3>1. x.asked = y.asked /\ x.epoch = y.epoch /\ (y.held => x.held)
      BY <1>1, <1>2, <2>1, <2>2, <2>3
    <3> QED
      BY <1>3, <1>6, <2>1, <3>1 DEF f
  <2>4. CASE status[i] = "running" /\ status'[i] = status[i] /\ ~cancel[i].asked /\ cancel'[i].asked
    <3>1. lease'[i].left > 0
      BY <2>1, <2>4 DEF LeaseLives
    <3> QED
      BY <1>1, <1>2, <1>4, <1>5, <1>7, <2>1, <2>2, <2>4, <3>1
  <2> QED
    BY <2>1, <2>3, <2>4
<1>10. CASE Stopped(i)
  <2>1. lease[i].left = 0 /\ status[i] \in {"queued", "running"} /\ lease'[i].left = 0
    BY <1>4, <1>5, <1>10 DEF Stopped, Unheld
  <2> QED
    BY <1>1, <1>2, <1>4, <1>5, <1>7, <1>10, <2>1 DEF Stopped
<1>11. CASE Reopened(i)
  <2>1. /\ lease[i].left = 0 /\ lease'[i].left = 0 /\ x.status = "failed" /\ y.status = "queued"
        /\ x.epoch = y.epoch /\ x.asked = y.asked
    BY <1>1, <1>2, <1>4, <1>5, <1>11 DEF Reopened
  <2>2. g = RowQueued(f, i)
    <3>1. /\ f \in [{i} -> SeenRows] /\ y \in SeenRows /\ y.status = "queued"
          /\ y.epoch = f[i].epoch /\ y.asked = f[i].asked
      BY <1>1, <1>2, <2>1
    <3>2. x.held = FALSE /\ y.held = FALSE
      BY <1>held, <2>1
    <3>3. y.held = f[i].held
      BY <1>1, <3>2
    <3> QED
      BY <3>1, <3>3, SeenQueued DEF g
  <2>3. Handled(i)!RetryByHand(i)
    BY <1>1, <1>3, <2>1, <2>2 DEF Handled!RetryByHand, Seen, RowQueued, f
  <2> QED
    BY <2>3 DEF Handled!LeaseNext
<1>12. CASE Started(i)
  <2>1. /\ lease'[i].epoch = lease[i].epoch + 1 /\ status'[i] = "running"
        /\ KeepsAsked(i) \/ cancel'[i].asked
    BY <1>12 DEF Started
  <2>2. lease'[i].left > 0 /\ Acquirable(i) /\ lease[i].epoch < MaxEpochs
    BY <1>4, <2>1, EpochsAssumption DEF LeaseLives
  <2>3. x.status = "queued" \/ (x.status = "running" /\ x.held = FALSE)
    <3>1. CASE status[i] = "queued"
      BY <1>1, <3>1
    <3>2. CASE status[i] = "running" /\ lease[i].left = 0
      BY <1>1, <1>held, <3>2
    <3> QED
      BY <2>2, <3>1, <3>2 DEF Acquirable
  <2>4. /\ y.status = "running" /\ y.epoch = x.epoch + 1 /\ y.held = TRUE /\ x.epoch < MaxEpochs
        /\ y.asked = x.asked \/ y.asked = TRUE
    BY <1>1, <1>2, <1>5, <2>1, <2>2
  <2>5. CASE y.asked = x.asked
    <3>1. g = RowAcquired(f, i)
      BY <1>1, <1>2, <2>4, <2>5, SeenAcquired DEF g
    <3>2. Handled(i)!Acquire(i)
      BY <1>1, <1>3, <2>3, <2>4, <3>1 DEF Handled!Acquire, Seen, RowAcquired, f
    <3> QED
      BY <3>2 DEF Handled!LeaseNext
  <2>6. CASE y.asked = TRUE
    <3>1. g = RowAcquiredCancelled(f, i)
      BY <1>1, <1>2, <2>4, <2>6, SeenAcquiredCancelled DEF g
    <3>2. Handled(i)!AcquireCancelled(i)
      BY <1>1, <1>3, <2>3, <2>4, <3>1 DEF Handled!AcquireCancelled, Seen, RowAcquiredCancelled, f
    <3> QED
      BY <3>2 DEF Handled!LeaseNext
  <2> QED
    BY <2>4, <2>5, <2>6
<1>13. ASSUME NEW n \in Nat \ {0},
              PutOff(i, n) \/ \E outcome \in {"succeeded", "failed", "cancelled"} :
                                Ended(i, n, outcome)
       PROVE  Handled(i)!LeaseNext
  <2>1. /\ status[i] = "running" /\ lease'[i].epoch = lease[i].epoch /\ SettledOf(i)' # SettledOf(i)
        /\ status'[i] \in {"queued", "succeeded", "partially_succeeded", "failed", "cancelled"}
        /\ \/ status'[i] = "cancelled" /\ cancel'[i].asked
           \/ status'[i] # "cancelled" /\ ~cancel[i].asked /\ KeepsAsked(i)
    BY <1>13 DEF PutOff, Ended, Answers
  <2>2. lease[i].left > 0 /\ lease'[i].left = 0
    BY <1>5, <2>1 DEF LeaseLives
  <2>3. x.status = "running" /\ x.held = TRUE /\ y.held = FALSE /\ y.epoch = x.epoch
    BY <1>1, <1>2, <1>held, <2>1, <2>2
  <2>4. CASE status'[i] = "cancelled" /\ cancel'[i].asked
    <3>1. y.status = "cancelled" /\ y.asked = TRUE
      BY <1>2, <1>5, <2>4
    <3> QED
      BY <1>8, <2>3, <3>1
  <2>5. CASE status'[i] # "cancelled" /\ ~cancel[i].asked /\ KeepsAsked(i)
    <3>1. /\ x.asked = FALSE /\ y.asked = FALSE
          /\ y.status \in {"queued", "succeeded", "partially_succeeded", "failed"}
      BY <1>1, <1>2, <1>4, <1>5, <2>1, <2>5
    <3> QED
      BY <1>8, <2>3, <3>1
  <2> QED
    BY <2>1, <2>4, <2>5
<1> QED
  BY <1>3, <1>9, <1>10, <1>11, <1>12, <1>13 DEF Lives

(* The lease of any job is the one that the modules of the handlers rely   *)
(* on: whatever crashes, is delivered twice, cancelled or retried, what a  *)
(* handler sees of its row changes by the actions of LeasedJob.            *)
THEOREM LeaseIsTheHandlers == ASSUME NEW j \in Jobs PROVE Spec => LeaseAsHandled(j)
<1>1. Init => Handled(j)!JobInit
  <2> SUFFICES ASSUME Init PROVE Handled(j)!JobInit
    OBVIOUS
  <2>1. status[j] = "absent" /\ lease[j].epoch = 0 /\ lease[j].left = 0 /\ cancel[j].asked = FALSE
    BY DEF Init
  <2>2. SeenByHandler(j) = [status |-> "queued", epoch |-> 0, held |-> FALSE, asked |-> FALSE]
    <3>1. (lease[j].left > 0) = FALSE
      BY <2>1, HeldIs
    <3> QED
      BY <2>1, <3>1, Zenon DEF SeenByHandler
  <2> QED
    BY <2>2 DEF Handled!JobInit
<1>2. TypedInv /\ RowsFine /\ TypedInv' /\ RowsFine' /\ [Next]_vars
        => [Handled(j)!LeaseNext]_(Seen(j))
  BY LifeStep, LeaseStep, SeenStep DEF TypedInv
<1>3. [Handled(j)!LeaseNext]_(Seen(j)) => [Handled(j)!LeaseNext]_([i \in {j} |-> SeenByHandler(i)])
  BY DEF Seen
<1> QED
  BY <1>1, <1>2, <1>3, TypedAlways, RowsFineAlways, PTL
  DEF Spec, LeaseAsHandled, Handled!LeaseSpec

=============================================================================
