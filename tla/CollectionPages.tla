-------------------------- MODULE CollectionPages --------------------------
(***************************************************************************)
(* Keyword collection page by page (content/discovery_execution.py,        *)
(* content/discovery.py, jobs/cursor.py and the coverage windows of        *)
(* jobs/services.py): every HTTP request is reserved and counted before it *)
(* is sent, every page is committed with its cursor, its coverage and the  *)
(* usage of its requests in one transaction. The token of the next page    *)
(* lives in memory only, so a new handler starts the scan again, once.     *)
(*                                                                         *)
(* Jobs may share a window. A page is the number of its token; what was    *)
(* really scanned (trail, window.proof) is a history no process reads.     *)
(***************************************************************************)
EXTENDS LeasedJob, BudgetLedger

CONSTANTS
  MaxPages,     \* pages of a job: 1 to 20 in the code
  MaxRequests,  \* requests of a collection cycle: 1 to 100 in the code
  MaxRescans,   \* 1 in the code
  MaxTotal      \* bound of the model: requests of each job over all its cycles

ASSUME PageAssumption ==
  /\ MaxPages \in Nat \ {0} /\ MaxRequests \in Nat /\ MaxRescans \in Nat
  /\ MaxTotal \in [Jobs -> Nat]

VARIABLES
  cursor,    \* the checkpoint of each job
  sent,      \* requests counted in each job row, and whether its cycle is over
  window,    \* the coverage window the jobs share
  scanners,  \* handlers, with the epoch and the live token each one holds
  trail      \* history: the epoch that scans and the last page it reached from page 1

pageVars == <<cursor, sent, window, scanners, trail>>

NoToken == 0
Broken == -1
NoJob == "none"

EmptyCursor == [pages |-> 0, rescans |-> 0, seen |-> {}, expected |-> NoToken,
                restart |-> FALSE, done |-> FALSE, seq |-> 0]

Attempts(j) == {<<j, n>> : n \in 1 .. MaxTotal[j]}

-----------------------------------------------------------------------------
(* Faulty variants, each with one plausible mistake, for the mutants that  *)
(* PROJECT.json lists. Nothing here is part of the specification.          *)

CommitTrustsTheScan(h) == window.status # "confirmed" /\ cursor[h.job].pages < MaxPages

AbandonedOfNobody(j) == {}

-----------------------------------------------------------------------------
PageTypeOK ==
  /\ cursor \in [Jobs -> [pages : 0 .. MaxPages, rescans : 0 .. MaxRescans,
                          seen : SUBSET (1 .. MaxPages + 1), expected : 0 .. MaxPages + 1,
                          restart : BOOLEAN, done : BOOLEAN, seq : 0 .. MaxPages]]
  /\ sent \in [Jobs -> [total : Nat, cycle : 0 .. MaxRequests, closed : BOOLEAN]]
  /\ window \in [status : {"absent", "running", "partial", "confirmed"}, job : Jobs \cup {NoJob},
                 seq : 0 .. MaxPages, proof : {Broken} \cup 0 .. MaxPages]
  /\ \A h \in scanners :
       /\ h.job \in Jobs /\ h.epoch \in 1 .. job[h.job].epoch
       /\ h.pc \in {"start", "loop", "fetching", "stopped", "failing", "confirmed", "report"}
       /\ h.token \in 0 .. MaxPages + 1 /\ h.pending \subseteq Attempts(h.job)
  /\ trail \in [Jobs -> [epoch : Nat, page : {Broken} \cup 0 .. MaxPages]]

PageInit ==
  /\ cursor = [j \in Jobs |-> EmptyCursor]
  /\ sent = [j \in Jobs |-> [total |-> 0, cycle |-> 0, closed |-> FALSE]]
  /\ window = [status |-> "absent", job |-> NoJob, seq |-> 0, proof |-> 0]
  /\ scanners = {}
  /\ trail = [j \in Jobs |-> [epoch |-> 0, page |-> 0]]

Becomes(h, new) == scanners' = (scanners \ {h}) \cup {new}
Reports(h, outcome) == Becomes(h, [h EXCEPT !.pc = "report", !.outcome = outcome, !.pending = {}])

(* A retry by hand opens a new budget cycle; an expired lease does not.    *)
ScanAcquire(j) ==
  /\ Acquire(j)
  /\ sent' = [sent EXCEPT ![j].cycle = IF sent[j].closed THEN 0 ELSE @, ![j].closed = FALSE]
  /\ scanners' = scanners \cup
       {[job |-> j, epoch |-> job[j].epoch + 1, pc |-> "start", token |-> NoToken,
         seq |-> cursor[j].seq, first |-> TRUE, rescan |-> FALSE, pending |-> {},
         outcome |-> "none"]}
  /\ UNCHANGED <<budgetVars, cursor, window, trail>>

-----------------------------------------------------------------------------
(* Coverage windows. begin_in_transaction opens the window for a job,      *)
(* unless it is confirmed or runs under another job, which raises.         *)

Confirmed == window.status = "confirmed"
OwnedByAnother(j) == window.status = "running" /\ window.job # j
Begun(j) ==
  IF Confirmed \/ (window.status = "running" /\ window.job = j) THEN window
  ELSE [window EXCEPT !.status = "running", !.job = j, !.seq = cursor[j].seq]

MayMarkPartial(j) ==
  ~Confirmed /\ ~OwnedByAnother(j) /\ Begun(j).seq = cursor[j].seq
MarkPartial(j) == window' = [Begun(j) EXCEPT !.status = "partial"]

(* The terminal page of this very checkpoint was committed before a crash. *)
ConfirmedByJob(j) ==
  Confirmed /\ window.job = j /\ window.seq = cursor[j].seq /\ cursor[j].seq > 0

-----------------------------------------------------------------------------
(* The cursor: plan_cursor_request and advance_cursor_page.                *)

MustRescan(c, token) == c.restart \/ (c.expected # NoToken /\ token = NoToken)

Exhausted(c, token) ==
  c.pages >= MaxPages \/ c.done \/ (MustRescan(c, token) /\ c.rescans >= MaxRescans)

RestartReasons == {"cursor_expired", "cursor_loop", "rate_limited", "upstream_error"}

(* The page the source answered with: what it says, the next token, and    *)
(* why it stopped.                                                         *)
PagesOf(token) ==
  LET page == IF token = NoToken THEN 1 ELSE token IN
  [state : {"more"}, next : 1 .. page + 1, reason : {"none"}, proof : {FALSE}]
    \cup [state : {"complete"}, next : {NoToken}, reason : {"none"}, proof : BOOLEAN]
    \cup [state : {"stopped"}, next : {NoToken}, proof : {FALSE},
          reason : {"rate_limited", "protocol_error"}]

Advanced(c, rescan, page) ==
  LET seen == IF rescan THEN {} ELSE c.seen
      pages == c.pages + 1
      looped == page.state = "more" /\ page.next \in seen
      cut == page.state = "more" /\ ~looped /\ pages >= MaxPages
      goes == page.state = "more" /\ ~looped /\ ~cut
      reason == IF looped THEN "cursor_loop" ELSE IF cut THEN "budget_exhausted" ELSE page.reason
      restart == reason \in RestartReasons
  IN [pages |-> pages, rescans |-> IF rescan THEN c.rescans + 1 ELSE c.rescans,
      seen |-> IF goes THEN seen \cup {page.next} ELSE seen,
      expected |-> IF goes THEN page.next ELSE NoToken,
      restart |-> restart, done |-> ~goes /\ ~restart, seq |-> c.seq + 1]

Ends(page, next) == page.state = "complete" /\ next.expected = NoToken

-----------------------------------------------------------------------------
(* KeywordDiscoveryExecutor.execute.                                       *)

(* The first look of a handler: the job was finished before its crash, it  *)
(* was cancelled, its time is over, or it goes on.                         *)
RecognizeDone(h) ==
  /\ h.pc = "start"
  /\ IF cursor[h.job].done /\ MayWork(h.job, h.epoch) /\ ConfirmedByJob(h.job)
       THEN Reports(h, "succeeded")
       ELSE /\ cursor[h.job].done => MayWork(h.job, h.epoch)
            /\ Becomes(h, [h EXCEPT !.pc = "loop"])
  /\ UNCHANGED <<job, budgetVars, cursor, sent, window, trail>>

(* A cancel, or the deadline of the cycle, stops the scan between pages.   *)
StopBetweenPages(h) ==
  /\ h.pc = "loop" /\ Holds(h.job, h.epoch)
  /\ IF MayMarkPartial(h.job) /\ (~job[h.job].asked => MayWork(h.job, h.epoch))
       THEN /\ MarkPartial(h.job)
            /\ Reports(h, IF job[h.job].asked THEN "succeeded" ELSE "partially_succeeded")
       ELSE Reports(h, "failed") /\ UNCHANGED window
  /\ UNCHANGED <<job, budgetVars, cursor, sent, trail>>

CursorExhausted(h) ==
  /\ h.pc = "loop" /\ MayWork(h.job, h.epoch)
  /\ Exhausted(cursor[h.job], h.token)
  /\ Reports(h, "partially_succeeded")
  /\ UNCHANGED <<job, budgetVars, cursor, sent, window, trail>>

(* before_request, for the first request of a page or another one of it.   *)
CollectionScopes == {"source", "job"}
Fetches(h) ==
  /\ MayWork(h.job, h.epoch)
  /\ \/ h.pc = "loop" /\ ~Exhausted(cursor[h.job], h.token)
     \/ h.pc = "fetching"

NextRequest(j) == <<j, sent[j].total + 1>>

(* The first request of a handler settles what an earlier epoch left open. *)
Recovered(h) == IF h.first THEN RecoverAttempts(ledger, Attempts(h.job)) ELSE ledger

(* The page h asks for: another request of the same page changes nothing.  *)
Asking(h) ==
  LET rescan == MustRescan(cursor[h.job], h.token) IN
  IF h.pc = "fetching" THEN h
  ELSE [h EXCEPT !.rescan = rescan, !.token = IF rescan THEN NoToken ELSE @]

Request(h) ==
  LET j == h.job
      id == NextRequest(j)
  IN
  /\ Fetches(h)
  /\ sent[j].cycle < MaxRequests /\ sent[j].total < MaxTotal[j]
  /\ MayReserve(Recovered(h), id, "network", CollectionScopes, 1)
  /\ ledger' = BeginAttempt(Reserve(Recovered(h), id, "network", CollectionScopes, 1), id)
  /\ sent' = [sent EXCEPT ![j].total = @ + 1, ![j].cycle = @ + 1]
  /\ Becomes(h, [Asking(h) EXCEPT !.pc = "fetching", !.first = FALSE, !.pending = @ \cup {id}])
  /\ UNCHANGED <<job, policy, now, cursor, window, trail>>

(* The budget refuses a request, and the adapter returns a stopped page.   *)
(* What was recovered before stays.                                        *)
Denied(h) ==
  LET j == h.job IN
  /\ Fetches(h)
  /\ \/ sent[j].cycle >= MaxRequests
     \/ ~MayReserve(ledger, NextRequest(j), "network", CollectionScopes, 1)
  /\ ledger' = Recovered(h)
  /\ Becomes(h, [Asking(h) EXCEPT !.pc = "stopped"])
  /\ UNCHANGED <<job, policy, now, cursor, sent, window, trail>>

(* commit_page: nothing of it happens unless the lease, the checkpoint and *)
(* the window still are those of this scan.                                *)
MayCommit(h) ==
  /\ MayWork(h.job, h.epoch) /\ h.seq = cursor[h.job].seq
  /\ ~Confirmed /\ ~OwnedByAnother(h.job)

Settled(l, ids, outcome) ==
  FoldSet(LAMBDA id, rest : FinishAttempt(Settle(rest, id, 1), id, outcome), l, ids)

(* A page that stopped the scan without an item fails the job, which is    *)
(* retried when another request could still be sent.                       *)
PartialOutcomes(j, page, next) ==
  {"partially_succeeded"}
    \cup {o \in {"failed", "queued"} :
            /\ page.state = "stopped" /\ page.reason # "budget_exhausted"
            /\ o = "queued" => /\ next.restart /\ next.pages < MaxPages
                              /\ next.rescans < MaxRescans /\ sent[j].cycle < MaxRequests}

CommitPage(h, page) ==
  LET j == h.job
      next == Advanced(cursor[j], h.rescan, page)
      number == IF h.token = NoToken THEN 1 ELSE h.token
      reached == IF number = 1 \/ trail[j] = [epoch |-> h.epoch, page |-> number - 1]
                   THEN number ELSE Broken
      status == IF next.expected # NoToken THEN "running"
                ELSE IF Ends(page, next) /\ page.proof THEN "confirmed" ELSE "partial"
  IN
  /\ cursor' = [cursor EXCEPT ![j] = next]
  /\ trail' = [trail EXCEPT ![j] = [epoch |-> h.epoch, page |-> reached]]
  /\ window' = [status |-> status, job |-> j, seq |-> next.seq,
                proof |-> IF status = "confirmed" THEN reached ELSE window.proof]
  /\ ledger' = Settled(ledger, h.pending,
                       IF page.state \in {"more", "complete"} THEN "succeeded" ELSE "failed")
  /\ LET fresh == [h EXCEPT !.seq = next.seq, !.pending = {}, !.token = next.expected,
                            !.rescan = FALSE]
     IN \/ status = "running" /\ Becomes(h, [fresh EXCEPT !.pc = "loop"])
        \/ status = "confirmed" /\ Becomes(h, [fresh EXCEPT !.pc = "confirmed"])
        \/ status = "partial" /\ \E outcome \in PartialOutcomes(j, page, next) :
             Becomes(h, [fresh EXCEPT !.pc = "report", !.outcome = outcome])

Commit(h) ==
  /\ h.pc \in {"fetching", "stopped"} /\ MayCommit(h)
  /\ IF h.pc = "fetching"
       THEN \E page \in PagesOf(h.token) : CommitPage(h, page)
       ELSE CommitPage(h, [state |-> "stopped", next |-> NoToken, proof |-> FALSE,
                           reason |-> "budget_exhausted"])
  /\ UNCHANGED <<job, policy, now, sent>>

(* The fetch or the commit raised: the pending requests are charged in a   *)
(* transaction of their own, which asks for no lease. It fails as a whole  *)
(* when one of them was already settled otherwise.                         *)
FailPending(h) ==
  /\ h.pc \in {"loop", "fetching", "stopped"}
  /\ \A id \in h.pending : MaySettle(ledger, id, 1, FALSE) /\ MayFinish(ledger, id, "failed")
  /\ ledger' = Settled(ledger, h.pending, "failed")
  /\ Becomes(h, [h EXCEPT !.pc = "failing", !.pending = {}])
  /\ UNCHANGED <<job, policy, now, cursor, sent, window, trail>>

(* A cancel or a transient failure marks the window; the job is retried by *)
(* its own policy or by a person.                                          *)
Fail(h) ==
  /\ h.pc = "failing"
  /\ \/ /\ Holds(h.job, h.epoch) /\ MayMarkPartial(h.job)
        /\ MarkPartial(h.job)
        /\ Reports(h, IF job[h.job].asked THEN "succeeded" ELSE "queued")
     \/ Reports(h, "failed") /\ UNCHANGED window
  /\ UNCHANGED <<job, budgetVars, cursor, sent, trail>>

(* The source's last success is recorded under the lease.                  *)
RecordSuccess(h) ==
  /\ h.pc = "confirmed"
  /\ Reports(h, IF MayWork(h.job, h.epoch) THEN "succeeded" ELSE "failed")
  /\ UNCHANGED <<job, budgetVars, cursor, sent, window, trail>>

-----------------------------------------------------------------------------
(* _finalize_supervised_result: the parent, after its child has ended. It  *)
(* charges what the child left open and marks a cancelled window, in the   *)
(* transaction that settles the job; when that raises nothing is stored.   *)

LeftOpen(j) == Attempts(j)

Finalize(h) ==
  /\ h.pc = "report"
  /\ scanners' = scanners \ {h}
  /\ IF Holds(h.job, h.epoch) /\ (job[h.job].asked => ~OwnedByAnother(h.job))
       THEN /\ ledger' = RecoverAttempts(ledger, LeftOpen(h.job))
            /\ IF job[h.job].asked /\ ~Confirmed THEN MarkPartial(h.job) ELSE UNCHANGED window
            /\ job' = Released(h.job, h.outcome)
       ELSE UNCHANGED <<job, ledger, window>>
  /\ UNCHANGED <<policy, now, cursor, sent, trail>>

(* The child ends on its own, is killed for a cancel or dies; its parent   *)
(* reports for it, unless the parent died too.                             *)
ScannerDies(h) ==
  /\ \/ scanners' = scanners \ {h}
     \/ h.pc # "report" /\ Reports(h, "failed")
  /\ UNCHANGED <<job, budgetVars, cursor, sent, window, trail>>

ScanJobMoves(j) ==
  /\ \/ (LeaseEnds(j) \/ AskCancel(j)) /\ UNCHANGED sent
     \/ RetryByHand(j) /\ sent' = [sent EXCEPT ![j].closed = TRUE]
  /\ UNCHANGED <<budgetVars, cursor, window, scanners, trail>>

ScanBudgetMoves ==
  /\ (\E b \in Budgets : SavePolicy(b)) \/ Tick
  /\ UNCHANGED <<job, pageVars>>

PageNext ==
  \/ \E j \in Jobs : ScanAcquire(j) \/ ScanJobMoves(j)
  \/ \E h \in scanners :
       \/ RecognizeDone(h) \/ StopBetweenPages(h) \/ CursorExhausted(h) \/ Request(h)
       \/ Denied(h) \/ Commit(h) \/ FailPending(h) \/ Fail(h) \/ RecordSuccess(h)
       \/ Finalize(h) \/ ScannerDies(h)
  \/ ScanBudgetMoves

PageSpec == JobInit /\ LedgerInit /\ PageInit /\ [][PageNext]_<<job, budgetVars, pageVars>>

-----------------------------------------------------------------------------
(* A window is confirmed only by one job that scanned it without a gap:    *)
(* every page from the first to the proven last, in order, whatever        *)
(* crashed, was retried or was fetched twice in between.                   *)
ConfirmedWindowWasScanned == Confirmed => window.proof > 0

(* A collection that a handler settled has charged every request it ever   *)
(* sent: no usage attempt stays open and no unit reserved for ever.        *)
SettledCollectionOwesNothing ==
  \A j \in Jobs : job[j].status \in Finished \ {"cancelled"} =>
    \A id \in DOMAIN ledger.attempts \cap Attempts(j) :
      ledger.attempts[id] # "started" /\ IsSettled(ledger, id)
=============================================================================
