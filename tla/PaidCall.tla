------------------------------ MODULE PaidCall ------------------------------
(***************************************************************************)
(* Calls of a language model made by a job (ai/services.py,                *)
(* jobs/ai_budgets.py): each is reserved in one transaction, sent, and     *)
(* finished in another. The provider may charge for a call whose answer    *)
(* never arrives, so a call of unknown outcome keeps its whole cap charged *)
(* and is not repeated.                                                    *)
(*                                                                         *)
(* The worker quarantines the calls of earlier epochs when it acquires the *)
(* job, while the process that made them may still wait for the provider   *)
(* and finish them later.                                                  *)
(***************************************************************************)
EXTENDS LeasedJob, BudgetLedger

CONSTANTS
  Purposes,
  Prices,    \* caps a catalogue may give a call, 0 for a free provider
  Fees,      \* what a provider may charge
  MaxCalls   \* bound of the model

ASSUME PaidAssumption ==
  /\ Jobs # {} /\ Purposes # {}
  /\ MaxCalls \in Nat /\ Prices \subseteq Nat /\ Fees \subseteq Nat

VARIABLES
  price,     \* the frozen cap of the job's model
  calls,     \* ai_calls
  callers,   \* handlers of the job, with the epoch each one holds
  acked      \* calls whose overrun an operator acknowledged

paidVars == <<price, calls, callers, acked>>

CallIds == 1 .. MaxCalls
Unknown == -1
Results == {"ok", "no_usage", "over_tokens", "rate_limited", "timeout", "error"}
Outcomes == {"succeeded", "failed", "unknown"}
NoAnswer == [status |-> "none", actual |-> Unknown, completion |-> FALSE]

Network(c) == <<c, "network">>
Spend(c) == <<c, "spend">>
Analysis(c) == <<c, "analysis">>

Made == {c \in CallIds : calls[c].status # "none"}
Paid == price > 0
Cap == IF Paid THEN price ELSE 1
LargerOf(a, b) == IF a >= b THEN a ELSE b

-----------------------------------------------------------------------------
(* Faulty variants, each with one plausible mistake, for the mutants that  *)
(* PROJECT.json lists. Nothing here is part of the specification.          *)

UnresolvedRunning(j, p) ==
  {c \in Made : calls[c].job = j /\ calls[c].purpose = p /\ calls[c].status = "running"}

ChargeActualOnly(c, active, status, actual) ==
  IF actual = Unknown /\ ~Paid THEN 0 ELSE actual

AbandonedLongAgo(j, epoch) ==
  {c \in Made : calls[c].job = j /\ calls[c].status = "running" /\ calls[c].epoch < epoch - 1}

-----------------------------------------------------------------------------
PaidTypeOK ==
  /\ price \in Prices
  /\ calls \in [CallIds -> [status : Outcomes \cup {"none", "running"},
                            job : Jobs, purpose : Purposes, epoch : Nat,
                            actual : Fees \cup {Unknown}]]
  /\ callers \subseteq [job : Jobs, epoch : Nat \ {0},
                        pc : {"new", "ready", "calling", "answered", "checking", "failed"},
                        call : {0} \cup CallIds,
                        answer : [status : Outcomes \cup {"none"}, actual : Fees \cup {Unknown},
                                  completion : BOOLEAN]]
  /\ acked \subseteq CallIds

PaidInit ==
  /\ price \in Prices
  /\ calls = [c \in CallIds |-> [status |-> "none", job |-> CHOOSE j \in Jobs : TRUE,
                                 purpose |-> CHOOSE p \in Purposes : TRUE, epoch |-> 0,
                                 actual |-> Unknown]]
  /\ callers = {}
  /\ acked = {}

Goes(h, pc) == callers' = (callers \ {h}) \cup {[h EXCEPT !.pc = pc]}

-----------------------------------------------------------------------------
(* The worker acquires the job and quarantines what its last handler left. *)

PaidAcquire(j) ==
  /\ Acquire(j)
  /\ callers' = callers \cup {[job |-> j, epoch |-> job[j].epoch + 1, pc |-> "new", call |-> 0,
                               answer |-> NoAnswer]}
  /\ UNCHANGED <<budgetVars, price, calls, acked>>

Abandoned(j, epoch) ==
  {c \in Made : calls[c].job = j /\ calls[c].status = "running" /\ calls[c].epoch < epoch}

(* settle_ai_provider_budgets_in_transaction: an unknown cost charges the  *)
(* cap, and a settled reservation only hears of a higher fee.              *)
SettleProvider(l, c, charged) ==
  LET network == IF IsSettled(l, Network(c)) THEN l ELSE Settle(l, Network(c), 1)
  IN IF charged = Unknown
       THEN IF IsSettled(l, Spend(c)) THEN network ELSE Settle(network, Spend(c), Cap)
       ELSE Settle(network, Spend(c), charged)

Quarantine(l, c) ==
  FinishAttempt(Settle(SettleProvider(l, c, Unknown), Analysis(c), 1), Analysis(c), "failed")

QuarantineAll(l, lost) == FoldSet(LAMBDA c, rest : Quarantine(rest, c), l, lost)

RecoverCalls(h) ==
  /\ h.pc = "new" /\ MayWork(h.job, h.epoch)
  /\ LET lost == Abandoned(h.job, h.epoch) IN
       /\ ledger' = QuarantineAll(ledger, lost)
       /\ calls' = [c \in CallIds |->
                      IF c \in lost THEN [calls[c] EXCEPT !.status = "unknown"] ELSE calls[c]]
  /\ Goes(h, "ready")
  /\ UNCHANGED <<job, policy, now, price, acked>>

-----------------------------------------------------------------------------
(* AiService._reserve.                                                     *)

Unresolved(j, p) ==
  {c \in Made : /\ calls[c].job = j /\ calls[c].purpose = p
                /\ calls[c].status \in {"running", "unknown"}}

(* A fee above its cap opens the circuit of the model for everybody.       *)
CircuitOpen == \E c \in Made : calls[c].actual > price /\ c \notin acked

ProviderScopes == {"source", "job"}

(* The provider needs a budget of its own component besides the global one.*)
ComponentBudget(metric) == \E b \in Applicable(metric, ProviderScopes) : b.scope = "source"

Admitted(j, p, c) ==
  /\ Paid => Unresolved(j, p) = {}
  /\ ~CircuitOpen
  /\ ComponentBudget("network") /\ ComponentBudget("spend")
  /\ MayReserve(ledger, Network(c), "network", ProviderScopes, 1)
  /\ MayReserve(ledger, Spend(c), "spend", ProviderScopes, Cap)
  /\ MayReserve(ledger, Analysis(c), "analysis", {"job"}, 1)

ReserveCall(h, p) ==
  LET c == Cardinality(Made) + 1
      provider == Reserve(Reserve(ledger, Network(c), "network", ProviderScopes, 1),
                          Spend(c), "spend", ProviderScopes, Cap)
  IN
  /\ h.pc = "ready" /\ MayWork(h.job, h.epoch)
  /\ c \in CallIds
  /\ Admitted(h.job, p, c)
  /\ ledger' = BeginAttempt(Reserve(provider, Analysis(c), "analysis", {"job"}, 1), Analysis(c))
  /\ calls' = [calls EXCEPT ![c] = [status |-> "running", job |-> h.job, purpose |-> p,
                                    epoch |-> h.epoch, actual |-> Unknown]]
  /\ callers' = (callers \ {h}) \cup {[h EXCEPT !.pc = "calling", !.call = c]}
  /\ UNCHANGED <<job, policy, now, price, acked>>

-----------------------------------------------------------------------------
(* The provider takes the request, and whether its answer, the usage and   *)
(* the fee of it reach the caller is another matter. complete decides what *)
(* status to ask _finish for: whatever is not certainly free or certainly  *)
(* answered is unknown once the call is paid.                              *)
StatusOf(result) ==
  CASE result = "ok" -> "succeeded"
    [] result = "no_usage" -> IF Paid THEN "unknown" ELSE "succeeded"
    [] result \in {"over_tokens", "timeout"} -> "unknown"
    [] result = "rate_limited" -> "failed"
    [] OTHER -> IF Paid THEN "unknown" ELSE "failed"

HasCompletion(result, actual) ==
  result \in {"ok", "no_usage", "over_tokens"} \/ actual # Unknown

Answer(h) ==
  /\ h.pc = "calling"
  /\ \E result \in Results, actual \in Fees \cup {Unknown} :
       /\ result \in {"timeout", "rate_limited"} => actual = Unknown
       /\ callers' = (callers \ {h}) \cup
            {[h EXCEPT !.pc = "answered",
                       !.answer = [status |-> StatusOf(result), actual |-> actual,
                                   completion |-> HasCompletion(result, actual)]]}
  /\ UNCHANGED <<job, budgetVars, price, calls, acked>>

(* The fee charged: the one told, at least the cap when the outcome is     *)
(* unknown; nothing for a free provider that tells none.                   *)
ChargedFee(c, active, status, actual) ==
  CASE actual = Unknown /\ ~Paid -> 0
    [] actual # Unknown /\ ((active /\ status # "succeeded") \/ calls[c].status = "unknown")
         -> LargerOf(price, actual)
    [] OTHER -> actual

(* AiService._finish. The lease is not asked for: a late answer is stored  *)
(* and charged, but revives nothing.                                       *)
FinishCall(h) ==
  LET c == h.call
      active == calls[c].status = "running"
      status == h.answer.status
      actual == IF calls[c].actual = Unknown THEN h.answer.actual
                ELSE LargerOf(h.answer.actual, calls[c].actual)
      provider == IF active \/ actual # Unknown
                    THEN SettleProvider(ledger, c, ChargedFee(c, active, status, actual))
                    ELSE ledger
  IN
  /\ h.pc = "answered"
  /\ ledger' =
       IF active
         THEN FinishAttempt(Settle(provider, Analysis(c), 1), Analysis(c),
                            IF status = "succeeded" THEN "succeeded" ELSE "failed")
         ELSE provider
  /\ calls' = [calls EXCEPT
                 ![c].status = IF active THEN status ELSE @,
                 ![c].actual = IF active \/ h.answer.completion THEN actual ELSE @]
  /\ Goes(h, IF active /\ status = "succeeded" THEN "checking" ELSE "failed")
  /\ UNCHANGED <<job, policy, now, price, acked>>

(* The result is used only under the lease.                                *)
CheckLease(h) ==
  /\ h.pc = "checking"
  /\ Goes(h, IF MayWork(h.job, h.epoch) THEN "ready" ELSE "failed")
  /\ UNCHANGED <<job, budgetVars, price, calls, acked>>

-----------------------------------------------------------------------------
(* The handler reports; its report settles the job only under its lease. A *)
(* failure may be retried, by the job's own policy or by a person.         *)
Report(h) ==
  /\ h.pc \in {"ready", "failed"}
  /\ callers' = callers \ {h}
  /\ IF Holds(h.job, h.epoch)
       THEN \E outcome \in IF h.pc = "failed" THEN {"failed", "queued"}
                           ELSE {"succeeded", "partially_succeeded", "failed", "queued"} :
              job' = Released(h.job, outcome)
       ELSE UNCHANGED job
  /\ UNCHANGED <<budgetVars, price, calls, acked>>

(* _finalize_supervised_result for a child that ended without a report: it *)
(* met its deadline, raised, or was killed for a cancel. Its parent settles*)
(* the job under the lease, and leaves the calls of the child as they are. *)
(* A network error that the child raised is retried.                       *)
ParentSettles(h) ==
  /\ h.pc # "new" /\ Holds(h.job, h.epoch)
  /\ callers' = callers \ {h}
  /\ \E outcome \in {"failed", "queued"} : job' = Released(h.job, outcome)
  /\ UNCHANGED <<budgetVars, price, calls, acked>>

(* Processes die at any point, child and parent; those of a lost lease may *)
(* also live on.                                                           *)
CallerDies(h) ==
  /\ callers' = callers \ {h}
  /\ UNCHANGED <<job, budgetVars, price, calls, acked>>

JobMoves(j) ==
  /\ LeaseEnds(j) \/ AskCancel(j) \/ RetryByHand(j)
  /\ UNCHANGED <<budgetVars, paidVars>>

Acknowledge(c) ==
  /\ calls[c].actual > price /\ c \notin acked
  /\ acked' = acked \cup {c}
  /\ UNCHANGED <<job, budgetVars, price, calls, callers>>

(* An operator saves a policy, or time goes on.                            *)
BudgetMoves ==
  /\ (\E b \in Budgets : SavePolicy(b)) \/ Tick
  /\ UNCHANGED <<job, paidVars>>

PaidNext ==
  \/ \E j \in Jobs : PaidAcquire(j) \/ JobMoves(j)
  \/ \E h \in callers :
       \/ RecoverCalls(h) \/ Answer(h) \/ FinishCall(h) \/ CheckLease(h)
       \/ Report(h) \/ ParentSettles(h) \/ CallerDies(h)
       \/ \E p \in Purposes : ReserveCall(h, p)
  \/ \E c \in CallIds : Acknowledge(c)
  \/ BudgetMoves

PaidSpec == JobInit /\ LedgerInit /\ PaidInit /\ [][PaidNext]_<<job, budgetVars, paidVars>>

-----------------------------------------------------------------------------
(* A paid call whose outcome is open is the only one of its job and        *)
(* purpose, and no other was charged after it: neither a retry of the job  *)
(* nor a handler that outlived its lease pays for the same answer twice.   *)
OpenPaidCallIsNotRepeated ==
  Paid => \A c, d \in Made :
    /\ calls[c].job = calls[d].job /\ calls[c].purpose = calls[d].purpose
    /\ calls[c].status \in {"running", "unknown"} /\ c < d
    => FALSE

(* The budget is charged what is known to be owed: the told fee, the whole *)
(* cap as long as the outcome is unknown, whoever finished the call and    *)
(* in whatever order recovery and a late answer came.                      *)
FeesAreCharged ==
  \A c \in Made :
    /\ calls[c].status = "running" <=> ~IsSettled(ledger, Spend(c))
    /\ calls[c].status # "running" =>
         /\ Charged(ledger, Spend(c)) >= calls[c].actual
         /\ calls[c].status = "unknown" /\ Paid => Charged(ledger, Spend(c)) >= price

(* Recovery quarantines what any earlier handler left open, so a job has   *)
(* one open call at most, and it is the last: no handler that went to work *)
(* after it lets it be, and a job that a handler or a parent settled since *)
(* has it only if it failed under the lease that made the call. Such a     *)
(* call stays open until a person retries the job.                         *)
OpenCalls(j) == {c \in Made : calls[c].job = j /\ calls[c].status = "running"}

WaitsFor(h, c) ==
  h.pc \in {"calling", "answered"} /\ h.call = c /\ h.epoch = calls[c].epoch

OpenCallIsTheLastOne ==
  \A j \in Jobs : \A c \in OpenCalls(j) :
    /\ OpenCalls(j) = {c}
    /\ job[j].status \in Finished \ {"cancelled"} =>
         job[j].status = "failed" /\ job[j].epoch = calls[c].epoch
    /\ \A h \in callers :
         h.job = j /\ h.pc # "new" /\ h.epoch >= calls[c].epoch => WaitsFor(h, c)
=============================================================================
