---------------------------- MODULE BudgetLedger ----------------------------
(***************************************************************************)
(* The resource budgets of jobs/services.py: policies that limit a metric  *)
(* in a scope per window of time, the windows they open, the reservations  *)
(* held against them and the usage attempts that explain them.             *)
(*                                                                         *)
(* Every operation runs inside a transaction of its caller, which may      *)
(* reserve or settle several budgets and is rolled back as a whole. They   *)
(* are therefore operators on the ledger, and the actions are those of the *)
(* callers (PaidCall, CollectionPages). Only the operator who saves a      *)
(* policy and the clock act here. A policy that is not yet anchored is a   *)
(* disabled one, and the capacity metric, which no caller uses, is left    *)
(* out.                                                                    *)
(***************************************************************************)
EXTENDS Integers, FiniteSets, FiniteSetsExt

CONSTANTS
  Budgets,      \* records [metric, scope, ticks, limit]: one policy each, the ticks of its
                \* window and its first limit
  Limits,       \* limits an operator may save later
  (* bounds of the model, never of the code *)
  Saved,        \* budgets whose policy the operator saves again
  MaxTime, MaxVersion

ASSUME BudgetsAssumption ==
  /\ IsFiniteSet(Budgets)
  /\ MaxTime \in Nat /\ MaxVersion \in Nat \ {0}
  /\ Limits \subseteq Nat /\ Saved \subseteq Budgets
  /\ \A b \in Budgets : b.ticks \in Nat \ {0} /\ b.limit \in Nat

VARIABLES
  policy,  \* resource_budget_policies
  ledger,  \* windows, reservations (rows) and usage attempts
  now

budgetVars == <<policy, ledger, now>>

Unsettled == -1

RowsOf(l, id) == {r \in l.rows : r.id = id}
Requested(l, id) == (CHOOSE r \in RowsOf(l, id) : TRUE).requested
Charged(l, id) == (CHOOSE r \in RowsOf(l, id) : TRUE).actual
IsSettled(l, id) == RowsOf(l, id) # {} /\ Charged(l, id) # Unsettled

-----------------------------------------------------------------------------
(* Faulty variants, each with one plausible mistake, for the mutants that  *)
(* PROJECT.json lists. Nothing here is part of the specification.          *)

FitsTheGlobalOnly(l, hit, units) ==
  \A b \in {g \in hit : g.scope = "global"} :
    l.windows[b][now \div b.ticks].used + l.windows[b][now \div b.ticks].reserved + units
      <= policy[b].limit

SettledInTheCurrentWindow(l, id, units) ==
  LET before == IF IsSettled(l, id) THEN Charged(l, id) ELSE 0
      freed == IF IsSettled(l, id) THEN 0 ELSE Requested(l, id)
      Moved(b, w) == [used |-> l.windows[b][w].used + units - before,
                      reserved |-> l.windows[b][w].reserved - freed]
  IN [l EXCEPT
        !.windows = [b \in Budgets |->
          IF \E r \in RowsOf(l, id) : r.budget = b
            THEN [l.windows[b] EXCEPT ![now \div b.ticks] = Moved(b, now \div b.ticks)]
            ELSE l.windows[b]],
        !.rows = (l.rows \ RowsOf(l, id))
                   \cup {[r EXCEPT !.actual = units] : r \in RowsOf(l, id)}]

-----------------------------------------------------------------------------
LedgerTypeOK ==
  /\ policy \in [Budgets -> [limit : Nat, enabled : BOOLEAN, version : 1 .. MaxVersion]]
  /\ DOMAIN ledger.windows = Budgets
  /\ \A b \in Budgets : \A w \in 0 .. MaxTime :
       ledger.windows[b][w].used \in Nat /\ ledger.windows[b][w].reserved \in Nat
  /\ \A r \in ledger.rows :
       /\ r.budget \in Budgets /\ r.window \in 0 .. MaxTime
       /\ r.requested \in Nat \ {0} /\ r.actual \in Nat \cup {Unsettled}
  /\ \A id \in DOMAIN ledger.attempts :
       ledger.attempts[id] \in {"started", "succeeded", "failed"}
  /\ now \in 0 .. MaxTime

LedgerInit ==
  /\ policy = [b \in Budgets |-> [limit |-> b.limit, enabled |-> TRUE, version |-> 1]]
  /\ ledger = [windows |-> [b \in Budgets |-> [w \in 0 .. MaxTime |-> [used |-> 0, reserved |-> 0]]],
               rows |-> {}, attempts |-> <<>>]
  /\ now = 0

-----------------------------------------------------------------------------
(* Reserving.                                                              *)

Applicable(metric, scopes) ==
  {b \in Budgets : /\ b.metric = metric /\ b.scope \in scopes \cup {"global"}
                   /\ policy[b].enabled}

WindowNow(b) == now \div b.ticks

Fits(l, hit, units) ==
  \A b \in hit :
    l.windows[b][WindowNow(b)].used + l.windows[b][WindowNow(b)].reserved + units
      <= policy[b].limit

(* A repeated request is answered from its rows; a new one needs an active *)
(* global policy and room in the current window of every policy it meets.  *)
MayReserve(l, id, metric, scopes, units) ==
  LET hit == Applicable(metric, scopes) IN
    \/ RowsOf(l, id) # {}
    \/ (\E b \in hit : b.scope = "global") /\ Fits(l, hit, units)

Reserve(l, id, metric, scopes, units) ==
  LET hit == Applicable(metric, scopes) IN
  IF RowsOf(l, id) # {} THEN l ELSE
  [l EXCEPT
     !.windows = [b \in Budgets |->
       IF b \in hit THEN [l.windows[b] EXCEPT ![WindowNow(b)].reserved = @ + units]
                    ELSE l.windows[b]],
     !.rows = @ \cup {[id |-> id, budget |-> b, window |-> WindowNow(b),
                       version |-> policy[b].version, limit |-> policy[b].limit,
                       requested |-> units, actual |-> Unsettled] : b \in hit}]

-----------------------------------------------------------------------------
(* Settling. Only a receipt of the provider may exceed the request, and    *)
(* raise what was charged before.                                          *)

MaySettle(l, id, units, receipt) ==
  /\ RowsOf(l, id) # {}
  /\ receipt \/ units <= Requested(l, id)
  /\ IsSettled(l, id) => receipt \/ units = Charged(l, id)

(* The units move in the window they were reserved in.                     *)
Moved(l, id, units) ==
  LET before == IF IsSettled(l, id) THEN Charged(l, id) ELSE 0
      freed == IF IsSettled(l, id) THEN 0 ELSE Requested(l, id)
  IN [l EXCEPT
        !.windows = [b \in Budgets |-> [w \in 0 .. MaxTime |->
          IF \E r \in RowsOf(l, id) : r.budget = b /\ r.window = w
            THEN [used |-> l.windows[b][w].used + units - before,
                  reserved |-> l.windows[b][w].reserved - freed]
            ELSE l.windows[b][w]]],
        !.rows = (l.rows \ RowsOf(l, id))
                   \cup {[r EXCEPT !.actual = units] : r \in RowsOf(l, id)}]

Settle(l, id, units) ==
  IF IsSettled(l, id) /\ units <= Charged(l, id) THEN l ELSE Moved(l, id, units)

-----------------------------------------------------------------------------
(* Usage attempts.                                                         *)

AttemptOf(l, id) == IF id \in DOMAIN l.attempts THEN l.attempts[id] ELSE "none"

Noted(attempts, id, status) ==
  [i \in DOMAIN attempts \cup {id} |-> IF i = id THEN status ELSE attempts[i]]

BeginAttempt(l, id) ==
  IF AttemptOf(l, id) = "none" THEN [l EXCEPT !.attempts = Noted(@, id, "started")] ELSE l

MayFinish(l, id, outcome) == AttemptOf(l, id) \in {"started", outcome}

FinishAttempt(l, id, outcome) == [l EXCEPT !.attempts = Noted(@, id, outcome)]

(* recover_abandoned_attempts_in_transaction: charge what was requested.   *)
RecoverAttempts(l, ids) ==
  FoldSet(LAMBDA id, rest :
            FinishAttempt(Settle(rest, id, Requested(rest, id)), id, "failed"),
          l, {id \in ids : AttemptOf(l, id) = "started"})

-----------------------------------------------------------------------------
(* Saving a policy changes its limit or switches it, never its structure.  *)
SavePolicy(b) ==
  /\ b \in Saved /\ policy[b].version < MaxVersion
  /\ \E limit \in Limits, enabled \in BOOLEAN :
       /\ limit # policy[b].limit \/ enabled # policy[b].enabled
       /\ policy' = [policy EXCEPT ![b] = [limit |-> limit, enabled |-> enabled,
                                            version |-> @.version + 1]]
  /\ UNCHANGED <<ledger, now>>

Tick ==
  /\ now < MaxTime
  /\ now' = now + 1
  /\ UNCHANGED <<policy, ledger>>

-----------------------------------------------------------------------------
(* What the rows of a window add up to.                                    *)

RowsIn(l, b, w) == {r \in l.rows : r.budget = b /\ r.window = w}
OpenRows(rows) == {r \in rows : r.actual = Unsettled}
Committed(r) == IF r.actual = Unsettled \/ r.actual > r.requested THEN r.requested ELSE r.actual

RequestedIn(rows) == SumFunction([r \in rows |-> r.requested])
ChargedIn(rows) == SumFunction([r \in rows |-> r.actual])
CommittedIn(rows) == SumFunction([r \in rows |-> Committed(r)])

(* Each window holds exactly what its reservations say: requested units    *)
(* while they are open, charged units once they are settled, in whatever   *)
(* window and after however many retries that happened. The rows of one    *)
(* reservation agree, so none of the "inconsistent" errors of              *)
(* _settle_budget_reservation_in_transaction can be raised.                *)
WindowsBalance ==
  /\ \A b \in Budgets : \A w \in 0 .. MaxTime :
       LET here == RowsIn(ledger, b, w)
       IN /\ ledger.windows[b][w].reserved = RequestedIn(OpenRows(here))
          /\ ledger.windows[b][w].used = ChargedIn(here \ OpenRows(here))
  /\ \A r, s \in ledger.rows :
       r.id = s.id => r.requested = s.requested /\ r.actual = s.actual

(* What may be spent in a window never exceeds the largest limit one of    *)
(* its reservations was granted under; only what a provider charged beyond *)
(* the requested cap can (reserve_budget_in_transaction: several scopes,   *)
(* several callers, limits that change in between).                        *)
NeverOversold ==
  \A b \in Budgets : \A w \in 0 .. MaxTime :
    LET here == RowsIn(ledger, b, w)
    IN here # {} => \E r \in here : CommittedIn(here) <= r.limit
=============================================================================
