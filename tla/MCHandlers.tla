----------------------------- MODULE MCHandlers -----------------------------
(* Handlers for TLC, in small scenarios: each lets some jobs run, of one    *)
(* kind or, in the last, of two. The other jobs stay queued.                *)
EXTENDS Handlers, TLC

CONSTANTS j1, j2, j3, p1, o1

VARIABLE scenario

vars == <<handlerVars, scenario>>

(* j1 may be acquired twice, the others once. *)
Epochs == [j \in Jobs |-> IF j = j1 THEN 2 ELSE 1]
Totals == [j \in Jobs |-> IF j = j1 THEN 3 ELSE 1]

Budget(metric, scope, ticks, limit) ==
  [metric |-> metric, scope |-> scope, ticks |-> ticks, limit |-> limit]
NetworkOfSource == Budget("network", "source", 2, 3)
AllBudgets ==
  {Budget("network", "global", 1, 3), NetworkOfSource, Budget("spend", "global", 1, 4),
   Budget("spend", "source", 2, 4), Budget("analysis", "global", 2, 2)}
OneSaved == {NetworkOfSource}

(* The jobs that run, by kind. *)
Runs(s) ==
  CASE s = "paid"      -> j1 :> "paid"
    [] s = "scan"      -> j1 :> "scan"
    [] s = "shared"    -> j2 :> "scan" @@ j3 :> "scan"
    [] s \in {"erased", "cancelled"} -> j2 :> "copy"
    [] s = "rewritten" -> j1 :> "copy"
    [] s = "mixed"     -> j2 :> "paid" @@ j3 :> "scan"
Scenarios == {"paid", "scan", "shared", "erased", "rewritten", "cancelled", "mixed"}

Init ==
  /\ HandlersInit
  /\ scenario \in Scenarios
  /\ kind = [j \in Jobs |-> IF j \in DOMAIN Runs(scenario) THEN Runs(scenario)[j] ELSE "copy"]
  /\ scenario \notin {"paid", "mixed"} => price = 0
  /\ scenario = "mixed" => price # 0

(* The bounds of each scenario. A window of time ends between two scans or *)
(* at any point of a call that costs a fee, a policy is saved between two  *)
(* scans, and an export that meets two failed removals keeps its lease.    *)
Bounds ==
  /\ \A j \in Jobs \ DOMAIN Runs(scenario) : job'[j] = job[j]
  /\ scenario \notin {"erased", "rewritten", "cancelled"} => copyVars' = copyVars
  /\ scenario # "shared" => policy' = policy
  /\ scenario \in {"shared", "mixed"} \/ (scenario = "paid" /\ price = 0) => now' = now
  /\ scenario = "scan" /\ scanners # {} => now' = now
  /\ scenario = "shared" /\ scanners # {} => policy' = policy
  /\ scenario \in {"erased", "rewritten", "mixed"} => \A j \in Jobs : ~job'[j].asked
  /\ scenario = "shared" => ~job'[j3].asked
  /\ scenario = "erased" => job'[j2].held \/ job'[j2].status # "running"
  /\ scenario \in {"rewritten", "cancelled"} => \A t \in Targets : cleanups'[t].count <= 1
  /\ scenario \in {"erased", "rewritten", "cancelled"} => budgetVars' = budgetVars

Next == HandlersNext /\ Bounds /\ UNCHANGED scenario

Spec == Init /\ [][Next]_vars
=============================================================================
