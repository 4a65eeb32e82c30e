------------------------------ MODULE Handlers ------------------------------
(***************************************************************************)
(* The handlers PaidCall, CollectionPages and EvidenceCleanup together, as *)
(* the worker runs them: the kind of a job says which handler it gets, and *)
(* jobs of every kind share the rows of the jobs table and the budgets of  *)
(* BudgetLedger.                                                           *)
(***************************************************************************)
EXTENDS PaidCall, CollectionPages, EvidenceCleanup

VARIABLE kind  \* jobs.kind: which handler a job gets, fixed when it is accepted

handlerVars == <<job, budgetVars, paidVars, pageVars, copyVars, kind>>

(* Calls to a model, collections by keyword, exports to a file. *)
Kinds == {"paid", "scan", "copy"}

(* The reservations of a call are never mistaken for those of a job that   *)
(* collects: each request gets an id of its own.                           *)
ASSUME RequestIdsAssumption == CallIds \cap Jobs = {}

HandlersInit ==
  /\ JobInit /\ LedgerInit /\ PaidInit /\ PageInit /\ CopyInit
  /\ kind \in [Jobs -> Kinds]

(* dispatch looks up the handler by the kind of the job. *)
Only(k) == \A j \in Jobs : kind[j] # k => job'[j] = job[j]

HandlersNext ==
  /\ UNCHANGED kind
  /\ \/ PaidNext /\ Only("paid") /\ UNCHANGED <<pageVars, copyVars>>
     \/ PageNext /\ Only("scan") /\ UNCHANGED <<paidVars, copyVars>>
     \/ CopyNext /\ Only("copy") /\ UNCHANGED <<budgetVars, paidVars, pageVars>>

HandlersSpec == HandlersInit /\ [][HandlersNext]_handlerVars

-----------------------------------------------------------------------------
(* Each variable has its type.                                             *)
HandlersTypeOK ==
  /\ JobTypeOK /\ LedgerTypeOK /\ PaidTypeOK /\ PageTypeOK /\ CopyTypeOK
  /\ kind \in [Jobs -> Kinds]
=============================================================================
