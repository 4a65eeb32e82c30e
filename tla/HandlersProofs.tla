--------------------------- MODULE HandlersProofs ---------------------------
(***************************************************************************)
(* Theorems about the handlers together: any jobs of any kinds that share  *)
(* the jobs table, the budgets and the window of time. Each handler's      *)
(* invariant is kept by its own steps (the three modules extended here)    *)
(* and by those of the others, because they touch neither its jobs nor its *)
(* reservations.                                                           *)
(***************************************************************************)
EXTENDS Handlers, PaidCallProofs, CollectionPagesProofs, EvidenceCleanupProofs

OfKind(k) == {j \in Jobs : kind[j] = k}

(* The ids of all that the ledger holds.                                   *)
AllIds == Ids \cup PaidIds

HandlersInv ==
  /\ kind \in [Jobs -> Kinds]
  /\ NotRepeatedInv /\ SettledInv /\ CallsOf(OfKind("paid")) /\ PaidLedger(AllIds)
  /\ ScanInv /\ PageBounds /\ ScanLedger(AllIds, OfKind("scan"))
  /\ OpenInv

LEMMA IdsApart == Ids \cap PaidIds = {} /\ PaidIds \subseteq AllIds \ Ids /\ Ids \subseteq AllIds \ PaidIds
  BY RequestIdsAssumption DEF Ids, PaidIds, AllIds

LEMMA TouchesWider ==
  ASSUME NEW l, NEW m, NEW A, NEW B, A \subseteq B, Touches(l, m, A)
  PROVE  Touches(l, m, B)
BY DEF Touches

(* A step of a handler moves no job of another kind.                       *)
LEMMA OnlyMoves ==
  ASSUME NEW k, Only(k)
  PROVE  /\ \A j \in Jobs \ OfKind(k) : job'[j] = job[j]
         /\ \A other : other # k => \A j \in OfKind(other) : job'[j] = job[j]
BY DEF Only, OfKind

LEMMA HandlersStart == HandlersInit => HandlersInv
<1> SUFFICES ASSUME HandlersInit PROVE HandlersInv
  OBVIOUS
<1>1. JobInit /\ LedgerInit /\ PaidInit /\ PageInit /\ CopyInit /\ kind \in [Jobs -> Kinds]
  BY DEF HandlersInit
<1>2. NotRepeatedInv /\ SettledInv /\ OpenInv /\ PageBounds
  BY <1>1, NotRepeatedStarts, SettledStarts, OpenStarts, BoundsStart
<1>3. PaidLedger(AllIds)
  BY <1>1, PaidLedgerStarts
<1>4. ScanInv /\ ScanLedger(AllIds, OfKind("scan"))
  BY <1>1, ScanStarts
<1>5. CallsOf(OfKind("paid"))
  BY <1>1 DEF PaidInit, CallsOf, Made
<1> QED
  BY <1>1, <1>2, <1>3, <1>4, <1>5 DEF HandlersInv

(* A call reserves and is charged; collections and exports stay as they    *)
(* are.                                                                    *)
LEMMA PaidKeepsOthers ==
  ASSUME HandlersInv, PaidNext, Only("paid"), UNCHANGED <<pageVars, copyVars, kind>>
  PROVE  HandlersInv'
<1> DEFINE I == AllIds
<1>a. PICK K, P : K = OfKind("scan") /\ P = OfKind("paid")
  OBVIOUS
<1>1. /\ NotRepeatedInv /\ SettledInv /\ CallsOf(P) /\ PaidLedger(I)
      /\ ScanInv /\ PageBounds /\ ScanLedger(I, K) /\ OpenInv
      /\ K \in SUBSET Jobs /\ P \in SUBSET Jobs /\ PaidIds \in SUBSET I /\ PaidTyped
  BY <1>a DEF HandlersInv, OfKind, AllIds, NotRepeatedInv
<1>2. NotRepeatedInv' /\ SettledInv'
  BY <1>1, NotRepeatedStep, SettledStep
<1>3. JobsTyped'
  BY <1>2 DEF NotRepeatedInv, PaidTyped
<1>4. /\ \A j \in Jobs \ P : job'[j] = job[j]
      /\ \A j \in K : job'[j] = job[j]
  BY <1>a, OnlyMoves
<1>5. PaidIds \subseteq I \ Ids
  BY IdsApart
<1>6. K = OfKind("scan")' /\ P = OfKind("paid")' /\ I' = I
  BY <1>a DEF OfKind, AllIds, Ids, PaidIds
<1> HIDE DEF I
<1>7. CallsOf(P)'
  BY <1>1, <1>4, CallsOfStep
<1>8. PaidLedger(I)' /\ Touches(ledger, ledger', PaidIds)
  BY <1>1, PaidLedgerStep
<1>9. Touches(ledger, ledger', I \ Ids)
  BY <1>5, <1>8, TouchesWider
<1>10. PoliciesTyped' /\ ledger' \in Ledgers(I) /\ Books(ledger')
  BY <1>8 DEF PaidLedger, CallBooks
<1>11. ScanInv' /\ ScanLedger(I, K)'
  BY <1>1, <1>3, <1>4, <1>9, <1>10, ScanElsewhere
<1>12. PageBounds' /\ OpenInv'
  BY <1>1, <1>3, BoundsElsewhere, CopiesElsewhere
<1>13. (kind \in [Jobs -> Kinds])'
  BY DEF HandlersInv
<1> QED
  BY <1>2, <1>6, <1>7, <1>8, <1>11, <1>12, <1>13 DEF HandlersInv, I

(* A collection reserves and is charged; calls and exports stay as they    *)
(* are.                                                                    *)
LEMMA ScanKeepsOthers ==
  ASSUME HandlersInv, PageNext, Only("scan"), UNCHANGED <<paidVars, copyVars, kind>>
  PROVE  HandlersInv'
<1> DEFINE I == AllIds
<1>a. PICK K, P : K = OfKind("scan") /\ P = OfKind("paid")
  OBVIOUS
<1>1. /\ NotRepeatedInv /\ SettledInv /\ CallsOf(P) /\ PaidLedger(I)
      /\ ScanInv /\ PageBounds /\ ScanLedger(I, K) /\ OpenInv
      /\ K \in SUBSET Jobs /\ P \in SUBSET Jobs /\ PaidIds \in SUBSET I /\ Ids \in SUBSET I
      /\ CallsTyped
  BY <1>a DEF HandlersInv, OfKind, AllIds, NotRepeatedInv, PaidTyped
<1>2. ScanInv' /\ PageBounds'
  BY <1>1, ScanStep, BoundsStep
<1>3. JobsTyped'
  BY <1>2 DEF ScanInv
<1>4. OwnJobs(K) /\ \A j \in P : job'[j] = job[j]
  BY <1>a, OnlyMoves DEF OwnJobs
<1>5. Ids \subseteq I \ PaidIds
  BY IdsApart
<1>6. K = OfKind("scan")' /\ P = OfKind("paid")' /\ I' = I
  BY <1>a DEF OfKind, AllIds, Ids, PaidIds
<1> HIDE DEF I
<1>7. ScanLedger(I, K)' /\ Touches(ledger, ledger', Ids)
  BY <1>1, <1>2, <1>4, ScanLedgerStep, ScanTouches
<1>8. Touches(ledger, ledger', I \ PaidIds)
  BY <1>5, <1>7, TouchesWider
<1>9. PoliciesTyped' /\ ledger' \in Ledgers(I) /\ Books(ledger')
  BY <1>7 DEF ScanLedger, ScanBooks, UnitBooks
<1>10. PaidLedger(I)'
  BY <1>1, <1>8, <1>9, PaidElsewhere
<1>11. NotRepeatedInv' /\ SettledInv' /\ CallsOf(P)'
  BY <1>1, <1>3, <1>4, CallsElsewhere
<1>12. OpenInv'
  BY <1>1, <1>3, CopiesElsewhere
<1>13. (kind \in [Jobs -> Kinds])'
  BY DEF HandlersInv
<1> QED
  BY <1>2, <1>6, <1>7, <1>10, <1>11, <1>12, <1>13 DEF HandlersInv, I

(* An export, a deletion or a cleaner touches no budget.                   *)
LEMMA CopyKeepsOthers ==
  ASSUME HandlersInv, [CopyNext]_<<job, copyVars>>, Only("copy"),
         UNCHANGED <<budgetVars, paidVars, pageVars, kind>>
  PROVE  HandlersInv'
<1> DEFINE I == AllIds
<1>a. PICK K, P : K = OfKind("scan") /\ P = OfKind("paid")
  OBVIOUS
<1>1. /\ NotRepeatedInv /\ SettledInv /\ CallsOf(P) /\ PaidLedger(I)
      /\ ScanInv /\ PageBounds /\ ScanLedger(I, K) /\ OpenInv
      /\ K \in SUBSET Jobs /\ P \in SUBSET Jobs /\ PaidIds \in SUBSET I /\ Ids \in SUBSET I
      /\ CallsTyped
  BY <1>a DEF HandlersInv, OfKind, AllIds, NotRepeatedInv, PaidTyped
<1>2. OpenInv'
  BY <1>1, OpenStep
<1>3. JobsTyped'
  BY <1>2 DEF OpenInv, ErasedInv, CopyTyped
<1>4. (\A j \in K : job'[j] = job[j]) /\ (\A j \in P : job'[j] = job[j])
  BY <1>a, OnlyMoves
<1>5. policy' = policy /\ ledger' = ledger /\ now' = now
  BY DEF budgetVars
<1>6. K = OfKind("scan")' /\ P = OfKind("paid")' /\ I' = I
  BY <1>a DEF OfKind, AllIds, Ids, PaidIds
<1> HIDE DEF I
<1>7. PoliciesTyped' /\ ledger' \in Ledgers(I) /\ Books(ledger')
  BY <1>1, <1>5 DEF PaidLedger, CallBooks, PoliciesTyped
<1>8. Touches(ledger, ledger', I \ PaidIds) /\ Touches(ledger, ledger', I \ Ids)
  BY <1>5 DEF Touches
<1>9. PaidLedger(I)'
  BY <1>1, <1>7, <1>8, PaidElsewhere
<1>10. ScanInv' /\ ScanLedger(I, K)'
  BY <1>1, <1>3, <1>4, <1>7, <1>8, ScanElsewhere
<1>11. NotRepeatedInv' /\ SettledInv' /\ CallsOf(P)'
  BY <1>1, <1>3, <1>4, CallsElsewhere
<1>12. PageBounds'
  BY <1>1, BoundsElsewhere
<1>13. (kind \in [Jobs -> Kinds])'
  BY DEF HandlersInv
<1> QED
  BY <1>2, <1>6, <1>9, <1>10, <1>11, <1>12, <1>13 DEF HandlersInv, I

LEMMA HandlersStep == HandlersInv /\ [HandlersNext]_handlerVars => HandlersInv'
<1> SUFFICES ASSUME HandlersInv, [HandlersNext]_handlerVars PROVE HandlersInv'
  OBVIOUS
<1>1. CASE UNCHANGED handlerVars
  <2>1. Only("copy") /\ UNCHANGED <<job, budgetVars, paidVars, pageVars, copyVars, kind>>
    BY <1>1 DEF handlerVars, Only
  <2> QED
    BY <2>1, CopyKeepsOthers
<1> QED
  BY <1>1, PaidKeepsOthers, ScanKeepsOthers, CopyKeepsOthers DEF HandlersNext

LEMMA HandlersHold ==
  ASSUME HandlersInv
  PROVE  /\ HandlersTypeOK /\ WindowsBalance /\ NeverOversold /\ FeesAreCharged
         /\ OpenPaidCallIsNotRepeated /\ ConfirmedWindowWasScanned /\ OpenCallIsTheLastOne
         /\ SettledCollectionOwesNothing
         /\ ErasedCopiesStayErased /\ OpenDeletionCanEnd
<1> DEFINE K == OfKind("scan")
           I == AllIds
<1>1. /\ kind \in [Jobs -> Kinds] /\ NotRepeatedInv /\ SettledInv /\ PaidLedger(I)
      /\ ScanInv /\ PageBounds /\ ScanLedger(I, K) /\ OpenInv
  BY DEF HandlersInv
<1> HIDE DEF K, I
<1>2. LedgerTypeOK /\ WindowsBalance /\ NeverOversold /\ FeesAreCharged
  BY <1>1, PaidOwes
<1>3. SettledCollectionOwesNothing
  BY <1>1, ScanOwes
<1>4. JobTypeOK /\ PageTypeOK
  BY <1>1, ScanIsTypeOK
<1>5. PaidTypeOK
  BY <1>1, PaidTypedIsTypeOK DEF NotRepeatedInv
<1>6. CopyTypeOK /\ ErasedCopiesStayErased /\ OpenDeletionCanEnd
  BY <1>1, CopyTypedIsTypeOK, ErasedInvImplies, OpenInvImplies DEF OpenInv, ErasedInv
<1> QED
  BY <1>1, <1>2, <1>3, <1>4, <1>5, <1>6, SettledSays DEF HandlersTypeOK, NotRepeatedInv, ScanInv

LEMMA HandlersAlways == HandlersSpec => []HandlersInv
  BY HandlersStart, HandlersStep, PTL DEF HandlersSpec

-----------------------------------------------------------------------------
(* Every variable of the handlers has its type, with the bounds on pages,  *)
(* rescans, requests, tokens, attempts and cleanups that the code sets     *)
(* itself (jobs/cursor.py, content/discovery.py, evidence/services.py).    *)
THEOREM HandlersTyped == HandlersSpec => []HandlersTypeOK
  BY HandlersAlways, HandlersHold, PTL

(* Each budget window holds what its reservations add up to, whatever      *)
(* calls and collections reserve, settle, retry, recover or leave behind   *)
(* in the same windows (jobs/services.py).                                 *)
THEOREM BooksBalanced == HandlersSpec => []WindowsBalance
  BY HandlersAlways, HandlersHold, PTL

(* No window grants more than the largest limit one of its reservations    *)
(* was granted under, however many jobs of any kind ask at the same time   *)
(* and however often policies change (reserve_budget_in_transaction).      *)
THEOREM NothingOversold == HandlersSpec => []NeverOversold
  BY HandlersAlways, HandlersHold, PTL

(* What a call is known to owe is charged to its budget (AiService._finish *)
(* and recover_abandoned_ai_calls_in_transaction), next to any collection  *)
(* or export.                                                              *)
THEOREM AllFeesCharged == HandlersSpec => []FeesAreCharged
  BY HandlersAlways, HandlersHold, PTL

(* A collection that was settled by its handler or its parent has charged  *)
(* every request it ever sent, whichever of its handlers died before: the  *)
(* one that settles it recovers what the others left                       *)
(* (recover_interrupted_collection_in_transaction).                        *)
THEOREM SettledOweNothing == HandlersSpec => []SettledCollectionOwesNothing
  BY HandlersAlways, HandlersHold, PTL

(* What a job of a model leaves open is one call at most, its last, next   *)
(* to whatever the other handlers do to the same budgets and rows          *)
(* (recover_abandoned_ai_calls_in_transaction).                            *)
THEOREM OneCallLeft == HandlersSpec => []OpenCallIsTheLastOne
  BY HandlersAlways, HandlersHold, PTL

(* What the single handlers promise holds next to the others: no paid call *)
(* is repeated while its outcome is open (ai/services.py), a confirmed     *)
(* window was scanned (jobs/coverage.py, content/discovery_execution.py),  *)
(* erased copies stay erased and open deletions can end (evidence/).       *)
THEOREM PromisesHoldTogether ==
  HandlersSpec => [](/\ OpenPaidCallIsNotRepeated /\ ConfirmedWindowWasScanned
                     /\ ErasedCopiesStayErased /\ OpenDeletionCanEnd)
  BY HandlersAlways, HandlersHold, PTL
=============================================================================
