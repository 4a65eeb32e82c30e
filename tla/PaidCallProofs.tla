--------------------------- MODULE PaidCallProofs ---------------------------
(***************************************************************************)
(* Theorems about PaidCall, for any jobs, purposes, budgets, prices and    *)
(* fees and any number of calls. Those about the calls and their handlers  *)
(* come first and need nothing of the ledger; then what each step charges, *)
(* stated for a ledger that other jobs use too (HandlersProofs).           *)
(***************************************************************************)
EXTENDS PaidCall, SharedRowsProofs

-----------------------------------------------------------------------------
(* Types.                                                                  *)

CallStatuses == Outcomes \cup {"none", "running"}
Charges == Fees \cup {Unknown}
CallRows ==
  [status : CallStatuses, job : Jobs, purpose : Purposes, epoch : Nat, actual : Charges]
Answers == [status : Outcomes \cup {"none"}, actual : Charges, completion : BOOLEAN]
CallerPlaces == {"new", "ready", "calling", "answered", "checking", "failed"}
Callers ==
  [job : Jobs, epoch : Nat \ {0}, pc : CallerPlaces, call : {0} \cup CallIds, answer : Answers]
(* An answer that waits to be stored has an outcome.                       *)
Answering == {h \in Callers : h.pc = "answered" => h.answer.status \in Outcomes}

CallsTyped ==
  /\ price \in Prices
  /\ calls \in [CallIds -> CallRows]
  /\ acked \subseteq CallIds
CallersTyped == callers \subseteq Answering
PaidTyped == JobsTyped /\ CallsTyped /\ CallersTyped

LEMMA PaidTypedIsTypeOK == PaidTyped => JobTypeOK /\ PaidTypeOK
<1> SUFFICES ASSUME PaidTyped PROVE JobTypeOK /\ PaidTypeOK
  OBVIOUS
<1>1. callers \subseteq Callers
  BY DEF PaidTyped, CallersTyped, Answering
<1> QED
  BY <1>1, JobsTypedIsTypeOK DEF PaidTyped, CallsTyped, PaidTypeOK, Callers, CallRows, CallStatuses,
                                 Charges, Answers, CallerPlaces

LEMMA CallerRecords ==
  /\ \A h \in Answering : h \in Callers /\ h.job \in Jobs /\ h.epoch \in Nat
  /\ \A h \in Answering, pc \in CallerPlaces \ {"answered"} : [h EXCEPT !.pc = pc] \in Answering
  /\ \A h \in Answering, c \in CallIds : [h EXCEPT !.pc = "calling", !.call = c] \in Answering
  /\ \A h \in Answering, a \in Answers : a.status \in Outcomes =>
       [h EXCEPT !.pc = "answered", !.answer = a] \in Answering
<1> USE DEF Answering, Callers
<1>1. \A h \in Answering : h \in Callers /\ h.job \in Jobs /\ h.epoch \in Nat
  OBVIOUS
<1>2. ASSUME NEW h \in Answering, NEW pc \in CallerPlaces \ {"answered"}
      PROVE  [h EXCEPT !.pc = pc] \in Answering
  <2>1. [h EXCEPT !.pc = pc] \in Callers /\ [h EXCEPT !.pc = pc].pc = pc
    OBVIOUS
  <2> QED
    BY <2>1
<1>3. ASSUME NEW h \in Answering, NEW c \in CallIds
      PROVE  [h EXCEPT !.pc = "calling", !.call = c] \in Answering
  <2>1. /\ [h EXCEPT !.pc = "calling", !.call = c] \in Callers
        /\ [h EXCEPT !.pc = "calling", !.call = c].pc = "calling"
    BY DEF CallerPlaces
  <2> QED
    BY <2>1
<1>4. ASSUME NEW h \in Answering, NEW a \in Answers, a.status \in Outcomes
      PROVE  [h EXCEPT !.pc = "answered", !.answer = a] \in Answering
  <2>1. /\ [h EXCEPT !.pc = "answered", !.answer = a] \in Callers
        /\ [h EXCEPT !.pc = "answered", !.answer = a].answer = a
    BY DEF CallerPlaces
  <2> QED
    BY <1>4, <2>1
<1> HIDE DEF Answering, Callers
<1> QED
  BY <1>1, <1>2, <1>3, <1>4

LEMMA CallRecords ==
  /\ \A x \in CallRows : /\ x.status \in CallStatuses /\ x.actual \in Charges
                         /\ x.job \in Jobs /\ x.purpose \in Purposes /\ x.epoch \in Nat
  /\ \A x \in CallRows, s \in CallStatuses : [x EXCEPT !.status = s] \in CallRows
  /\ \A x \in CallRows, s \in CallStatuses, a \in Charges :
       [x EXCEPT !.status = s, !.actual = a] \in CallRows
  /\ \A j \in Jobs, p \in Purposes, e \in Nat :
       [status |-> "running", job |-> j, purpose |-> p, epoch |-> e, actual |-> Unknown] \in CallRows
  BY DEF CallRows, CallStatuses, Charges

LEMMA PaidInitTyped == JobInit /\ PaidInit => PaidTyped
<1> SUFFICES ASSUME JobInit, PaidInit PROVE PaidTyped
  OBVIOUS
<1>1. /\ (CHOOSE j \in Jobs : TRUE) \in Jobs
      /\ (CHOOSE p \in Purposes : TRUE) \in Purposes
  BY PaidAssumption
<1>2. [status |-> "none", job |-> CHOOSE j \in Jobs : TRUE,
       purpose |-> CHOOSE p \in Purposes : TRUE, epoch |-> 0, actual |-> Unknown] \in CallRows
  BY <1>1 DEF CallRows, CallStatuses, Charges
<1> QED
  BY <1>2, JobInitTyped DEF PaidInit, PaidTyped, CallsTyped, CallersTyped

-----------------------------------------------------------------------------
(* What a step does to the calls: at most one is new, and only a running   *)
(* one changes its status.                                                 *)

CallerStep(h) ==
  \/ RecoverCalls(h) \/ Answer(h) \/ FinishCall(h) \/ CheckLease(h)
  \/ Report(h) \/ ParentSettles(h) \/ CallerDies(h)
  \/ \E p \in Purposes : ReserveCall(h, p)

(* The call a handler reserves.                                            *)
NextCall == Cardinality(Made) + 1

LEMMA CallerStepTyped ==
  ASSUME PaidTyped, NEW h \in callers, CallerStep(h)
  PROVE  PaidTyped'
<1>1. JobsTyped /\ CallsTyped /\ CallersTyped
  BY DEF PaidTyped
<1>2. h \in Answering /\ h \in Callers /\ h.job \in Jobs /\ h.epoch \in Nat
  BY <1>1, CallerRecords DEF CallersTyped
<1>3. ASSUME NEW pc \in CallerPlaces \ {"answered"}, Goes(h, pc) PROVE CallersTyped'
  BY <1>1, <1>2, <1>3, CallerRecords DEF Goes, CallersTyped
<1>4. \A c \in CallIds : calls[c] \in CallRows
  BY <1>1 DEF CallsTyped
<1>5. CASE RecoverCalls(h)
  <2>1. calls' \in [CallIds -> CallRows]
    <3>1. "unknown" \in CallStatuses
      BY DEF CallStatuses, Outcomes
    <3>2. \A c \in CallIds : [calls[c] EXCEPT !.status = "unknown"] \in CallRows
      BY <1>4, <3>1, CallRecords
    <3>3. calls' = [c \in CallIds |-> IF c \in Abandoned(h.job, h.epoch)
                                       THEN [calls[c] EXCEPT !.status = "unknown"] ELSE calls[c]]
      BY <1>5 DEF RecoverCalls
    <3> QED
      BY <1>4, <3>2, <3>3
  <2>2. CallersTyped'
    BY <1>3, <1>5 DEF RecoverCalls, CallerPlaces
  <2> QED
    BY <1>1, <1>5, <2>1, <2>2 DEF RecoverCalls, PaidTyped, JobsTyped, CallsTyped
<1>6. CASE Answer(h)
  <2>1. PICK result \in Results, actual \in Charges :
          callers' = (callers \ {h}) \cup
            {[h EXCEPT !.pc = "answered",
                       !.answer = [status |-> StatusOf(result), actual |-> actual,
                                   completion |-> HasCompletion(result, actual)]]}
    BY <1>6 DEF Answer, Charges
  <2>2. StatusOf(result) \in Outcomes
    BY DEF StatusOf, Results, Outcomes
  <2>3. HasCompletion(result, actual) \in BOOLEAN
    BY DEF HasCompletion
  <2>4. [status |-> StatusOf(result), actual |-> actual,
         completion |-> HasCompletion(result, actual)] \in Answers
    BY <2>2, <2>3 DEF Answers
  <2>5. CallersTyped'
    BY <1>1, <1>2, <2>1, <2>2, <2>4, CallerRecords DEF CallersTyped
  <2> QED
    BY <1>1, <1>6, <2>5 DEF Answer, PaidTyped, JobsTyped, CallsTyped
<1>7. CASE FinishCall(h)
  <2> DEFINE c == h.call
             active == calls[c].status = "running"
             actual == IF calls[c].actual = Unknown THEN h.answer.actual
                       ELSE LargerOf(h.answer.actual, calls[c].actual)
  <2>1. h.pc = "answered" /\ h.answer.status \in Outcomes /\ h.answer.actual \in Charges
    BY <1>2, <1>7 DEF FinishCall, Answering, Callers, Answers
  <2>2. calls' \in [CallIds -> CallRows]
    <3>1. CASE c \in CallIds
      <4>1. actual \in Charges
        BY <1>4, <2>1, <3>1, CallRecords DEF LargerOf
      <4>2. (IF active THEN h.answer.status ELSE calls[c].status) \in CallStatuses
        BY <1>4, <2>1, <3>1, CallRecords DEF CallStatuses
      <4>3. (IF active \/ h.answer.completion THEN actual ELSE calls[c].actual) \in Charges
        BY <1>4, <3>1, <4>1, CallRecords
      <4>4. calls' = [calls EXCEPT ![c].status = IF active THEN h.answer.status ELSE @,
                                   ![c].actual = IF active \/ h.answer.completion THEN actual ELSE @]
        BY <1>7 DEF FinishCall
      <4>5. calls' = [calls EXCEPT ![c] =
                        [calls[c] EXCEPT
                           !.status = IF active THEN h.answer.status ELSE calls[c].status,
                           !.actual = IF active \/ h.answer.completion THEN actual
                                      ELSE calls[c].actual]]
        BY <1>4, <3>1, <4>4 DEF CallRows
      <4> QED
        BY <1>1, <1>4, <3>1, <4>2, <4>3, <4>5, CallRecords DEF CallsTyped
    <3>2. CASE c \notin CallIds
      BY <1>1, <1>7, <3>2 DEF FinishCall, CallsTyped
    <3> QED
      BY <3>1, <3>2
  <2>3. CallersTyped'
    BY <1>3, <1>7 DEF FinishCall, CallerPlaces
  <2> QED
    BY <1>1, <1>7, <2>2, <2>3 DEF FinishCall, PaidTyped, JobsTyped, CallsTyped
<1>8. CASE CheckLease(h)
  <2>1. CallersTyped'
    BY <1>3, <1>8 DEF CheckLease, CallerPlaces
  <2> QED
    BY <1>1, <1>8, <2>1 DEF CheckLease, PaidTyped, JobsTyped, CallsTyped
<1>9. CASE Report(h) \/ ParentSettles(h)
  <2>1. JobsTyped'
    <3>1. ASSUME NEW outcome \in Statuses, job' = Released(h.job, outcome) PROVE JobsTyped'
      BY <1>1, <1>2, <3>1, ReleasedTyped DEF JobsTyped
    <3> QED
      BY <1>1, <1>9, <3>1 DEF Report, ParentSettles, Statuses, Finished, JobsTyped
  <2> QED
    BY <1>1, <1>9, <2>1 DEF Report, ParentSettles, PaidTyped, CallsTyped, CallersTyped
<1>10. CASE CallerDies(h)
  BY <1>1, <1>10 DEF CallerDies, PaidTyped, JobsTyped, CallsTyped, CallersTyped
<1>11. ASSUME NEW p \in Purposes, ReserveCall(h, p) PROVE PaidTyped'
  <2>1. /\ NextCall \in CallIds
        /\ calls' = [calls EXCEPT ![NextCall] =
                       [status |-> "running", job |-> h.job, purpose |-> p, epoch |-> h.epoch,
                        actual |-> Unknown]]
        /\ callers' = (callers \ {h}) \cup {[h EXCEPT !.pc = "calling", !.call = NextCall]}
        /\ UNCHANGED <<job, price, acked>>
    BY <1>11 DEF ReserveCall, NextCall
  <2> QED
    BY <1>1, <1>2, <2>1, CallRecords, CallerRecords
       DEF PaidTyped, JobsTyped, CallsTyped, CallersTyped
<1> QED
  BY <1>5, <1>6, <1>7, <1>8, <1>9, <1>10, <1>11 DEF CallerStep

LEMMA StepTyped == PaidTyped /\ [PaidNext]_<<job, budgetVars, paidVars>> => PaidTyped'
<1> SUFFICES ASSUME PaidTyped, [PaidNext]_<<job, budgetVars, paidVars>> PROVE PaidTyped'
  OBVIOUS
<1>1. JobsTyped /\ CallsTyped /\ CallersTyped
  BY DEF PaidTyped
<1>2. ASSUME NEW j \in Jobs, PaidAcquire(j) PROVE PaidTyped'
  <2>1. JobsTyped'
    BY <1>1, <1>2, JobStepsTyped DEF PaidAcquire
  <2>2. job[j].epoch \in Nat
    BY <1>1 DEF JobsTyped, JobRows
  <2>3. [job |-> j, epoch |-> job[j].epoch + 1, pc |-> "new", call |-> 0, answer |-> NoAnswer]
          \in Answering
    <3>1. job[j].epoch + 1 \in Nat \ {0}
      BY <2>2
    <3>2. NoAnswer \in Answers
      BY DEF NoAnswer, Answers, Charges
    <3> QED
      BY <3>1, <3>2 DEF Answering, Callers, CallerPlaces
  <2> QED
    BY <1>1, <1>2, <2>1, <2>3 DEF PaidAcquire, PaidTyped, CallsTyped, CallersTyped
<1>3. ASSUME NEW j \in Jobs, JobMoves(j) PROVE PaidTyped'
  <2>1. JobsTyped'
    BY <1>1, <1>3, JobStepsTyped DEF JobMoves
  <2> QED
    BY <1>1, <1>3, <2>1 DEF JobMoves, paidVars, PaidTyped, CallsTyped, CallersTyped
<1>4. ASSUME NEW h \in callers, CallerStep(h) PROVE PaidTyped'
  BY <1>4, CallerStepTyped
<1>5. ASSUME NEW c \in CallIds, Acknowledge(c) PROVE PaidTyped'
  BY <1>1, <1>5 DEF Acknowledge, PaidTyped, JobsTyped, CallsTyped, CallersTyped
<1>6. CASE BudgetMoves \/ UNCHANGED <<job, budgetVars, paidVars>>
  BY <1>1, <1>6 DEF BudgetMoves, paidVars, PaidTyped, JobsTyped, CallsTyped, CallersTyped
<1> QED
  BY <1>2, <1>3, <1>4, <1>5, <1>6 DEF PaidNext, CallerStep

(* Every call, handler and job row has its type.                           *)
THEOREM PaidCallsTyped == PaidSpec => [](JobTypeOK /\ PaidTypeOK)
<1>1. JobInit /\ LedgerInit /\ PaidInit => PaidTyped
  BY PaidInitTyped
<1> QED
  BY <1>1, StepTyped, PaidTypedIsTypeOK, PTL DEF PaidSpec

-----------------------------------------------------------------------------
(* What a step does to the calls.                                          *)

(* Running calls may get an outcome, and nothing else changes.             *)
CallsKept ==
  \A c \in CallIds :
    /\ calls'[c].job = calls[c].job /\ calls'[c].purpose = calls[c].purpose
    /\ calls'[c].epoch = calls[c].epoch
    /\ \/ calls'[c].status = calls[c].status
       \/ calls[c].status = "running" /\ calls'[c].status \in Outcomes

(* One call is added.                                                      *)
CallAdded(h, p) ==
  /\ h.pc = "ready" /\ MayWork(h.job, h.epoch)
  /\ NextCall \in CallIds
  /\ Paid => Unresolved(h.job, p) = {}
  /\ UNCHANGED <<job, price>>
  /\ \A c \in CallIds : calls'[c] =
       IF c = NextCall THEN [status |-> "running", job |-> h.job, purpose |-> p,
                             epoch |-> h.epoch, actual |-> Unknown]
                       ELSE calls[c]

LEMMA ReserveAdds ==
  ASSUME PaidTyped, NEW h \in callers, NEW p \in Purposes, ReserveCall(h, p)
  PROVE  CallAdded(h, p)
<1>1. calls' = [calls EXCEPT ![NextCall] = [status |-> "running", job |-> h.job, purpose |-> p,
                                            epoch |-> h.epoch, actual |-> Unknown]]
  BY DEF ReserveCall, NextCall
<1>2. \A c \in CallIds : calls'[c] =
        IF c = NextCall THEN [status |-> "running", job |-> h.job, purpose |-> p,
                              epoch |-> h.epoch, actual |-> Unknown]
                        ELSE calls[c]
  BY <1>1 DEF PaidTyped, CallsTyped
<1> QED
  BY <1>2 DEF ReserveCall, Admitted, NextCall, CallAdded

LEMMA RecoveryKeepsCalls ==
  ASSUME PaidTyped, NEW h \in callers, RecoverCalls(h)
  PROVE  CallsKept
<1>1. \A c \in CallIds : calls[c] \in CallRows
  BY DEF PaidTyped, CallsTyped
<1>2. \A c \in CallIds : calls'[c] = IF c \in Abandoned(h.job, h.epoch)
                            THEN [calls[c] EXCEPT !.status = "unknown"] ELSE calls[c]
  BY DEF RecoverCalls
<1>3. ASSUME NEW c \in Abandoned(h.job, h.epoch) PROVE calls[c].status = "running"
  BY DEF Abandoned
<1>4. ASSUME NEW c \in CallIds, c \in Abandoned(h.job, h.epoch)
      PROVE  /\ calls'[c].job = calls[c].job /\ calls'[c].purpose = calls[c].purpose
             /\ calls'[c].epoch = calls[c].epoch /\ calls'[c].status = "unknown"
  <2>1. calls'[c] = [calls[c] EXCEPT !.status = "unknown"]
    BY <1>2, <1>4
  <2> QED
    BY <1>1, <2>1 DEF CallRows
<1> QED
  BY <1>2, <1>3, <1>4 DEF CallsKept, Outcomes

(* Finishing stores the answer's outcome if the call still runs.           *)
LEMMA FinishKeepsCalls ==
  ASSUME PaidTyped, NEW h \in callers, FinishCall(h)
  PROVE  /\ CallsKept
         /\ h.call \in CallIds => calls'[h.call].status # "running"
<1> DEFINE status == IF calls[h.call].status = "running" THEN h.answer.status
                     ELSE calls[h.call].status
<1>1. \A c \in CallIds : calls[c] \in CallRows
  BY DEF PaidTyped, CallsTyped
<1>2. h.answer.status \in Outcomes
  BY DEF PaidTyped, CallersTyped, Answering, FinishCall
<1>3. PICK actual : calls' = [calls EXCEPT ![h.call].status = status, ![h.call].actual = actual]
  BY Zenon DEF FinishCall
<1> HIDE DEF status
<1>4. ASSUME NEW c \in CallIds
      PROVE  /\ calls'[c].job = calls[c].job /\ calls'[c].purpose = calls[c].purpose
             /\ calls'[c].epoch = calls[c].epoch
             /\ calls'[c].status = IF c = h.call THEN status ELSE calls[c].status
  BY <1>1, <1>3 DEF PaidTyped, CallsTyped, CallRows
<1> QED
  BY <1>2, <1>4 DEF CallsKept, status, Outcomes

LEMMA OthersKeepCalls ==
  ASSUME PaidTyped, [PaidNext]_<<job, budgetVars, paidVars>>,
         ~\E h \in callers, p \in Purposes : ReserveCall(h, p)
  PROVE  CallsKept
<1>1. CASE calls' = calls
  BY <1>1 DEF CallsKept
<1>2. \/ calls' = calls
      \/ \E h \in callers : RecoverCalls(h) \/ FinishCall(h)
  BY DEF PaidNext, paidVars, PaidAcquire, JobMoves, Acknowledge, BudgetMoves, Answer, CheckLease,
         Report, ParentSettles, CallerDies
<1> QED
  BY <1>1, <1>2, RecoveryKeepsCalls, FinishKeepsCalls

LEMMA PriceKept == [PaidNext]_<<job, budgetVars, paidVars>> => price' = price
  BY DEF PaidNext, paidVars, PaidAcquire, JobMoves, Acknowledge, BudgetMoves, Answer, CheckLease,
         Report, ParentSettles, CallerDies, RecoverCalls, FinishCall, ReserveCall

-----------------------------------------------------------------------------
(* No repetition. The argument: calls are made in the order of their       *)
(* numbers, so a later call of the same purpose was admitted while the     *)
(* earlier was there, and an admission demands that none is open.          *)

MadeInOrder == \E k \in 0 .. MaxCalls : Made = 1 .. k
NotRepeatedInv == PaidTyped /\ MadeInOrder /\ OpenPaidCallIsNotRepeated

LEMMA NextCallIsLast ==
  ASSUME MadeInOrder
  PROVE  /\ NextCall \in Nat /\ NextCall \notin Made
         /\ Made = 1 .. NextCall - 1
         /\ \A c \in Made : c < NextCall
<1>1. PICK k \in 0 .. MaxCalls : Made = 1 .. k
  BY DEF MadeInOrder
<1>2. k \in Nat /\ k \in Int
  BY <1>1, PaidAssumption
<1>3. Cardinality(1 .. k) = k
  BY <1>2, FS_Interval
<1> QED
  BY <1>1, <1>2, <1>3 DEF NextCall

LEMMA NotRepeatedStep ==
  NotRepeatedInv /\ [PaidNext]_<<job, budgetVars, paidVars>> => NotRepeatedInv'
<1> SUFFICES ASSUME NotRepeatedInv, [PaidNext]_<<job, budgetVars, paidVars>>
             PROVE  NotRepeatedInv'
  OBVIOUS
<1>1. PaidTyped /\ MadeInOrder /\ OpenPaidCallIsNotRepeated
  BY DEF NotRepeatedInv
<1>2. PaidTyped' /\ price' = price
  BY <1>1, StepTyped, PriceKept
<1>3. Paid' <=> Paid
  BY <1>2 DEF Paid
<1>4. CASE CallsKept
  <2>1. Made' = Made
    BY <1>4 DEF Made, CallsKept, Outcomes
  <2>2. OpenPaidCallIsNotRepeated'
    <3> SUFFICES ASSUME Paid, NEW c \in Made, NEW d \in Made,
                        calls'[c].job = calls'[d].job, calls'[c].purpose = calls'[d].purpose,
                        calls'[c].status \in {"running", "unknown"}, c < d
                 PROVE  FALSE
      BY <1>3, <2>1 DEF OpenPaidCallIsNotRepeated
    <3>1. c \in CallIds /\ d \in CallIds
      BY DEF Made
    <3>2. calls[c].status \in {"running", "unknown"}
      BY <1>4, <3>1 DEF CallsKept
    <3>3. calls[c].job = calls[d].job /\ calls[c].purpose = calls[d].purpose
      BY <1>4, <3>1 DEF CallsKept
    <3> QED
      BY <1>1, <3>2, <3>3 DEF OpenPaidCallIsNotRepeated
  <2> QED
    BY <1>1, <1>2, <2>1, <2>2 DEF NotRepeatedInv, MadeInOrder
<1>5. ASSUME NEW h \in callers, NEW p \in Purposes, ReserveCall(h, p) PROVE NotRepeatedInv'
  <2>1. CallAdded(h, p)
    BY <1>1, <1>5, ReserveAdds
  <2>2. /\ NextCall \in CallIds /\ NextCall \notin Made /\ Made = 1 .. NextCall - 1
        /\ \A c \in Made : c < NextCall
    BY <1>1, <2>1, NextCallIsLast DEF CallAdded
  <2>3. Made' = Made \cup {NextCall}
    BY <2>1, <2>2 DEF Made, CallAdded
  <2>4. MadeInOrder'
    <3>1. NextCall \in 1 .. MaxCalls
      BY <2>2 DEF CallIds
    <3>2. Made' = 1 .. NextCall
      BY <2>2, <2>3, <3>1
    <3>3. NextCall \in 0 .. MaxCalls
      BY <3>1, PaidAssumption
    <3>4. \E k \in 0 .. MaxCalls : Made' = 1 .. k
      BY <3>2, <3>3
    <3> QED
      BY <3>4 DEF MadeInOrder
  <2>5. OpenPaidCallIsNotRepeated'
    <3> SUFFICES ASSUME Paid, NEW c \in Made', NEW d \in Made',
                        calls'[c].job = calls'[d].job, calls'[c].purpose = calls'[d].purpose,
                        calls'[c].status \in {"running", "unknown"}, c < d
                 PROVE  FALSE
      BY <1>3 DEF OpenPaidCallIsNotRepeated
    <3>1. c \in Made /\ c # NextCall
      BY <2>2, <2>3 DEF CallIds
    <3>2. c \in CallIds /\ calls'[c] = calls[c]
      BY <2>1, <3>1 DEF CallAdded, Made
    <3>3. CASE d = NextCall
      <4>1. calls[c].job = h.job /\ calls[c].purpose = p
        BY <2>1, <2>2, <3>2, <3>3 DEF CallAdded
      <4>2. c \in Unresolved(h.job, p)
        BY <3>1, <3>2, <4>1 DEF Unresolved
      <4> QED
        BY <2>1, <4>2 DEF CallAdded
    <3>4. CASE d # NextCall
      <4>1. d \in Made /\ calls'[d] = calls[d]
        BY <2>1, <2>3, <3>4 DEF CallAdded, Made
      <4> QED
        BY <1>1, <3>1, <3>2, <4>1 DEF OpenPaidCallIsNotRepeated
    <3> QED
      BY <3>3, <3>4
  <2> QED
    BY <1>2, <2>4, <2>5 DEF NotRepeatedInv
<1> QED
  BY <1>1, <1>4, <1>5, OthersKeepCalls

LEMMA NotRepeatedStarts == JobInit /\ PaidInit => NotRepeatedInv
<1> SUFFICES ASSUME JobInit, PaidInit PROVE NotRepeatedInv
  OBVIOUS
<1>1. Made = {}
  BY DEF PaidInit, Made
<1>2. MadeInOrder
  <2>1. 0 \in 0 .. MaxCalls /\ Made = 1 .. 0
    BY <1>1, PaidAssumption
  <2> QED
    BY <2>1 DEF MadeInOrder
<1> QED
  BY <1>1, <1>2, PaidInitTyped DEF NotRepeatedInv, OpenPaidCallIsNotRepeated

(* A paid call of open outcome is the last of its job and purpose: neither *)
(* a retry, a successor nor a handler that outlived its lease pays again.  *)
THEOREM PaidOnce == PaidSpec => []OpenPaidCallIsNotRepeated
<1>1. NotRepeatedInv => OpenPaidCallIsNotRepeated
  BY DEF NotRepeatedInv
<1> QED
  BY <1>1, NotRepeatedStarts, NotRepeatedStep, PTL DEF PaidSpec

-----------------------------------------------------------------------------
(* An open call is the last one of its job. The argument: one handler at   *)
(* most holds an epoch; once it has quarantined, a running call of its job *)
(* is the one it waits for, or one a successor made; only the holder of    *)
(* the current epoch makes a call, and it or its parent settles the job.   *)

Running == {c \in Made : calls[c].status = "running"}
RunningOf(j) == {c \in Running : calls[c].job = j}
Current(h) == h.epoch = job[h.job].epoch

CallEpochsBounded ==
  /\ \A h \in callers : h.epoch <= job[h.job].epoch
  /\ \A c \in Running : calls[c].epoch <= job[calls[c].job].epoch
OneCallerPerEpoch == \A g, h \in callers : g.job = h.job /\ g.epoch = h.epoch => g = h
NewOwnsNothing ==
  \A h \in callers : h.pc = "new" => \A c \in RunningOf(h.job) : calls[c].epoch # h.epoch
WaitsForItsCall ==
  \A h \in callers : h.pc # "new" =>
    \A c \in RunningOf(h.job) : h.epoch >= calls[c].epoch => WaitsFor(h, c)
OneOpenCall == \A j \in Jobs : \A c, d \in RunningOf(j) : c = d
LeftByTheLast ==
  \A j \in Jobs : job[j].status \in Finished \ {"cancelled"} =>
    \A c \in RunningOf(j) : job[j].status = "failed" /\ job[j].epoch = calls[c].epoch
SettledInv ==
  PaidTyped /\ CallEpochsBounded /\ OneCallerPerEpoch /\ NewOwnsNothing /\ WaitsForItsCall
    /\ OneOpenCall /\ LeftByTheLast

(* Where a step of a handler leaves it.                                    *)
LEMMA CallerStepGoes ==
  ASSUME PaidTyped, NEW h \in callers, CallerStep(h), NEW g \in callers'
  PROVE  \/ g \in callers \ {h}
         \/ /\ g.job = h.job /\ g.epoch = h.epoch
            /\ \/ g.pc = "ready" /\ RecoverCalls(h)
               \/ g.pc = "answered" /\ h.pc = "calling" /\ g.call = h.call
               \/ g.pc \in {"checking", "failed"} /\ FinishCall(h)
               \/ g.pc \in {"ready", "failed"} /\ h.pc = "checking"
               \/ g.pc = "calling" /\ g.call = NextCall /\ \E p \in Purposes : ReserveCall(h, p)
<1>1. h \in Callers
  BY CallerRecords DEF PaidTyped, CallersTyped
<1>2. ASSUME NEW pc \in CallerPlaces, Goes(h, pc), g \notin callers \ {h}
      PROVE  g.job = h.job /\ g.epoch = h.epoch /\ g.pc = pc
  <2>1. g = [h EXCEPT !.pc = pc]
    BY <1>2 DEF Goes
  <2> QED
    BY <1>1, <2>1 DEF Callers
<1>3. CASE RecoverCalls(h)
  BY <1>2, <1>3 DEF RecoverCalls, CallerPlaces
<1>4. CASE Answer(h)
  <2>1. ASSUME NEW a, g = [h EXCEPT !.pc = "answered", !.answer = a]
        PROVE  g.job = h.job /\ g.epoch = h.epoch /\ g.pc = "answered" /\ g.call = h.call
    BY <1>1, <2>1 DEF Callers
  <2> QED
    BY <1>4, <2>1 DEF Answer
<1>5. CASE FinishCall(h)
  <2>1. Goes(h, "checking") \/ Goes(h, "failed")
    BY <1>5 DEF FinishCall
  <2> QED
    BY <1>2, <1>5, <2>1 DEF CallerPlaces
<1>6. CASE CheckLease(h)
  <2>1. h.pc = "checking" /\ (Goes(h, "ready") \/ Goes(h, "failed"))
    BY <1>6 DEF CheckLease
  <2> QED
    BY <1>2, <2>1 DEF CallerPlaces
<1>7. CASE Report(h) \/ ParentSettles(h) \/ CallerDies(h)
  BY <1>7 DEF Report, ParentSettles, CallerDies
<1>8. ASSUME NEW p \in Purposes, ReserveCall(h, p), g \notin callers \ {h}
      PROVE  g.job = h.job /\ g.epoch = h.epoch /\ g.pc = "calling" /\ g.call = NextCall
  <2>1. g = [h EXCEPT !.pc = "calling", !.call = NextCall]
    BY <1>8 DEF ReserveCall, NextCall
  <2> QED
    BY <1>1, <2>1 DEF Callers
<1> QED
  BY <1>3, <1>4, <1>5, <1>6, <1>7, <1>8 DEF CallerStep

(* Steps that leave the handlers alone or remove one, and make no call.    *)
LEMMA FewerRunning ==
  ASSUME PaidTyped, CallsKept
  PROVE  /\ Running' \subseteq Running
         /\ \A c \in Running' : calls'[c].job = calls[c].job /\ calls'[c].epoch = calls[c].epoch
         /\ \A j : RunningOf(j)' \subseteq RunningOf(j)
         /\ \A c \in Made' : c \in Made /\ calls'[c].job = calls[c].job
BY DEF CallsKept, Running, RunningOf, Made, Outcomes

(* Steps that leave handlers and calls alone or end them; a job they settle *)
(* has none open but one of its last epoch, and then it failed.            *)
LEMMA JobsMoveSettled ==
  ASSUME SettledInv, CallsKept, callers' \subseteq callers, PaidTyped',
         \A j \in Jobs : job'[j].epoch = job[j].epoch,
         \A j \in Jobs : \/ job'[j].status \in {job[j].status, "cancelled", "queued"}
                         \/ RunningOf(j) = {}
                         \/ /\ job'[j].status = "failed"
                            /\ \A c \in RunningOf(j) : calls[c].epoch = job[j].epoch
  PROVE  SettledInv'
<1>1. /\ Running' \subseteq Running
      /\ \A c \in Running' : calls'[c].job = calls[c].job /\ calls'[c].epoch = calls[c].epoch
      /\ \A j : RunningOf(j)' \subseteq RunningOf(j)
      /\ \A c \in Made' : c \in Made /\ calls'[c].job = calls[c].job
  BY FewerRunning DEF SettledInv
<1>2. /\ \A h \in callers : h.job \in Jobs
      /\ \A c \in Made : calls[c].job \in Jobs
  BY CallerRecords DEF SettledInv, PaidTyped, CallersTyped, CallsTyped, Made, CallRows
<1>3. CallEpochsBounded'
  BY <1>1, <1>2 DEF SettledInv, CallEpochsBounded, Running
<1>4. OneCallerPerEpoch'
  BY DEF SettledInv, OneCallerPerEpoch
<1>5. NewOwnsNothing'
  BY <1>1 DEF SettledInv, NewOwnsNothing, RunningOf
<1>6. WaitsForItsCall'
  BY <1>1 DEF SettledInv, WaitsForItsCall, WaitsFor, RunningOf
<1>7. OneOpenCall'
  BY <1>1 DEF SettledInv, OneOpenCall
<1>8. LeftByTheLast'
  <2> SUFFICES ASSUME NEW j \in Jobs, job'[j].status \in Finished \ {"cancelled"},
                      NEW c \in RunningOf(j)'
               PROVE  job'[j].status = "failed" /\ job'[j].epoch = calls'[c].epoch
    BY DEF LeftByTheLast
  <2>1. c \in RunningOf(j) /\ calls'[c].epoch = calls[c].epoch
    BY <1>1 DEF RunningOf
  <2>2. CASE job'[j].status \in {job[j].status, "cancelled", "queued"}
    <3>1. job'[j].status = job[j].status
      BY <2>2 DEF Finished
    <3> QED
      BY <2>1, <3>1 DEF SettledInv, LeftByTheLast
  <2>3. CASE job'[j].status = "failed" /\ \A d \in RunningOf(j) : calls[d].epoch = job[j].epoch
    BY <2>1, <2>3
  <2> QED
    BY <2>1, <2>2, <2>3
<1> QED
  BY <1>3, <1>4, <1>5, <1>6, <1>7, <1>8 DEF SettledInv

LEMMA HandlerStepSettled ==
  ASSUME SettledInv, NEW h \in callers, CallerStep(h),
         ~Report(h), ~ParentSettles(h), ~CallerDies(h), PaidTyped'
  PROVE  SettledInv'
<1>1. PaidTyped /\ CallEpochsBounded /\ OneCallerPerEpoch /\ NewOwnsNothing /\ WaitsForItsCall
        /\ OneOpenCall /\ LeftByTheLast
  BY DEF SettledInv
<1>2. job' = job
  BY DEF CallerStep, RecoverCalls, Answer, FinishCall, CheckLease, ReserveCall
<1>3. \A g \in callers : g \in Callers /\ g.job \in Jobs
  BY <1>1, CallerRecords DEF PaidTyped, CallersTyped
<1>4. \A g \in callers' :
        \/ g \in callers /\ g # h
        \/ /\ g.job = h.job /\ g.epoch = h.epoch
           /\ \/ g.pc = "ready" /\ RecoverCalls(h)
              \/ g.pc = "answered" /\ h.pc = "calling" /\ g.call = h.call
              \/ g.pc \in {"checking", "failed"} /\ FinishCall(h)
              \/ g.pc \in {"ready", "failed"} /\ h.pc = "checking"
              \/ g.pc = "calling" /\ g.call = NextCall /\ \E p \in Purposes : ReserveCall(h, p)
  BY <1>1, CallerStepGoes
<1>5. OneCallerPerEpoch'
  <2>1. \E new : callers' = (callers \ {h}) \cup {new}
    <3>1. CASE RecoverCalls(h) \/ FinishCall(h) \/ CheckLease(h)
      BY <3>1 DEF RecoverCalls, FinishCall, CheckLease, Goes
    <3>2. CASE Answer(h) \/ \E p \in Purposes : ReserveCall(h, p)
      BY <3>2 DEF Answer, ReserveCall
    <3> QED
      BY <3>1, <3>2 DEF CallerStep
  <2>2. PICK new : callers' = (callers \ {h}) \cup {new}
    BY <2>1
  <2> SUFFICES ASSUME NEW f \in callers', NEW g \in callers', f.job = g.job, f.epoch = g.epoch, f # g
               PROVE  FALSE
    BY DEF OneCallerPerEpoch
  <2>3. \/ f \in callers \ {h} /\ g \in callers \ {h}
        \/ f \in callers \ {h} /\ g.job = h.job /\ g.epoch = h.epoch
        \/ g \in callers \ {h} /\ f.job = h.job /\ f.epoch = h.epoch
    BY <1>4, <2>2
  <2> QED
    BY <1>1, <2>3 DEF OneCallerPerEpoch
<1>6. CASE CallsKept
  <2>1. /\ Running' \subseteq Running
        /\ \A c \in Running' : calls'[c].job = calls[c].job /\ calls'[c].epoch = calls[c].epoch
        /\ \A j : RunningOf(j)' \subseteq RunningOf(j)
        /\ \A c \in Made' : c \in Made /\ calls'[c].job = calls[c].job
    BY <1>1, <1>6, FewerRunning
  <2>2. CallEpochsBounded'
    BY <1>1, <1>2, <1>4, <2>1 DEF CallEpochsBounded, Running
  <2>3. NewOwnsNothing'
    <3> SUFFICES ASSUME NEW g \in callers', g.pc = "new", NEW c \in RunningOf(g.job)'
                 PROVE  calls'[c].epoch # g.epoch
      BY DEF NewOwnsNothing
    <3>1. g \in callers /\ c \in RunningOf(g.job)
      BY <1>4, <2>1
    <3> QED
      BY <1>1, <2>1, <3>1 DEF NewOwnsNothing, RunningOf
  <2>4. WaitsForItsCall'
    <3> SUFFICES ASSUME NEW g \in callers', g.pc # "new", NEW c \in RunningOf(g.job)',
                        g.epoch >= calls'[c].epoch
                 PROVE  WaitsFor(g, c)'
      BY DEF WaitsForItsCall
    <3>1. c \in RunningOf(g.job) /\ calls'[c].epoch = calls[c].epoch
      BY <2>1 DEF RunningOf
    <3>2. CASE g \in callers
      BY <1>1, <3>1, <3>2 DEF WaitsForItsCall, WaitsFor
    <3>3. CASE g \notin callers
      <4>1. /\ g.job = h.job /\ g.epoch = h.epoch
            /\ c \in RunningOf(h.job) /\ h.epoch >= calls[c].epoch
            /\ \/ g.pc = "ready" /\ RecoverCalls(h)
               \/ g.pc = "answered" /\ h.pc = "calling" /\ g.call = h.call
               \/ g.pc \in {"checking", "failed"} /\ FinishCall(h)
               \/ g.pc \in {"ready", "failed"} /\ h.pc = "checking"
               \/ g.pc = "calling" /\ g.call = NextCall /\ \E p \in Purposes : ReserveCall(h, p)
        BY <1>4, <3>1, <3>3
      <4>2. CASE h.pc # "new"
        <5>1. h.pc \in {"calling", "answered"} /\ h.call = c /\ h.epoch = calls[c].epoch
          BY <1>1, <4>1, <4>2 DEF WaitsForItsCall, WaitsFor
        <5>2. ~FinishCall(h)
          BY <1>1, <4>1, <5>1, FinishKeepsCalls DEF RunningOf, Running, Made
        <5>3. ~\E p \in Purposes : ReserveCall(h, p)
          BY <5>1 DEF ReserveCall
        <5> QED
          BY <3>1, <4>1, <5>1, <5>2, <5>3, <4>2 DEF RecoverCalls, WaitsFor
      <4>3. CASE h.pc = "new"
        <5>1. RecoverCalls(h)
          BY <4>1, <4>3 DEF FinishCall, ReserveCall
        <5>2. c \in CallIds /\ calls[c].status = "running" /\ calls[c].job = h.job
          BY <4>1 DEF RunningOf, Running, Made
        <5>3. calls[c].epoch # h.epoch
          BY <1>1, <4>1, <4>3 DEF NewOwnsNothing
        <5>4. calls[c] \in CallRows /\ h.epoch \in Nat
          BY <1>1, <5>2, CallerRecords DEF PaidTyped, CallsTyped, CallersTyped
        <5>5. calls[c].epoch < h.epoch
          BY <4>1, <5>3, <5>4 DEF CallRows
        <5>6. c \in Abandoned(h.job, h.epoch)
          BY <5>2, <5>5 DEF Abandoned, Made
        <5>7. calls'[c] = [calls[c] EXCEPT !.status = "unknown"]
          BY <5>1, <5>2, <5>6 DEF RecoverCalls
        <5>8. calls'[c].status = "unknown"
          BY <5>4, <5>7 DEF CallRows
        <5> QED
          BY <3>1, <5>8 DEF RunningOf, Running
      <4> QED
        BY <4>2, <4>3
    <3> QED
      BY <3>2, <3>3
  <2>5. OneOpenCall' /\ LeftByTheLast'
    BY <1>1, <1>2, <2>1 DEF OneOpenCall, LeftByTheLast, RunningOf
  <2> QED
    BY <1>5, <2>2, <2>3, <2>4, <2>5 DEF SettledInv
<1>7. ASSUME NEW p \in Purposes, ReserveCall(h, p) PROVE SettledInv'
  <2>1. CallAdded(h, p)
    BY <1>1, <1>7, ReserveAdds
  <2>2. /\ NextCall \in CallIds /\ h.pc = "ready"
        /\ job[h.job].status = "running" /\ Current(h)
    BY <2>1 DEF CallAdded, MayWork, Holds, Current
  <2>3. RunningOf(h.job) = {}
    BY <1>1, <2>2 DEF WaitsForItsCall, WaitsFor, CallEpochsBounded, RunningOf, Current
  <2>4. /\ calls'[NextCall].status = "running" /\ calls'[NextCall].job = h.job
        /\ calls'[NextCall].epoch = h.epoch
    BY <2>1, <2>2 DEF CallAdded
  <2>5. \A c \in CallIds : c # NextCall => calls'[c] = calls[c]
    BY <2>1 DEF CallAdded
  <2>6. \A c \in Running' : c = NextCall \/ c \in Running
    BY <2>5 DEF Running, Made
  <2>7. \A j : RunningOf(j)' \subseteq IF j = h.job THEN {NextCall} ELSE RunningOf(j)
    <3> SUFFICES ASSUME NEW j, NEW c \in RunningOf(j)'
                 PROVE  c \in IF j = h.job THEN {NextCall} ELSE RunningOf(j)
      OBVIOUS
    <3>1. c \in Running' /\ calls'[c].job = j
      BY DEF RunningOf
    <3>2. CASE c = NextCall
      BY <2>4, <3>1, <3>2
    <3>3. CASE c # NextCall
      <4>1. c \in Running /\ c \in CallIds
        BY <2>6, <3>1, <3>3 DEF Running, Made
      <4>2. c \in RunningOf(j)
        BY <2>5, <3>1, <3>3, <4>1 DEF RunningOf
      <4>3. j # h.job
        BY <2>3, <4>2
      <4> QED
        BY <4>2, <4>3
    <3> QED
      BY <3>2, <3>3
  <2>8. \A g \in callers' :
          \/ g \in callers /\ g # h
          \/ g.job = h.job /\ g.epoch = h.epoch /\ g.pc = "calling" /\ g.call = NextCall
    <3>1. ~RecoverCalls(h) /\ ~FinishCall(h)
      <4>1. h.pc # "new" /\ h.pc # "answered"
        BY <2>2
      <4> QED
        BY <4>1, Zenon DEF RecoverCalls, FinishCall
    <3> QED
      BY <1>4, <2>2, <3>1
  <2>9. CallEpochsBounded'
    <3>1. \A g \in callers' : g.epoch <= job'[g.job].epoch
      BY <1>1, <1>2, <2>8 DEF CallEpochsBounded
    <3>2. ASSUME NEW c \in Running' PROVE calls'[c].epoch <= job'[calls'[c].job].epoch
      <4>1. CASE c = NextCall
        BY <1>1, <1>2, <2>4, <4>1 DEF CallEpochsBounded
      <4>2. CASE c # NextCall
        BY <1>1, <1>2, <2>5, <2>6, <4>2 DEF CallEpochsBounded, Running, Made
      <4> QED
        BY <4>1, <4>2
    <3> QED
      BY <3>1, <3>2 DEF CallEpochsBounded
  <2>10. NewOwnsNothing'
    <3> SUFFICES ASSUME NEW g \in callers', g.pc = "new", NEW c \in RunningOf(g.job)'
                 PROVE  calls'[c].epoch # g.epoch
      BY DEF NewOwnsNothing
    <3>1. g \in callers /\ g # h
      BY <2>8
    <3>2. CASE g.job = h.job
      BY <1>1, <2>4, <2>7, <3>1, <3>2 DEF OneCallerPerEpoch
    <3>3. CASE g.job # h.job
      <4>1. c \in RunningOf(g.job) /\ c # NextCall /\ c \in CallIds
        BY <2>4, <2>7, <3>3 DEF RunningOf, Running, Made
      <4> QED
        BY <1>1, <2>5, <3>1, <4>1 DEF NewOwnsNothing
    <3> QED
      BY <3>2, <3>3
  <2>11. WaitsForItsCall'
    <3> SUFFICES ASSUME NEW g \in callers', g.pc # "new", NEW c \in RunningOf(g.job)',
                        g.epoch >= calls'[c].epoch
                 PROVE  WaitsFor(g, c)'
      BY DEF WaitsForItsCall
    <3>1. CASE g \in callers /\ g # h /\ g.job = h.job
      <4>1. c = NextCall /\ g.epoch >= h.epoch
        BY <2>4, <2>7, <3>1
      <4>2. g.epoch <= h.epoch /\ g.epoch # h.epoch /\ g.epoch \in Nat /\ h.epoch \in Nat
        BY <1>1, <2>2, <3>1, CallerRecords
        DEF CallEpochsBounded, OneCallerPerEpoch, Current, PaidTyped, CallersTyped
      <4> QED
        BY <4>1, <4>2
    <3>2. CASE g \in callers /\ g # h /\ g.job # h.job
      <4>1. c \in RunningOf(g.job) /\ c # NextCall /\ c \in CallIds
        BY <2>4, <2>7, <3>2 DEF RunningOf, Running, Made
      <4>2. calls'[c] = calls[c]
        BY <2>5, <4>1
      <4> QED
        BY <1>1, <3>2, <4>1, <4>2 DEF WaitsForItsCall, WaitsFor
    <3>3. CASE ~(g \in callers /\ g # h)
      <4>1. g.job = h.job /\ g.epoch = h.epoch /\ g.pc = "calling" /\ g.call = NextCall
        BY <2>8, <3>3
      <4> QED
        BY <2>4, <2>7, <4>1 DEF WaitsFor
    <3> QED
      BY <3>1, <3>2, <3>3
  <2>12. OneOpenCall'
    BY <1>1, <2>7 DEF OneOpenCall
  <2>13. LeftByTheLast'
    <3> SUFFICES ASSUME NEW j \in Jobs, job[j].status \in Finished \ {"cancelled"},
                        NEW c \in RunningOf(j)'
                 PROVE  job[j].status = "failed" /\ job[j].epoch = calls'[c].epoch
      BY <1>2 DEF LeftByTheLast
    <3>1. j # h.job
      BY <2>2 DEF Finished
    <3>2. c \in RunningOf(j) /\ c # NextCall /\ c \in CallIds
      BY <2>4, <2>7, <3>1 DEF RunningOf, Running, Made
    <3> QED
      BY <1>1, <2>5, <3>2 DEF LeftByTheLast
  <2> QED
    BY <1>5, <2>9, <2>10, <2>11, <2>12, <2>13 DEF SettledInv
<1>8. CASE ~\E p \in Purposes : ReserveCall(h, p)
  <2>1. CallsKept
    <3>1. CASE RecoverCalls(h) \/ FinishCall(h)
      BY <1>1, <3>1, RecoveryKeepsCalls, FinishKeepsCalls
    <3>2. CASE Answer(h) \/ CheckLease(h)
      BY <3>2 DEF Answer, CheckLease, CallsKept
    <3> QED
      BY <1>8, <3>1, <3>2 DEF CallerStep
  <2> QED
    BY <1>6, <2>1
<1> QED
  BY <1>7, <1>8

LEMMA AcquireSettled ==
  ASSUME SettledInv, NEW j \in Jobs, PaidAcquire(j), PaidTyped'
  PROVE  SettledInv'
<1>1. PaidTyped /\ CallEpochsBounded /\ OneCallerPerEpoch /\ NewOwnsNothing /\ WaitsForItsCall
        /\ OneOpenCall /\ LeftByTheLast
  BY DEF SettledInv
<1>2. calls' = calls
  BY DEF PaidAcquire
<1>3. \A i \in Jobs : /\ job[i].epoch \in Nat
                      /\ job'[i].epoch = IF i = j THEN job[i].epoch + 1 ELSE job[i].epoch
                      /\ job'[i].status = IF i = j THEN "running" ELSE job[i].status
  BY <1>1, JobStepsMove, JobRowRecords DEF PaidTyped, JobsTyped, PaidAcquire
<1>4. /\ \A h \in callers : h.job \in Jobs /\ h.epoch \in Nat
      /\ \A c \in Running : c \in Made /\ calls[c].job \in Jobs /\ calls[c].epoch \in Nat
  BY <1>1, CallerRecords, CallRecords DEF PaidTyped, CallersTyped, CallsTyped, Running, Made
<1>5. /\ Running' = Running /\ Made' = Made
      /\ \A i : RunningOf(i)' = RunningOf(i)
  BY <1>2 DEF Running, RunningOf, Made
<1>6. PICK new : /\ callers' = callers \cup {new}
                 /\ new.job = j /\ new.epoch = job[j].epoch + 1 /\ new.pc = "new"
  <2> DEFINE caller == [job |-> j, epoch |-> job[j].epoch + 1, pc |-> "new", call |-> 0,
                        answer |-> NoAnswer]
  <2>1. callers' = callers \cup {caller}
    BY DEF PaidAcquire
  <2>2. caller.job = j /\ caller.epoch = job[j].epoch + 1 /\ caller.pc = "new"
    OBVIOUS
  <2> HIDE DEF caller
  <2> QED
    BY <2>1, <2>2
<1>7. CallEpochsBounded'
  <2>1. \A h \in callers' : h.epoch <= job'[h.job].epoch
    BY <1>1, <1>3, <1>4, <1>6 DEF CallEpochsBounded
  <2>2. \A c \in Running : calls[c].epoch <= job'[calls[c].job].epoch
    BY <1>1, <1>3, <1>4 DEF CallEpochsBounded
  <2> QED
    BY <1>2, <1>5, <2>1, <2>2 DEF CallEpochsBounded
<1>8. OneCallerPerEpoch'
  <2>1. \A h \in callers : ~(h.job = new.job /\ h.epoch = new.epoch)
    BY <1>1, <1>3, <1>4, <1>6 DEF CallEpochsBounded
  <2> QED
    BY <1>1, <1>6, <2>1 DEF OneCallerPerEpoch
<1>9. NewOwnsNothing'
  <2>1. \A c \in RunningOf(j) : calls[c].epoch # new.epoch
    BY <1>1, <1>3, <1>4, <1>6 DEF CallEpochsBounded, RunningOf
  <2> QED
    BY <1>1, <1>2, <1>5, <1>6, <2>1 DEF NewOwnsNothing
<1>10. WaitsForItsCall'
  BY <1>1, <1>2, <1>5, <1>6 DEF WaitsForItsCall, WaitsFor
<1>11. OneOpenCall'
  BY <1>1, <1>5 DEF OneOpenCall
<1>12. LeftByTheLast'
  <2> SUFFICES ASSUME NEW i \in Jobs, job'[i].status \in Finished \ {"cancelled"},
                      NEW c \in RunningOf(i)
               PROVE  job'[i].status = "failed" /\ job'[i].epoch = calls[c].epoch
    BY <1>2, <1>5 DEF LeftByTheLast
  <2>1. i # j
    BY <1>3 DEF Finished
  <2> QED
    BY <1>1, <1>3, <2>1 DEF LeftByTheLast
<1> QED
  BY <1>7, <1>8, <1>9, <1>10, <1>11, <1>12 DEF SettledInv

LEMMA ReportSettled ==
  ASSUME SettledInv, NEW h \in callers, Report(h) \/ ParentSettles(h), PaidTyped'
  PROVE  SettledInv'
<1>1. PaidTyped /\ WaitsForItsCall /\ CallEpochsBounded
  BY DEF SettledInv
<1>2. h.job \in Jobs /\ JobsTyped
  BY <1>1, CallerRecords DEF PaidTyped, CallersTyped
<1>3. calls' = calls /\ callers' \subseteq callers
  BY DEF Report, ParentSettles
<1>4. CallsKept
  BY <1>3 DEF CallsKept
<1>5. CASE job' = job
  BY <1>3, <1>4, <1>5, <1>1, JobsMoveSettled
<1>6. ASSUME NEW outcome, job' = Released(h.job, outcome), Current(h), h.pc # "new",
             h.pc \in {"ready", "failed"} \/ outcome \in {"failed", "queued"}
      PROVE  SettledInv'
  <2>1. \A i \in Jobs : /\ job'[i].epoch = job[i].epoch
                        /\ i # h.job => job'[i].status = job[i].status
                        /\ i = h.job => job'[i].status \in {"cancelled", outcome}
    BY <1>2, <1>6, JobStepsMove
  <2>2. \A c \in RunningOf(h.job) :
           h.pc \in {"calling", "answered"} /\ calls[c].epoch = job[h.job].epoch
    BY <1>1, <1>6 DEF WaitsForItsCall, WaitsFor, CallEpochsBounded, RunningOf, Current
  <2>3. \A i \in Jobs : \/ job'[i].status \in {job[i].status, "cancelled", "queued"}
                        \/ RunningOf(i) = {}
                        \/ /\ job'[i].status = "failed"
                           /\ \A c \in RunningOf(i) : calls[c].epoch = job[i].epoch
    BY <1>6, <2>1, <2>2
  <2> QED
    BY <1>3, <1>4, <2>1, <2>3, JobsMoveSettled
<1> QED
  BY <1>5, <1>6 DEF Report, ParentSettles, Holds, Current

LEMMA SettledStep ==
  SettledInv /\ [PaidNext]_<<job, budgetVars, paidVars>> => SettledInv'
<1> SUFFICES ASSUME SettledInv, [PaidNext]_<<job, budgetVars, paidVars>> PROVE SettledInv'
  OBVIOUS
<1>1. PaidTyped /\ JobsTyped
  BY DEF SettledInv, PaidTyped
<1>2. PaidTyped'
  BY <1>1, StepTyped
<1>3. ASSUME NEW j \in Jobs, PaidAcquire(j) PROVE SettledInv'
  BY <1>2, <1>3, AcquireSettled
<1>4. ASSUME NEW j \in Jobs, JobMoves(j) PROVE SettledInv'
  <2>1. calls' = calls /\ callers' = callers
    BY <1>4 DEF JobMoves, paidVars
  <2>2. CallsKept
    BY <2>1 DEF CallsKept
  <2>3. \A i \in Jobs : /\ job'[i].epoch = job[i].epoch
                        /\ job'[i].status \in {job[i].status, "cancelled", "queued"}
    BY <1>1, <1>4, JobStepsMove DEF JobMoves
  <2> QED
    BY <1>2, <2>1, <2>2, <2>3, JobsMoveSettled
<1>5. ASSUME NEW h \in callers, CallerStep(h), ~Report(h), ~ParentSettles(h), ~CallerDies(h)
      PROVE  SettledInv'
  BY <1>2, <1>5, HandlerStepSettled
<1>6. ASSUME NEW h \in callers, Report(h) \/ ParentSettles(h) PROVE SettledInv'
  BY <1>2, <1>6, ReportSettled
<1>7. ASSUME job' = job, calls' = calls, callers' \subseteq callers PROVE SettledInv'
  <2>1. CallsKept
    BY <1>7 DEF CallsKept
  <2> QED
    BY <1>2, <1>7, <2>1, JobsMoveSettled
<1>8. ASSUME NEW h \in callers, CallerDies(h) PROVE SettledInv'
  BY <1>7, <1>8 DEF CallerDies
<1>9. CASE BudgetMoves \/ \E c \in CallIds : Acknowledge(c)
  BY <1>7, <1>9 DEF BudgetMoves, Acknowledge, paidVars
<1>10. CASE UNCHANGED <<job, budgetVars, paidVars>>
  BY <1>7, <1>10 DEF paidVars
<1> QED
  BY <1>3, <1>4, <1>5, <1>6, <1>8, <1>9, <1>10 DEF PaidNext, CallerStep

LEMMA SettledStarts == JobInit /\ PaidInit => SettledInv
<1> SUFFICES ASSUME JobInit, PaidInit PROVE SettledInv
  OBVIOUS
<1>1. Made = {} /\ callers = {}
  BY DEF PaidInit, Made
<1> QED
  BY <1>1, PaidInitTyped DEF SettledInv, CallEpochsBounded, OneCallerPerEpoch, NewOwnsNothing,
                             WaitsForItsCall, OneOpenCall, LeftByTheLast, Running, RunningOf

LEMMA SettledSays == ASSUME SettledInv PROVE OpenCallIsTheLastOne
<1>1. \A j \in Jobs : OpenCalls(j) = RunningOf(j)
  BY DEF OpenCalls, RunningOf, Running
<1> QED
  BY <1>1 DEF SettledInv, OpenCallIsTheLastOne, OneOpenCall, LeftByTheLast, WaitsForItsCall

(* The call that a job has open is the last one it made: recovery takes    *)
(* the calls of every earlier epoch, so that neither a crash between an    *)
(* acquisition and its recovery nor a parent that settles the job for its  *)
(* child leaves more (worker/app.py, dispatch).                            *)
THEOREM OpenCallIsLast == PaidSpec => []OpenCallIsTheLastOne
  BY SettledSays, SettledStarts, SettledStep, PTL DEF PaidSpec

-----------------------------------------------------------------------------
(* The reservations of a call: one request, the cap, one use of the job's  *)
(* analysis. I are the ids of all that the ledger holds.                   *)

Uses == {"network", "spend", "analysis"}
PaidIds == CallIds \X Uses
UsesOf(c) == {Network(c), Spend(c), Analysis(c)}

LEMMA UsesApart ==
  /\ \A c : /\ Network(c) # Spend(c) /\ Network(c) # Analysis(c) /\ Spend(c) # Analysis(c)
            /\ UsesOf(c) = {c} \X Uses
  /\ \A c, d : c # d => UsesOf(c) \cap UsesOf(d) = {}
  /\ \A c \in CallIds : UsesOf(c) \subseteq PaidIds
<1>1. \A c : Network(c) # Spend(c) /\ Network(c) # Analysis(c) /\ Spend(c) # Analysis(c)
  BY DEF Network, Spend, Analysis
<1>2. \A c : UsesOf(c) = {c} \X Uses
  BY DEF UsesOf, Uses, Network, Spend, Analysis
<1>3. \A c, d : c # d => UsesOf(c) \cap UsesOf(d) = {}
  BY <1>2
<1>4. \A c \in CallIds : UsesOf(c) \subseteq PaidIds
  BY <1>2 DEF PaidIds
<1> QED
  BY <1>1, <1>2, <1>3, <1>4

CallBooked(l, c) ==
  /\ \A id \in UsesOf(c) : RowsOf(l, id) # {}
  /\ Requested(l, Network(c)) = 1 /\ Charged(l, Network(c)) \in {Unsettled, 1}
  /\ Requested(l, Analysis(c)) = 1 /\ Charged(l, Analysis(c)) \in {Unsettled, 1}
  /\ Requested(l, Spend(c)) = Cap
CallBooks(I, M) == {l \in Ledgers(I) : Books(l) /\ \A c \in M : CallBooked(l, c)}

LEMMA ChargedIsNat ==
  ASSUME NEW I, NEW l \in Ledgers(I), Books(l), NEW id, IsSettled(l, id)
  PROVE  Charged(l, id) \in Nat
<1>1. PICK r \in RowsOf(l, id) : TRUE
  BY DEF IsSettled
<1>2. r \in RowSet(I) /\ Charged(l, id) = r.actual
  BY LedgerParts, RowsSay DEF Books, RowsOf
<1> QED
  BY <1>2, RowRecords DEF IsSettled

LEMMA CapIsNat == CallsTyped => price \in Nat /\ Cap \in Nat \ {0} /\ (Paid => Cap = price)
  BY PaidAssumption DEF CallsTyped, Cap, Paid

(* What is untouched stays booked.                                         *)
LEMMA StaysBooked ==
  ASSUME NEW l, NEW m, NEW c, CallBooked(l, c), \A id \in UsesOf(c) : RowsOf(m, id) = RowsOf(l, id)
  PROVE  CallBooked(m, c) /\ (IsSettled(m, Spend(c)) <=> IsSettled(l, Spend(c)))
           /\ Charged(m, Spend(c)) = Charged(l, Spend(c))
<1>1. \A id \in UsesOf(c) : /\ Requested(m, id) = Requested(l, id) /\ Charged(m, id) = Charged(l, id)
                            /\ IsSettled(m, id) <=> IsSettled(l, id)
  BY UntouchedSaysTheSame
<1>2. Network(c) \in UsesOf(c) /\ Spend(c) \in UsesOf(c) /\ Analysis(c) \in UsesOf(c)
  BY DEF UsesOf
<1> QED
  BY <1>1, <1>2 DEF CallBooked

(* Settling one use of a call.                                             *)
UseSettled(l, m, I, M, c, id, units) ==
  /\ m \in CallBooks(I, M) /\ Touches(l, m, {id})
  /\ IsSettled(m, id)
  /\ Charged(m, id) = IF IsSettled(l, id) /\ units <= Charged(l, id) THEN Charged(l, id) ELSE units

LEMMA UseSettles ==
  ASSUME CallsTyped, NEW I, NEW M, NEW l \in CallBooks(I, M), NEW c \in M, NEW id \in UsesOf(c),
         NEW units \in Nat, id # Spend(c) => units = 1,
         id = Spend(c) /\ IsSettled(l, id) => Charged(l, id) >= Cap \/ units <= Charged(l, id)
  PROVE  UseSettled(l, Settle(l, id, units), I, M, c, id, units)
<1> DEFINE m == Settle(l, id, units)
<1>1. l \in Ledgers(I) /\ Books(l) /\ \A d \in M : CallBooked(l, d)
  BY DEF CallBooks
<1>2. /\ RowsOf(l, id) # {}
      /\ IsSettled(l, id) => Charged(l, id) >= Requested(l, id) \/ units <= Charged(l, id)
      /\ id # Spend(c) => Charged(l, id) \in {Unsettled, 1} /\ Requested(l, id) = 1
      /\ id = Spend(c) => Requested(l, id) = Cap
  BY <1>1, UsesApart DEF UsesOf, CallBooked, IsSettled, Unsettled
<1>3. /\ m \in Ledgers(I) /\ Books(m) /\ m.attempts = l.attempts
      /\ \A i : i # id => RowsOf(m, i) = RowsOf(l, i)
      /\ RowsOf(m, id) # {} /\ IsSettled(m, id) /\ Requested(m, id) = Requested(l, id)
      /\ Charged(m, id) = IF IsSettled(l, id) /\ units <= Charged(l, id) THEN Charged(l, id) ELSE units
  BY <1>1, <1>2, SettleKeeps
<1> HIDE DEF m
<1>4. Touches(l, m, {id})
  BY <1>3 DEF Touches, AttemptOf
<1>5. CallBooked(m, c)
  <2>1. \A i \in UsesOf(c) : i # id =>
          Requested(m, i) = Requested(l, i) /\ Charged(m, i) = Charged(l, i) /\ RowsOf(m, i) # {}
    BY <1>1, <1>3, UntouchedSaysTheSame DEF CallBooked
  <2>2. id # Spend(c) => Charged(m, id) = 1 /\ Requested(m, id) = 1
    BY <1>2, <1>3 DEF IsSettled, Unsettled
  <2>3. Network(c) \in UsesOf(c) /\ Spend(c) \in UsesOf(c) /\ Analysis(c) \in UsesOf(c)
    BY DEF UsesOf
  <2>4. \A i \in UsesOf(c) : RowsOf(m, i) # {}
    BY <1>3, <2>1
  <2>5. /\ Requested(m, Network(c)) = 1 /\ Charged(m, Network(c)) \in {Unsettled, 1}
    BY <1>1, <2>1, <2>2, <2>3, UsesApart DEF CallBooked
  <2>6. Requested(m, Analysis(c)) = 1 /\ Charged(m, Analysis(c)) \in {Unsettled, 1}
    BY <1>1, <2>1, <2>2, <2>3, UsesApart DEF CallBooked
  <2>7. Requested(m, Spend(c)) = Cap
    BY <1>1, <1>2, <1>3, <2>1, <2>3 DEF CallBooked
  <2> QED
    BY <2>4, <2>5, <2>6, <2>7 DEF CallBooked
<1>6. \A d \in M : CallBooked(m, d)
  <2> SUFFICES ASSUME NEW d \in M, d # c PROVE CallBooked(m, d)
    BY <1>5
  <2>1. id \notin UsesOf(d)
    BY UsesApart
  <2>2. \A i \in UsesOf(d) : RowsOf(m, i) = RowsOf(l, i)
    BY <1>3, <2>1
  <2> QED
    BY <1>1, <2>2, StaysBooked
<1> QED
  BY <1>3, <1>4, <1>6 DEF UseSettled, CallBooks, m

ProviderCharge(l, c, charged) ==
  CASE IsSettled(l, Spend(c)) /\ (charged = Unknown \/ charged <= Charged(l, Spend(c)))
         -> Charged(l, Spend(c))
    [] ~IsSettled(l, Spend(c)) /\ charged = Unknown -> Cap
    [] OTHER -> charged
ProviderSettled(l, m, I, M, c, charged) ==
  /\ m \in CallBooks(I, M) /\ Touches(l, m, {Network(c), Spend(c)})
  /\ IsSettled(m, Spend(c)) /\ Charged(m, Spend(c)) = ProviderCharge(l, c, charged)

LEMMA ProviderSettles ==
  ASSUME CallsTyped, NEW I, NEW M, NEW l \in CallBooks(I, M), NEW c \in M,
         NEW charged \in Nat \cup {Unknown},
         charged # Unknown /\ IsSettled(l, Spend(c)) => Charged(l, Spend(c)) >= Cap
  PROVE  ProviderSettled(l, SettleProvider(l, c, charged), I, M, c, charged)
<1> DEFINE n == IF IsSettled(l, Network(c)) THEN l ELSE Settle(l, Network(c), 1)
           m == SettleProvider(l, c, charged)
<1>1. n \in CallBooks(I, M) /\ Touches(l, n, {Network(c)})
  <2>1. CASE IsSettled(l, Network(c))
    BY <2>1 DEF Touches
  <2>2. CASE ~IsSettled(l, Network(c))
    <3>1. Network(c) \in UsesOf(c) /\ Network(c) # Spend(c)
      BY UsesApart DEF UsesOf
    <3>2. UseSettled(l, Settle(l, Network(c), 1), I, M, c, Network(c), 1)
      BY <3>1, UseSettles
    <3> QED
      BY <2>2, <3>2 DEF UseSettled
  <2> QED
    BY <2>1, <2>2
<1>2. m = IF charged = Unknown
            THEN IF IsSettled(l, Spend(c)) THEN n ELSE Settle(n, Spend(c), Cap)
            ELSE Settle(n, Spend(c), charged)
  BY DEF SettleProvider
<1> HIDE DEF n, m
<1>3. /\ IsSettled(n, Spend(c)) <=> IsSettled(l, Spend(c))
      /\ Charged(n, Spend(c)) = Charged(l, Spend(c))
  <2>1. RowsOf(n, Spend(c)) = RowsOf(l, Spend(c))
    BY <1>1, UsesApart DEF Touches
  <2> QED
    BY <2>1, UntouchedSaysTheSame
<1>4. ASSUME NEW units \in Nat, m = Settle(n, Spend(c), units),
             IsSettled(l, Spend(c)) => Charged(l, Spend(c)) >= Cap
      PROVE  /\ m \in CallBooks(I, M) /\ Touches(l, m, {Network(c), Spend(c)})
             /\ IsSettled(m, Spend(c))
             /\ Charged(m, Spend(c)) = IF IsSettled(l, Spend(c)) /\ units <= Charged(l, Spend(c))
                                         THEN Charged(l, Spend(c)) ELSE units
  <2>1. Spend(c) \in UsesOf(c)
    BY DEF UsesOf
  <2>2. UseSettled(n, m, I, M, c, Spend(c), units)
    BY <1>1, <1>3, <1>4, <2>1, UseSettles
  <2>3. Touches(l, m, {Network(c)} \cup {Spend(c)})
    BY <1>1, <2>2, TouchesMore DEF UseSettled
  <2>4. {Network(c)} \cup {Spend(c)} = {Network(c), Spend(c)}
    OBVIOUS
  <2> QED
    BY <1>3, <2>2, <2>3, <2>4 DEF UseSettled
<1>5. CASE charged = Unknown /\ IsSettled(l, Spend(c))
  BY <1>1, <1>2, <1>3, <1>5 DEF ProviderSettled, ProviderCharge, Touches, m
<1>6. CASE charged = Unknown /\ ~IsSettled(l, Spend(c))
  <2>1. m = Settle(n, Spend(c), Cap) /\ Cap \in Nat
    BY <1>2, <1>6, CapIsNat
  <2> QED
    BY <1>4, <1>6, <2>1 DEF ProviderSettled, ProviderCharge, m
<1>7. CASE charged # Unknown
  <2>1. m = Settle(n, Spend(c), charged) /\ charged \in Nat
    BY <1>2, <1>7
  <2> QED
    BY <1>4, <1>7, <2>1 DEF ProviderSettled, ProviderCharge, m
<1> QED
  BY <1>5, <1>6, <1>7

AnalysisClosed(l, m, I, M, c) == m \in CallBooks(I, M) /\ Touches(l, m, {Analysis(c)})

LEMMA AnalysisCloses ==
  ASSUME CallsTyped, NEW I, PaidIds \in SUBSET I, NEW M \in SUBSET CallIds,
         NEW l \in CallBooks(I, M), NEW c \in M, NEW outcome \in {"succeeded", "failed"}
  PROVE  AnalysisClosed(l, FinishAttempt(Settle(l, Analysis(c), 1), Analysis(c), outcome), I, M, c)
<1> DEFINE id == Analysis(c)
           n == Settle(l, id, 1)
           m == FinishAttempt(n, id, outcome)
<1>1. id \in UsesOf(c) /\ id # Spend(c) /\ id \in I /\ outcome \in AttemptStates
  BY UsesApart DEF UsesOf, AttemptStates
<1>2. UseSettled(l, n, I, M, c, id, 1)
  BY <1>1, UseSettles
<1> HIDE DEF n
<1>3. n \in CallBooks(I, M) /\ Touches(l, n, {id})
  BY <1>2 DEF UseSettled
<1>4. m \in Ledgers(I) /\ OnlyAttempt(n, m, id)
  BY <1>1, <1>3, FinishKeeps DEF CallBooks
<1> HIDE DEF m
<1>5. Books(m) /\ \A i : RowsOf(m, i) = RowsOf(n, i)
  BY <1>3, <1>4, OnlyAttemptKeeps DEF CallBooks
<1>6. \A d \in M : CallBooked(m, d)
  BY <1>3, <1>5, StaysBooked DEF CallBooks
<1>7. Touches(l, m, {id})
  BY <1>3, <1>4, <1>5 DEF Touches, OnlyAttempt
<1> QED
  BY <1>4, <1>5, <1>6, <1>7 DEF AnalysisClosed, CallBooks, m, n

(* A call that recovery found is charged its whole cap.                    *)
QuarantinedAs(l, m, I, M, c) ==
  /\ m \in CallBooks(I, M) /\ Touches(l, m, UsesOf(c)) /\ IsSettled(m, Spend(c))
  /\ Charged(m, Spend(c)) = IF IsSettled(l, Spend(c)) THEN Charged(l, Spend(c)) ELSE Cap

LEMMA Quarantines ==
  ASSUME CallsTyped, NEW I, PaidIds \in SUBSET I, NEW M \in SUBSET CallIds,
         NEW l \in CallBooks(I, M), NEW c \in M
  PROVE  QuarantinedAs(l, Quarantine(l, c), I, M, c)
<1> DEFINE n == SettleProvider(l, c, Unknown)
           m == FinishAttempt(Settle(n, Analysis(c), 1), Analysis(c), "failed")
<1>1. ProviderSettled(l, n, I, M, c, Unknown)
  BY ProviderSettles
<1>2. m = Quarantine(l, c)
  BY DEF Quarantine
<1> HIDE DEF n
<1>3. AnalysisClosed(n, m, I, M, c)
  BY <1>1, AnalysisCloses DEF ProviderSettled
<1> HIDE DEF m
<1>4. RowsOf(m, Spend(c)) = RowsOf(n, Spend(c))
  BY <1>3, UsesApart DEF AnalysisClosed, Touches
<1>5. IsSettled(m, Spend(c)) /\ Charged(m, Spend(c)) = ProviderCharge(l, c, Unknown)
  BY <1>1, <1>4, UntouchedSaysTheSame DEF ProviderSettled
<1>6. Touches(l, m, {Network(c), Spend(c)} \cup {Analysis(c)})
  BY <1>1, <1>3, TouchesMore DEF ProviderSettled, AnalysisClosed
<1>7. {Network(c), Spend(c)} \cup {Analysis(c)} = UsesOf(c)
  BY DEF UsesOf
<1> QED
  BY <1>2, <1>3, <1>5, <1>6, <1>7 DEF QuarantinedAs, AnalysisClosed, ProviderCharge

(* What recovery leaves of all calls it found, in whatever order it takes  *)
(* them.                                                                   *)
AllQuarantined(l, m, I, M, S) ==
  /\ m \in CallBooks(I, M) /\ Touches(l, m, S \X Uses)
  /\ \A c \in S : /\ IsSettled(m, Spend(c))
                  /\ Charged(m, Spend(c)) =
                       IF IsSettled(l, Spend(c)) THEN Charged(l, Spend(c)) ELSE Cap

LEMMA QuarantinesMore ==
  ASSUME NEW I, NEW M, NEW l, NEW S, NEW m, AllQuarantined(l, m, I, M, S),
         NEW c, c \notin S, NEW n, QuarantinedAs(m, n, I, M, c)
  PROVE  AllQuarantined(l, n, I, M, S \cup {c})
<1>1. Touches(l, n, (S \cup {c}) \X Uses)
  <2>1. Touches(l, n, (S \X Uses) \cup UsesOf(c))
    BY TouchesMore DEF AllQuarantined, QuarantinedAs
  <2>2. (S \X Uses) \cup UsesOf(c) = (S \cup {c}) \X Uses
    BY UsesApart
  <2> QED
    BY <2>1, <2>2
<1>2. ASSUME NEW d \in S
      PROVE  RowsOf(n, Spend(d)) = RowsOf(m, Spend(d))
  <2>1. Spend(d) \notin UsesOf(c)
    BY UsesApart DEF UsesOf
  <2> QED
    BY <2>1 DEF QuarantinedAs, Touches
<1>3. ASSUME NEW d \in S
      PROVE  /\ IsSettled(n, Spend(d)) <=> IsSettled(m, Spend(d))
             /\ Charged(n, Spend(d)) = Charged(m, Spend(d))
  BY <1>2, UntouchedSaysTheSame
<1>4. /\ IsSettled(m, Spend(c)) <=> IsSettled(l, Spend(c))
      /\ Charged(m, Spend(c)) = Charged(l, Spend(c))
  <2>1. Spend(c) \notin S \X Uses
    BY DEF Spend
  <2>2. RowsOf(m, Spend(c)) = RowsOf(l, Spend(c))
    BY <2>1 DEF AllQuarantined, Touches
  <2> QED
    BY <2>2, UntouchedSaysTheSame
<1> QED
  BY <1>1, <1>3, <1>4 DEF AllQuarantined, QuarantinedAs

Quarantining(I, M, S) == [p \in S \X CallBooks(I, M) |-> Quarantine(p[2], p[1])]
QuarantineFold(g, I, M, S, base) ==
  /\ Folds(g, S, CallBooks(I, M), base, Quarantining(I, M, S))
  /\ \A s \in SUBSET S : s # {} => g[s] = Quarantine(g[s \ {First(s)}], First(s))

LEMMA QuarantineFolds ==
  ASSUME CallsTyped, NEW I, PaidIds \in SUBSET I, NEW M \in SUBSET CallIds,
         NEW S \in SUBSET M, IsFiniteSet(S), NEW base \in CallBooks(I, M)
  PROVE  \E g : QuarantineFold(g, I, M, S, base) /\ AllQuarantined(base, g[S], I, M, S)
<1> DEFINE L == CallBooks(I, M)
           F == Quarantining(I, M, S)
           Q == {p \in (SUBSET S) \X L : AllQuarantined(base, p[2], I, M, p[1])}
<1>1. \A c \in S, l \in L : F[<<c, l>>] = Quarantine(l, c)
  BY DEF Quarantining
<1>2. \A c \in S, l \in L : QuarantinedAs(l, Quarantine(l, c), I, M, c)
  BY Quarantines
<1>3. \A p \in S \X L : Quarantine(p[2], p[1]) \in L
  BY <1>2 DEF QuarantinedAs
<1>4. F \in [S \X L -> L]
  BY <1>3 DEF Quarantining
<1>5. PICK g : Folds(g, S, L, base, F)
  BY <1>4, FoldExists
<1>6. <<{}, base>> \in Q
  BY DEF AllQuarantined, Touches
<1>7. ASSUME NEW T \in SUBSET S, NEW x \in S, NEW l \in L, x \notin T, <<T, l>> \in Q
      PROVE  <<T \cup {x}, F[<<x, l>>]>> \in Q
  <2> DEFINE m == F[<<x, l>>]
  <2>1. AllQuarantined(base, l, I, M, T)
    BY <1>7
  <2> HIDE DEF L, F
  <2>2. m \in L /\ QuarantinedAs(l, m, I, M, x)
    BY <1>1, <1>2, <1>4
  <2> HIDE DEF m
  <2>3. AllQuarantined(base, m, I, M, T \cup {x})
    BY <1>7, <2>1, <2>2, QuarantinesMore
  <2> QED
    BY <2>2, <2>3 DEF m
<1> HIDE DEF Q, L, F
<1>8. <<S, g[S]>> \in Q
  BY <1>5, <1>6, <1>7, FoldReaches
<1>9. AllQuarantined(base, g[S], I, M, S)
  BY <1>8 DEF Q
<1>10. ASSUME NEW s \in SUBSET S, s # {} PROVE g[s] = Quarantine(g[s \ {First(s)}], First(s))
  <2>1. First(s) \in S /\ s \ {First(s)} \in SUBSET S
    BY <1>10, FirstOf
  <2>2. g[s \ {First(s)}] \in L /\ g[s] = F[<<First(s), g[s \ {First(s)}]>>]
    BY <1>5, <1>10, <2>1 DEF Folds
  <2> QED
    BY <1>1, <2>1, <2>2
<1>11. QuarantineFold(g, I, M, S, base)
  BY <1>5, <1>10 DEF QuarantineFold, L, F
<1> QED
  BY <1>9, <1>11

(* FoldSet computes that fold, whatever order it takes the calls in.       *)
LEMMA QuarantineReaches ==
  ASSUME NEW I, NEW M, NEW S, IsFiniteSet(S), NEW base, NEW g, QuarantineFold(g, I, M, S, base),
         NEW h, h[{}] = base,
         \A s \in SUBSET S : s # {} /\ h[s \ {First(s)}] = g[s \ {First(s)}] => h[s] = g[s],
         AllQuarantined(base, g[S], I, M, S)
  PROVE  AllQuarantined(base, h[S], I, M, S)
<1>1. /\ Folds(g, S, CallBooks(I, M), base, Quarantining(I, M, S))
      /\ \A s \in SUBSET S : s # {} =>
           g[s] = Quarantining(I, M, S)[<<First(s), g[s \ {First(s)}]>>]
  BY DEF QuarantineFold, Folds
<1>2. \A s \in SUBSET S : s # {} /\ h[s \ {First(s)}] = g[s \ {First(s)}]
        => h[s] = Quarantining(I, M, S)[<<First(s), g[s \ {First(s)}]>>]
  BY <1>1
<1> DEFINE L == CallBooks(I, M)
           F == Quarantining(I, M, S)
<1> HIDE DEF L, F
<1>3. Folds(g, S, L, base, F)
  BY <1>1 DEF L, F
<1>4. \A s \in SUBSET S : s # {} /\ h[s \ {First(s)}] = g[s \ {First(s)}]
        => h[s] = F[<<First(s), g[s \ {First(s)}]>>]
  BY <1>2 DEF F
<1>5. h[S] = g[S]
  BY <1>3, <1>4, FoldsOnce
<1> QED
  BY <1>5

LEMMA QuarantinesAll ==
  ASSUME CallsTyped, NEW I, PaidIds \in SUBSET I, NEW M \in SUBSET CallIds,
         NEW S \in SUBSET M, IsFiniteSet(S), NEW l \in CallBooks(I, M)
  PROVE  AllQuarantined(l, QuarantineAll(l, S), I, M, S)
<1> DEFINE op(c, rest) == Quarantine(rest, c)
           Step(h, s) == IF s = {} THEN l
                         ELSE op(CHOOSE x \in s : TRUE, h[s \ {CHOOSE x \in s : TRUE}])
           iter == CHOOSE h : h = [s \in SUBSET S |-> Step(h, s)]
<1>1. QuarantineAll(l, S) = iter[S]
  BY DEF QuarantineAll, FoldSet, MapThenFoldSet
<1>2. PICK g : QuarantineFold(g, I, M, S, l) /\ AllQuarantined(l, g[S], I, M, S)
  BY QuarantineFolds
<1>3. ASSUME NEW s \in SUBSET S, s # {}
      PROVE  g[s] = op(First(s), g[s \ {First(s)}])
  BY <1>2, <1>3 DEF QuarantineFold
<1>4. g[{}] = l /\ g \in [SUBSET S -> CallBooks(I, M)]
  BY <1>2 DEF QuarantineFold, Folds
<1> HIDE DEF op
<1>5. \A s \in SUBSET S : iter[s] = Step(iter, s)
  <2>1. g = [s \in SUBSET S |-> Step(g, s)]
    BY <1>3, <1>4 DEF First
  <2> HIDE DEF Step
  <2>2. iter = [s \in SUBSET S |-> Step(iter, s)]
    BY <2>1
  <2> HIDE DEF iter
  <2> QED
    BY <2>2
<1> HIDE DEF iter
<1>6. iter[{}] = l
  BY <1>5
<1>7. \A s \in SUBSET S : s # {} /\ iter[s \ {First(s)}] = g[s \ {First(s)}] => iter[s] = g[s]
  BY <1>3, <1>5 DEF First
<1>8. AllQuarantined(l, iter[S], I, M, S)
  BY <1>2, <1>6, <1>7, QuarantineReaches
<1> QED
  BY <1>1, <1>8

-----------------------------------------------------------------------------
(* The ledger explains every call: what was never made has no reservation, *)
(* a running call holds open ones and every other is charged what it owes. *)
(* Whoever still waits for an answer is the only one to wait for it, and   *)
(* finds the call running or charged its whole cap by recovery.            *)

FeeCharged(l, c, x) ==
  /\ x.status = "running" <=> ~IsSettled(l, Spend(c))
  /\ x.status = "running" => x.actual = Unknown
  /\ x.status # "running" =>
       /\ Charged(l, Spend(c)) >= x.actual
       /\ x.status = "unknown" /\ Paid => Charged(l, Spend(c)) >= price
Awaited(l, c, x) ==
  x.status = "running" \/ (x.status = "unknown" /\ Charged(l, Spend(c)) >= Cap)
Waits(h) == h.pc \in {"calling", "answered"}

AnswersAwaited ==
  /\ \A h \in callers : Waits(h) => h.call \in Made /\ Awaited(ledger, h.call, calls[h.call])
  /\ \A g, h \in callers : Waits(g) /\ Waits(h) /\ g.call = h.call => g = h
CallsCharged ==
  /\ \A c \in CallIds \ Made, id \in PaidIds : id \in UsesOf(c) => RowsOf(ledger, id) = {}
  /\ \A c \in Made : FeeCharged(ledger, c, calls[c])
PaidLedger(I) ==
  PoliciesTyped /\ ledger \in CallBooks(I, Made) /\ CallsCharged /\ AnswersAwaited

LEMMA PriceFixes ==
  ASSUME price' = price
  PROVE  /\ Paid' <=> Paid
         /\ Cap' = Cap
         /\ \A l, c : CallBooked(l, c)' <=> CallBooked(l, c)
         /\ \A l, c, x : FeeCharged(l, c, x)' <=> FeeCharged(l, c, x)
         /\ \A l, c, x : Awaited(l, c, x)' <=> Awaited(l, c, x)
  BY DEF Paid, Cap, CallBooked, FeeCharged, Awaited, Requested, Charged, IsSettled, RowsOf, UsesOf,
         Network, Spend, Analysis

(* A call that keeps its reservations, its status and its fee.             *)
LEMMA StaysCharged ==
  ASSUME NEW l, NEW m, NEW c, \A id \in UsesOf(c) : RowsOf(m, id) = RowsOf(l, id), NEW x
  PROVE  /\ FeeCharged(l, c, x) => FeeCharged(m, c, x)
         /\ Awaited(l, c, x) => Awaited(m, c, x)
<1>1. RowsOf(m, Spend(c)) = RowsOf(l, Spend(c))
  BY DEF UsesOf
<1> QED
  BY <1>1, UntouchedSaysTheSame DEF FeeCharged, Awaited

(* Handlers come and go, or hear the answer of their call.                 *)
LEMMA CallersMoveOn ==
  ASSUME NEW I, PaidLedger(I), PoliciesTyped', ledger' = ledger, calls' = calls, price' = price,
         NEW h, NEW k,
         \A g \in callers' : Waits(g) =>
           \/ g \in callers \ {h}
           \/ g = k /\ h \in callers /\ Waits(h) /\ k.call = h.call
  PROVE  PaidLedger(I)'
<1>1. Made' = Made
  BY DEF Made
<1>2. /\ \A l, c : CallBooked(l, c)' <=> CallBooked(l, c)
      /\ \A l, c, x : FeeCharged(l, c, x)' <=> FeeCharged(l, c, x)
      /\ \A l, c, x : Awaited(l, c, x)' <=> Awaited(l, c, x)
  BY PriceFixes
<1>3. (ledger \in CallBooks(I, Made))'
  BY <1>1, <1>2 DEF PaidLedger, CallBooks
<1>4. CallsCharged'
  BY <1>1, <1>2 DEF PaidLedger, CallsCharged
<1>5. AnswersAwaited'
  BY <1>1, <1>2 DEF PaidLedger, AnswersAwaited
<1> QED
  BY <1>3, <1>4, <1>5 DEF PaidLedger

(* Other jobs spend from the same ledger.                                  *)
LEMMA PaidElsewhere ==
  ASSUME CallsTyped, NEW I, PaidLedger(I), UNCHANGED paidVars, PoliciesTyped',
         ledger' \in Ledgers(I), Books(ledger'), Touches(ledger, ledger', I \ PaidIds),
         PaidIds \in SUBSET I
  PROVE  PaidLedger(I)'
<1>1. Made' = Made /\ calls' = calls /\ callers' = callers /\ price' = price
  BY DEF Made, paidVars
<1>2. /\ \A l, c : CallBooked(l, c)' <=> CallBooked(l, c)
      /\ \A l, c, x : FeeCharged(l, c, x)' <=> FeeCharged(l, c, x)
      /\ \A l, c, x : Awaited(l, c, x)' <=> Awaited(l, c, x)
  BY <1>1, PriceFixes
<1>3. \A c \in CallIds, id \in PaidIds : id \in UsesOf(c) => RowsOf(ledger', id) = RowsOf(ledger, id)
  BY DEF Touches
<1>4. \A c \in Made : c \in CallIds /\ \A id \in UsesOf(c) : RowsOf(ledger', id) = RowsOf(ledger, id)
  BY <1>3, UsesApart DEF Made
<1>5. \A c \in Made : CallBooked(ledger', c)
  BY <1>4, StaysBooked DEF PaidLedger, CallBooks
<1>6. (ledger \in CallBooks(I, Made))'
  BY <1>1, <1>2, <1>5 DEF CallBooks
<1>7. CallsCharged'
  BY <1>1, <1>2, <1>3, <1>4, StaysCharged DEF PaidLedger, CallsCharged
<1>8. AnswersAwaited'
  BY <1>1, <1>2, <1>4, StaysCharged DEF PaidLedger, AnswersAwaited
<1> QED
  BY <1>6, <1>7, <1>8 DEF PaidLedger

(* Recovery charges the caps of what it quarantines, and those who still   *)
(* wait for these calls may go on waiting.                                 *)
LEMMA RecoverCharges ==
  ASSUME NotRepeatedInv, NEW I, PaidIds \in SUBSET I, PaidLedger(I),
         NEW h \in callers, RecoverCalls(h)
  PROVE  PaidLedger(I)' /\ Touches(ledger, ledger', PaidIds)
<1> DEFINE lost == Abandoned(h.job, h.epoch)
<1>1. PaidTyped /\ MadeInOrder /\ CallsTyped
  BY DEF NotRepeatedInv, PaidTyped
<1>2. Made \in SUBSET CallIds /\ lost \in SUBSET Made /\ IsFiniteSet(lost)
  <2>1. Made \in SUBSET CallIds /\ lost \in SUBSET Made
    BY DEF Made, Abandoned
  <2>2. IsFiniteSet(CallIds)
    BY FS_Interval, PaidAssumption DEF CallIds
  <2> QED
    BY <2>1, <2>2, FS_Subset
<1>3. \A c \in lost : calls[c].status = "running"
  BY DEF Abandoned
<1>4. /\ ledger' = QuarantineAll(ledger, lost)
      /\ calls' = [c \in CallIds |-> IF c \in lost THEN [calls[c] EXCEPT !.status = "unknown"]
                                     ELSE calls[c]]
      /\ UNCHANGED <<policy, now, price>>
      /\ Goes(h, "ready")
  BY DEF RecoverCalls
<1> HIDE DEF lost
<1>5. AllQuarantined(ledger, ledger', I, Made, lost)
  BY <1>1, <1>2, <1>4, QuarantinesAll DEF PaidLedger
<1>6. ledger' \in CallBooks(I, Made) /\ Touches(ledger, ledger', lost \X Uses)
  BY <1>5 DEF AllQuarantined
<1>7. ASSUME NEW c \in CallIds
      PROVE  /\ c \in lost => /\ calls'[c].status = "unknown"
                              /\ calls'[c].actual = calls[c].actual
             /\ c \notin lost => calls'[c] = calls[c]
  BY <1>1, <1>4 DEF CallsTyped, CallRows
<1>8. Made' = Made
  BY <1>2, <1>3, <1>7 DEF Made
<1>9. /\ \A l, c : CallBooked(l, c)' <=> CallBooked(l, c)
      /\ \A l, c, x : FeeCharged(l, c, x)' <=> FeeCharged(l, c, x)
      /\ \A l, c, x : Awaited(l, c, x)' <=> Awaited(l, c, x)
  BY <1>4, PriceFixes
<1>10. ASSUME NEW c, c \notin lost
       PROVE  \A id \in UsesOf(c) : RowsOf(ledger', id) = RowsOf(ledger, id)
  BY <1>6, <1>10, UsesApart DEF Touches
<1>11. ASSUME NEW c \in lost
       PROVE  FeeCharged(ledger', c, calls'[c]) /\ Awaited(ledger', c, calls'[c])
  <2>1. c \in CallIds /\ c \in Made /\ calls[c].status = "running"
    BY <1>2, <1>3
  <2>2. ~IsSettled(ledger, Spend(c)) /\ calls[c].actual = Unknown
    BY <2>1 DEF PaidLedger, CallsCharged, FeeCharged
  <2>3. IsSettled(ledger', Spend(c)) /\ Charged(ledger', Spend(c)) = Cap
    BY <1>5, <2>2 DEF AllQuarantined
  <2>4. calls'[c].status = "unknown" /\ calls'[c].actual \in Charges
    BY <1>1, <1>7, <2>1 DEF CallsTyped, CallRows
  <2>5. calls'[c].actual = Unknown
    BY <1>7, <2>1, <2>2
  <2> QED
    BY <1>1, <2>3, <2>4, <2>5, CapIsNat DEF FeeCharged, Awaited, Unknown
<1>12. (ledger \in CallBooks(I, Made))'
  BY <1>6, <1>8, <1>9 DEF CallBooks
<1>13. CallsCharged'
  <2>1. \A c \in CallIds \ Made, id \in PaidIds : id \in UsesOf(c) => RowsOf(ledger', id) = {}
    BY <1>2, <1>10 DEF PaidLedger, CallsCharged
  <2>2. ASSUME NEW c \in Made, c \notin lost PROVE FeeCharged(ledger', c, calls'[c])
    BY <1>2, <1>7, <1>10, <2>2, StaysCharged DEF PaidLedger, CallsCharged
  <2> QED
    BY <1>8, <1>9, <1>11, <2>1, <2>2 DEF CallsCharged
<1>14. AnswersAwaited'
  <2>1. \A g \in callers' : Waits(g) => g \in callers
    <3>1. h \in Callers
      BY <1>1, CallerRecords DEF PaidTyped, CallersTyped
    <3>2. [h EXCEPT !.pc = "ready"].pc = "ready"
      BY <3>1 DEF Callers
    <3> QED
      BY <1>4, <3>2 DEF Goes, Waits
  <2>2. ASSUME NEW g \in callers, Waits(g)
        PROVE  g.call \in Made /\ Awaited(ledger', g.call, calls'[g.call])
    BY <1>2, <1>7, <1>10, <1>11, <2>2, StaysCharged DEF PaidLedger, AnswersAwaited
  <2> QED
    BY <1>8, <1>9, <2>1, <2>2 DEF PaidLedger, AnswersAwaited
<1>15. PoliciesTyped'
  BY <1>4 DEF PaidLedger, PoliciesTyped
<1>16. Touches(ledger, ledger', PaidIds)
  BY <1>2, <1>6 DEF Touches, PaidIds
<1> QED
  BY <1>12, <1>13, <1>14, <1>15, <1>16 DEF PaidLedger

(* A call is made with all its reservations open.                          *)
LEMMA ReserveCharges ==
  ASSUME NotRepeatedInv, NEW I, PaidIds \in SUBSET I, PaidLedger(I),
         NEW h \in callers, NEW p \in Purposes, ReserveCall(h, p)
  PROVE  PaidLedger(I)' /\ Touches(ledger, ledger', PaidIds)
<1> DEFINE c == NextCall
           n == Network(c)
           s == Spend(c)
           a == Analysis(c)
           l1 == Reserve(ledger, n, "network", ProviderScopes, 1)
           l2 == Reserve(l1, s, "spend", ProviderScopes, Cap)
           l3 == Reserve(l2, a, "analysis", {"job"}, 1)
           l4 == BeginAttempt(l3, a)
<1>1. PaidTyped /\ MadeInOrder /\ CallsTyped
  BY DEF NotRepeatedInv, PaidTyped
<1>2. /\ CallAdded(h, p)
      /\ ledger' = l4
      /\ MayReserve(ledger, n, "network", ProviderScopes, 1)
      /\ MayReserve(ledger, s, "spend", ProviderScopes, Cap)
      /\ MayReserve(ledger, a, "analysis", {"job"}, 1)
      /\ callers' = (callers \ {h}) \cup {[h EXCEPT !.pc = "calling", !.call = c]}
      /\ UNCHANGED <<policy, now, price>>
  BY <1>1, ReserveAdds DEF ReserveCall, Admitted, NextCall
<1>3. c \in CallIds /\ c \notin Made /\ Made \subseteq CallIds
  BY <1>1, <1>2, NextCallIsLast DEF CallAdded, Made
<1>4. /\ n \in UsesOf(c) /\ s \in UsesOf(c) /\ a \in UsesOf(c) /\ UsesOf(c) = {n, s, a}
      /\ n # s /\ n # a /\ s # a /\ UsesOf(c) \subseteq PaidIds /\ UsesOf(c) \subseteq I
      /\ n \in I /\ s \in I /\ a \in I
  BY <1>3, UsesApart DEF UsesOf
<1>5. \A id \in UsesOf(c) : RowsOf(ledger, id) = {}
  BY <1>3, <1>4 DEF PaidLedger, CallsCharged
<1>6. PoliciesTyped /\ ledger \in Ledgers(I) /\ Books(ledger) /\ \A d \in Made : CallBooked(ledger, d)
  BY DEF PaidLedger, CallBooks
<1>7. Cap \in Nat \ {0} /\ 1 \in Nat \ {0}
  BY <1>1, CapIsNat
<1> HIDE DEF c, n, s, a
<1>8. /\ l1 \in Ledgers(I) /\ Books(l1)
      /\ \A i : i # n => RowsOf(l1, i) = RowsOf(ledger, i)
      /\ RowsOf(l1, n) # {} /\ Requested(l1, n) = 1 /\ Charged(l1, n) = Unsettled
      /\ l1.attempts = ledger.attempts
  BY <1>2, <1>4, <1>5, <1>6, <1>7, ReserveKeeps
<1>9. /\ MayReserve(l1, s, "spend", ProviderScopes, Cap)
      /\ MayReserve(l1, a, "analysis", {"job"}, 1)
  BY <1>2, <1>4, <1>6, <1>7, ReservedApart
<1> HIDE DEF l1
<1>10. /\ l2 \in Ledgers(I) /\ Books(l2)
       /\ \A i : i # s => RowsOf(l2, i) = RowsOf(l1, i)
       /\ RowsOf(l2, s) # {} /\ Requested(l2, s) = Cap /\ ~IsSettled(l2, s)
       /\ l2.attempts = l1.attempts
  BY <1>4, <1>5, <1>6, <1>7, <1>8, <1>9, ReserveKeeps
<1>11. MayReserve(l2, a, "analysis", {"job"}, 1)
  BY <1>4, <1>6, <1>7, <1>8, <1>9, ReservedApart
<1> HIDE DEF l2
<1>12. /\ l3 \in Ledgers(I) /\ Books(l3)
       /\ \A i : i # a => RowsOf(l3, i) = RowsOf(l2, i)
       /\ RowsOf(l3, a) # {} /\ Requested(l3, a) = 1 /\ Charged(l3, a) = Unsettled
       /\ l3.attempts = l2.attempts
  BY <1>4, <1>5, <1>6, <1>7, <1>8, <1>10, <1>11, ReserveKeeps
<1> HIDE DEF l3
<1>13. l4 \in Ledgers(I) /\ OnlyAttempt(l3, l4, a)
  BY <1>4, <1>12, BeginKeeps
<1> HIDE DEF l4
<1>14. /\ Books(l4)
       /\ \A i : RowsOf(l4, i) = RowsOf(l3, i)
  BY <1>12, <1>13, OnlyAttemptKeeps
<1>15. Touches(ledger, l4, UsesOf(c))
  BY <1>4, <1>8, <1>10, <1>12, <1>13, <1>14 DEF Touches, OnlyAttempt, AttemptOf
<1>16. CallBooked(l4, c) /\ ~IsSettled(l4, s)
  <2>1. /\ RowsOf(l4, n) = RowsOf(l1, n) /\ RowsOf(l4, s) = RowsOf(l2, s)
        /\ RowsOf(l4, a) = RowsOf(l3, a)
    BY <1>4, <1>10, <1>12, <1>14
  <2>2. /\ Requested(l4, n) = 1 /\ Charged(l4, n) = Unsettled
        /\ Requested(l4, s) = Cap /\ ~IsSettled(l4, s)
        /\ Requested(l4, a) = 1 /\ Charged(l4, a) = Unsettled
    BY <1>8, <1>10, <1>12, <2>1, UntouchedSaysTheSame
  <2> QED
    BY <1>4, <1>8, <1>10, <1>12, <2>1, <2>2 DEF CallBooked, n, s, a
<1>17. ASSUME NEW d, d # c PROVE \A id \in UsesOf(d) : RowsOf(l4, id) = RowsOf(ledger, id)
  BY <1>15, <1>17, UsesApart DEF Touches
<1>18. /\ \A l, d : CallBooked(l, d)' <=> CallBooked(l, d)
       /\ \A l, d, x : FeeCharged(l, d, x)' <=> FeeCharged(l, d, x)
       /\ \A l, d, x : Awaited(l, d, x)' <=> Awaited(l, d, x)
  BY <1>2, PriceFixes
<1>19. /\ \A d \in CallIds : d # c => calls'[d] = calls[d]
       /\ calls'[c].status = "running" /\ calls'[c].actual = Unknown
       /\ Made' = Made \cup {c}
  <2>1. \A d \in CallIds : calls'[d] = IF d = c THEN [status |-> "running", job |-> h.job,
                             purpose |-> p, epoch |-> h.epoch, actual |-> Unknown] ELSE calls[d]
    BY <1>2 DEF CallAdded, c
  <2> QED
    BY <1>3, <2>1 DEF Made
<1>20. (ledger \in CallBooks(I, Made))'
  <2>1. \A d \in Made : CallBooked(l4, d)
    BY <1>3, <1>6, <1>17, StaysBooked
  <2> QED
    BY <1>2, <1>13, <1>14, <1>16, <1>18, <1>19, <2>1 DEF CallBooks
<1>21. FeeCharged(l4, c, calls'[c]) /\ Awaited(l4, c, calls'[c])
  BY <1>16, <1>19 DEF FeeCharged, Awaited, s
<1>22. ASSUME NEW d \in Made
       PROVE  /\ FeeCharged(l4, d, calls'[d])
              /\ Awaited(ledger, d, calls[d]) => Awaited(l4, d, calls'[d])
  BY <1>3, <1>17, <1>19, StaysCharged DEF PaidLedger, CallsCharged
<1>23. CallsCharged'
  <2>1. \A d \in CallIds \ Made', id \in PaidIds : id \in UsesOf(d) => RowsOf(l4, id) = {}
    BY <1>17, <1>19 DEF PaidLedger, CallsCharged
  <2> QED
    BY <1>2, <1>18, <1>19, <1>21, <1>22, <2>1 DEF CallsCharged
<1>24. AnswersAwaited'
  <2> DEFINE k == [h EXCEPT !.pc = "calling", !.call = c]
  <2>1. k.call = c
    <3>1. h \in Callers
      BY <1>1, CallerRecords DEF PaidTyped, CallersTyped
    <3> QED
      BY <3>1 DEF Callers
  <2>2. callers' = (callers \ {h}) \cup {k}
    BY <1>2
  <2> HIDE DEF k
  <2>3. \A g \in callers : Waits(g) =>
          g.call \in Made /\ g.call # c /\ Awaited(ledger, g.call, calls[g.call])
    BY <1>3 DEF PaidLedger, AnswersAwaited
  <2>4. \A g \in callers' : Waits(g) =>
          g.call \in Made' /\ Awaited(l4, g.call, calls'[g.call])
    BY <1>19, <1>21, <1>22, <2>1, <2>2, <2>3
  <2>5. \A f, g \in callers' : Waits(f) /\ Waits(g) /\ f.call = g.call => f = g
    BY <2>1, <2>2, <2>3 DEF PaidLedger, AnswersAwaited
  <2> QED
    BY <1>2, <1>18, <2>4, <2>5 DEF AnswersAwaited
<1>25. PoliciesTyped'
  BY <1>2 DEF PaidLedger, PoliciesTyped
<1>26. Touches(ledger, ledger', PaidIds)
  BY <1>2, <1>4, <1>15 DEF Touches
<1> QED
  BY <1>20, <1>23, <1>24, <1>25, <1>26 DEF PaidLedger

(* Finishing a call charges what the answer tells, or the cap.             *)
LEMMA FinishCharges ==
  ASSUME NotRepeatedInv, NEW I, PaidIds \in SUBSET I, PaidLedger(I),
         NEW h \in callers, FinishCall(h)
  PROVE  PaidLedger(I)' /\ Touches(ledger, ledger', PaidIds)
<1> DEFINE c == h.call
           active == calls[c].status = "running"
           status == h.answer.status
           actual == IF calls[c].actual = Unknown THEN h.answer.actual
                     ELSE LargerOf(h.answer.actual, calls[c].actual)
           charged == ChargedFee(c, active, status, actual)
           told == IF active \/ actual # Unknown THEN SettleProvider(ledger, c, charged)
                   ELSE ledger
<1>1. PaidTyped /\ MadeInOrder /\ CallsTyped
  BY DEF NotRepeatedInv, PaidTyped
<1>2. /\ h.pc = "answered" /\ status \in Outcomes /\ h.answer.actual \in Charges /\ h \in Callers
  BY <1>1, CallerRecords DEF FinishCall, Answering, Callers, Answers, PaidTyped, CallersTyped
<1>3. /\ c \in Made /\ c \in CallIds /\ Made \in SUBSET CallIds
      /\ Awaited(ledger, c, calls[c]) /\ FeeCharged(ledger, c, calls[c])
  BY <1>2 DEF PaidLedger, AnswersAwaited, CallsCharged, Waits, Made
<1>4. calls[c] \in CallRows /\ calls[c].actual \in Charges /\ calls[c].status \in CallStatuses
  BY <1>1, <1>3 DEF CallsTyped, CallRows
<1>5. Charges \subseteq Int /\ \A f \in Charges : f # Unknown => f \in Nat
  BY PaidAssumption DEF Charges, Unknown
<1>6. price \in Nat /\ Cap \in Nat \ {0} /\ (Paid => Cap = price) /\ (~Paid => price = 0 /\ Cap = 1)
  BY <1>1, CapIsNat DEF Paid, Cap
<1>7. actual \in Charges /\ (active => actual = h.answer.actual)
        /\ (calls[c].actual # Unknown => actual # Unknown /\ actual >= calls[c].actual)
  <2> DEFINE x == h.answer.actual
             y == calls[c].actual
  <2>1. x \in Charges /\ y \in Charges /\ x \in Int /\ y \in Int
    BY <1>2, <1>4, <1>5
  <2>2. active => y = Unknown
    BY <1>3 DEF FeeCharged
  <2>3. y # Unknown => y \in Nat
    BY <1>5, <2>1
  <2> HIDE DEF x, y, active
  <2>4. /\ LargerOf(x, y) \in Charges /\ LargerOf(x, y) >= y
        /\ y \in Nat => LargerOf(x, y) \in Nat
    BY <2>1 DEF LargerOf
  <2>5. actual = IF y = Unknown THEN x ELSE LargerOf(x, y)
    BY DEF x, y
  <2> HIDE DEF actual
  <2> QED
    BY <2>1, <2>2, <2>3, <2>4, <2>5 DEF Unknown, x, y
<1>8. /\ ledger' = IF active
           THEN FinishAttempt(Settle(told, Analysis(c), 1), Analysis(c),
                              IF status = "succeeded" THEN "succeeded" ELSE "failed")
           ELSE told
      /\ calls' = [calls EXCEPT
                     ![c].status = IF active THEN status ELSE @,
                     ![c].actual = IF active \/ h.answer.completion THEN actual ELSE @]
      /\ UNCHANGED <<policy, now, price>>
      /\ Goes(h, "checking") \/ Goes(h, "failed")
  BY DEF FinishCall
<1>9. /\ charged \in Nat \cup {Unknown}
      /\ actual = Unknown => charged = IF Paid THEN Unknown ELSE 0
      /\ actual # Unknown => charged >= actual /\ charged # Unknown
      /\ actual # Unknown /\ active /\ status # "succeeded" => charged >= price
      /\ actual # Unknown /\ calls[c].status = "unknown" => charged >= price
  <2>1. CASE actual = Unknown
    BY <2>1 DEF ChargedFee
  <2>2. CASE actual # Unknown
    <3>1. actual \in Nat
      BY <1>5, <1>7, <2>2
    <3>2. charged = IF (active /\ status # "succeeded") \/ calls[c].status = "unknown"
                      THEN LargerOf(price, actual) ELSE actual
      BY <2>2 DEF ChargedFee
    <3> HIDE DEF actual, charged
    <3> QED
      BY <1>6, <2>2, <3>1, <3>2 DEF LargerOf, Unknown
  <2> QED
    BY <2>1, <2>2
<1> HIDE DEF c, active, status, actual, charged
<1>10. /\ calls'[c].status = IF active THEN status ELSE calls[c].status
       /\ calls'[c].actual = IF active \/ h.answer.completion THEN actual ELSE calls[c].actual
       /\ \A d \in CallIds \ {c} : calls'[d] = calls[d]
  BY <1>1, <1>3, <1>4, <1>8 DEF CallsTyped, CallRows
<1>11. /\ active => calls[c].status = "running" /\ calls[c].actual = Unknown
                    /\ ~IsSettled(ledger, Spend(c))
       /\ ~active => calls[c].status = "unknown" /\ IsSettled(ledger, Spend(c))
                     /\ Charged(ledger, Spend(c)) >= Cap
                     /\ Charged(ledger, Spend(c)) >= calls[c].actual
                     /\ (Paid => Charged(ledger, Spend(c)) >= price)
  BY <1>3 DEF Awaited, FeeCharged, active
<1>12. ledger \in CallBooks(I, Made) /\ ledger \in Ledgers(I) /\ Books(ledger)
  BY DEF PaidLedger, CallBooks
<1>13. IsSettled(ledger, Spend(c)) => Charged(ledger, Spend(c)) \in Nat
  BY <1>12, ChargedIsNat
<1>14. /\ ledger' \in CallBooks(I, Made) /\ Touches(ledger, ledger', UsesOf(c))
       /\ FeeCharged(ledger', c, calls'[c])
  <2>1. CASE active
    <3> DEFINE outcome == IF status = "succeeded" THEN "succeeded" ELSE "failed"
               m == FinishAttempt(Settle(told, Analysis(c), 1), Analysis(c), outcome)
    <3>1. told = SettleProvider(ledger, c, charged)
      BY <2>1
    <3>2. ProviderSettled(ledger, told, I, Made, c, charged)
      BY <1>1, <1>3, <1>9, <1>11, <1>12, <2>1, <3>1, ProviderSettles
    <3> HIDE DEF told
    <3>3. AnalysisClosed(told, m, I, Made, c)
      BY <1>1, <1>3, <3>2, AnalysisCloses DEF ProviderSettled
    <3>4. ledger' = m
      BY <1>8, <2>1
    <3> HIDE DEF m
    <3>5. RowsOf(m, Spend(c)) = RowsOf(told, Spend(c))
      BY <3>3, UsesApart DEF AnalysisClosed, Touches
    <3>6. IsSettled(m, Spend(c)) /\ Charged(m, Spend(c)) = ProviderCharge(ledger, c, charged)
      BY <3>2, <3>5, UntouchedSaysTheSame DEF ProviderSettled
    <3>7. Touches(ledger, m, {Network(c), Spend(c)} \cup {Analysis(c)})
      BY <3>2, <3>3, TouchesMore DEF ProviderSettled, AnalysisClosed
    <3>8. Touches(ledger, m, UsesOf(c))
      BY <3>7 DEF UsesOf, Touches
    <3>9. Charged(m, Spend(c)) = IF charged = Unknown THEN Cap ELSE charged
      BY <1>11, <2>1, <3>6 DEF ProviderCharge
    <3>10. calls'[c].status = status /\ status # "running" /\ calls'[c].actual = actual
      BY <1>2, <1>10, <2>1 DEF Outcomes
    <3>11. FeeCharged(m, c, calls'[c])
      <4>1. Charged(m, Spend(c)) >= actual
        BY <1>6, <1>9, <3>9 DEF Unknown
      <4>2. status = "unknown" /\ Paid => Charged(m, Spend(c)) >= price
        BY <1>6, <1>9, <2>1, <3>9 DEF Unknown
      <4> QED
        BY <3>6, <3>10, <4>1, <4>2 DEF FeeCharged
    <3> QED
      BY <3>3, <3>4, <3>8, <3>11 DEF AnalysisClosed
  <2>2. CASE ~active /\ actual # Unknown
    <3>1. ledger' = SettleProvider(ledger, c, charged) /\ charged \in Nat
      BY <1>8, <1>9, <2>2
    <3>2. ProviderSettled(ledger, ledger', I, Made, c, charged)
      BY <1>1, <1>3, <1>11, <1>12, <2>2, <3>1, ProviderSettles
    <3>3. Touches(ledger, ledger', UsesOf(c))
      BY <3>2 DEF ProviderSettled, Touches, UsesOf
    <3>4. /\ IsSettled(ledger', Spend(c))
          /\ Charged(ledger', Spend(c)) =
               IF charged <= Charged(ledger, Spend(c)) THEN Charged(ledger, Spend(c)) ELSE charged
      BY <1>11, <2>2, <3>1, <3>2 DEF ProviderSettled, ProviderCharge, Unknown
    <3>5. calls'[c].status = "unknown" /\ calls'[c].actual \in {actual, calls[c].actual}
      BY <1>10, <1>11, <2>2
    <3>6. actual \in Int /\ calls[c].actual \in Int
      BY <1>4, <1>5, <1>7
    <3>7. /\ Charged(ledger', Spend(c)) >= charged
          /\ Charged(ledger', Spend(c)) >= Charged(ledger, Spend(c))
          /\ Charged(ledger', Spend(c)) \in Nat /\ Charged(ledger, Spend(c)) \in Nat
      BY <1>11, <1>13, <2>2, <3>1, <3>4
    <3>8. Charged(ledger', Spend(c)) >= actual /\ Charged(ledger', Spend(c)) >= calls[c].actual
      BY <1>9, <1>11, <2>2, <3>1, <3>6, <3>7
    <3>9. Paid => Charged(ledger', Spend(c)) >= price
      BY <1>6, <1>11, <2>2, <3>7
    <3> QED
      BY <3>2, <3>3, <3>4, <3>5, <3>8, <3>9 DEF ProviderSettled, FeeCharged
  <2>3. CASE ~active /\ actual = Unknown
    <3>1. ledger' = ledger /\ calls'[c].status = calls[c].status
            /\ calls'[c].actual = calls[c].actual
      BY <1>7, <1>8, <1>10, <2>3
    <3> QED
      BY <1>3, <1>12, <3>1 DEF Touches, FeeCharged
  <2> QED
    BY <2>1, <2>2, <2>3
<1>15. Made' = Made
  <2>1. calls'[c].status # "none"
    BY <1>2, <1>10, <1>11 DEF Outcomes
  <2> QED
    BY <1>3, <1>10, <2>1 DEF Made
<1>16. /\ \A l, d : CallBooked(l, d)' <=> CallBooked(l, d)
       /\ \A l, d, x : FeeCharged(l, d, x)' <=> FeeCharged(l, d, x)
       /\ \A l, d, x : Awaited(l, d, x)' <=> Awaited(l, d, x)
  BY <1>8, PriceFixes
<1>17. ASSUME NEW d, d # c PROVE \A id \in UsesOf(d) : RowsOf(ledger', id) = RowsOf(ledger, id)
  BY <1>14, <1>17, UsesApart DEF Touches
<1>18. (ledger \in CallBooks(I, Made))'
  BY <1>14, <1>15, <1>16 DEF CallBooks
<1>19. CallsCharged'
  <2>1. \A d \in CallIds \ Made, id \in PaidIds : id \in UsesOf(d) => RowsOf(ledger', id) = {}
    BY <1>3, <1>17 DEF PaidLedger, CallsCharged
  <2>2. ASSUME NEW d \in Made, d # c PROVE FeeCharged(ledger', d, calls'[d])
    BY <1>3, <1>10, <1>17, <2>2, StaysCharged DEF PaidLedger, CallsCharged
  <2> QED
    BY <1>14, <1>15, <1>16, <2>1, <2>2 DEF CallsCharged
<1>20. AnswersAwaited'
  <2>1. \A g \in callers' : Waits(g) => g \in callers \ {h}
    <3>1. [h EXCEPT !.pc = "checking"].pc = "checking" /\ [h EXCEPT !.pc = "failed"].pc = "failed"
      BY <1>2 DEF Callers
    <3> QED
      BY <1>8, <3>1 DEF Goes, Waits
  <2>2. ASSUME NEW g \in callers \ {h}, Waits(g)
        PROVE  g.call \in Made /\ Awaited(ledger', g.call, calls'[g.call])
    <3>1. g.call # c /\ g.call \in Made /\ Awaited(ledger, g.call, calls[g.call])
      BY <1>2, <2>2 DEF PaidLedger, AnswersAwaited, Waits, c
    <3> QED
      BY <1>3, <1>10, <1>17, <3>1, StaysCharged
  <2> QED
    BY <1>15, <1>16, <2>1, <2>2 DEF PaidLedger, AnswersAwaited
<1>21. PoliciesTyped'
  BY <1>8 DEF PaidLedger, PoliciesTyped
<1>22. Touches(ledger, ledger', PaidIds)
  BY <1>3, <1>14, UsesApart DEF Touches
<1> QED
  BY <1>18, <1>19, <1>20, <1>21, <1>22 DEF PaidLedger

(* Every step of a paid call keeps the ledger explained, and touches no    *)
(* reservation that is not one of a call.                                  *)
LEMMA PaidLedgerStep ==
  ASSUME NotRepeatedInv, NEW I, PaidIds \in SUBSET I, PaidLedger(I),
         [PaidNext]_<<job, budgetVars, paidVars>>
  PROVE  PaidLedger(I)' /\ Touches(ledger, ledger', PaidIds)
<1>1. PaidTyped
  BY DEF NotRepeatedInv
<1>2. price' = price
  BY PriceKept
<1>3. ASSUME ledger' = ledger, calls' = calls, PoliciesTyped',
             NEW h, NEW k, \A g \in callers' : Waits(g) =>
               \/ g \in callers \ {h}
               \/ g = k /\ h \in callers /\ Waits(h) /\ k.call = h.call
      PROVE  PaidLedger(I)' /\ Touches(ledger, ledger', PaidIds)
  BY <1>2, <1>3, CallersMoveOn DEF Touches
<1>4. ASSUME ledger' = ledger, calls' = calls, PoliciesTyped',
             \A g \in callers' : Waits(g) => g \in callers
      PROVE  PaidLedger(I)' /\ Touches(ledger, ledger', PaidIds)
  <2>1. PICK h : h \notin callers
    <3>1. (CHOOSE h : h \notin callers) \notin callers
      BY NoSetContainsEverything
    <3> QED
      BY <3>1
  <2>2. \A g \in callers' : Waits(g) => g \in callers \ {h}
    BY <1>4, <2>1
  <2> QED
    BY <1>3, <1>4, <2>2
<1>5. UNCHANGED <<policy, now>> => PoliciesTyped'
  BY DEF PaidLedger, PoliciesTyped
<1>6. ASSUME NEW j \in Jobs, PaidAcquire(j) PROVE PaidLedger(I)' /\ Touches(ledger, ledger', PaidIds)
  BY <1>4, <1>5, <1>6 DEF PaidAcquire, budgetVars, Waits
<1>7. ASSUME NEW j \in Jobs, JobMoves(j) PROVE PaidLedger(I)' /\ Touches(ledger, ledger', PaidIds)
  BY <1>4, <1>5, <1>7 DEF JobMoves, budgetVars, paidVars
<1>8. ASSUME NEW h \in callers, CallerStep(h) PROVE PaidLedger(I)' /\ Touches(ledger, ledger', PaidIds)
  <2>1. h \in Callers
    BY <1>1, CallerRecords DEF PaidTyped, CallersTyped
  <2>2. CASE RecoverCalls(h)
    BY <2>2, RecoverCharges
  <2>3. CASE FinishCall(h)
    BY <2>3, FinishCharges
  <2>4. ASSUME NEW p \in Purposes, ReserveCall(h, p)
        PROVE  PaidLedger(I)' /\ Touches(ledger, ledger', PaidIds)
    BY <2>4, ReserveCharges
  <2>5. CASE Answer(h)
    <3>1. PICK a : callers' = (callers \ {h}) \cup {[h EXCEPT !.pc = "answered", !.answer = a]}
      BY <2>5 DEF Answer
    <3>2. [h EXCEPT !.pc = "answered", !.answer = a].call = h.call
      BY <2>1 DEF Callers
    <3>3. Waits(h) /\ ledger' = ledger /\ calls' = calls /\ UNCHANGED <<policy, now>>
      BY <2>5 DEF Answer, Waits, budgetVars
    <3> DEFINE k == [h EXCEPT !.pc = "answered", !.answer = a]
    <3>4. callers' = (callers \ {h}) \cup {k} /\ k.call = h.call
      BY <3>1, <3>2
    <3> HIDE DEF k
    <3>5. \A g \in callers' : Waits(g) =>
            g \in callers \ {h} \/ (g = k /\ h \in callers /\ Waits(h) /\ k.call = h.call)
      BY <3>3, <3>4
    <3> QED
      BY <1>3, <1>5, <3>3, <3>5
  <2>6. CASE CheckLease(h)
    <3>1. \A pc \in CallerPlaces : [h EXCEPT !.pc = pc].pc = pc
      BY <2>1 DEF Callers
    <3>2. Goes(h, "ready") \/ Goes(h, "failed")
      BY <2>6 DEF CheckLease
    <3>3. \A g \in callers' : Waits(g) => g \in callers
      BY <3>1, <3>2 DEF Goes, Waits, CallerPlaces
    <3> QED
      BY <1>4, <1>5, <2>6, <3>3 DEF CheckLease, budgetVars
  <2>7. CASE Report(h) \/ ParentSettles(h) \/ CallerDies(h)
    BY <1>4, <1>5, <2>7 DEF Report, ParentSettles, CallerDies, budgetVars
  <2> QED
    BY <1>8, <2>2, <2>3, <2>4, <2>5, <2>6, <2>7 DEF CallerStep
<1>9. ASSUME NEW c \in CallIds, Acknowledge(c)
      PROVE  PaidLedger(I)' /\ Touches(ledger, ledger', PaidIds)
  BY <1>4, <1>5, <1>9 DEF Acknowledge, budgetVars
<1>10. CASE BudgetMoves
  <2>1. PoliciesTyped' /\ ledger' = ledger
    BY <1>10, PoliciesMove DEF BudgetMoves, PaidLedger
  <2> QED
    BY <1>4, <1>10, <2>1 DEF BudgetMoves, paidVars
<1>11. CASE UNCHANGED <<job, budgetVars, paidVars>>
  BY <1>4, <1>5, <1>11 DEF budgetVars, paidVars
<1> QED
  BY <1>6, <1>7, <1>8, <1>9, <1>10, <1>11 DEF PaidNext, CallerStep

LEMMA PaidLedgerStarts ==
  ASSUME LedgerInit, PaidInit, NEW I
  PROVE  PaidLedger(I)
<1>1. Made = {} /\ callers = {}
  BY DEF PaidInit, Made
<1>2. /\ PoliciesTyped /\ ledger \in Ledgers(I) /\ Books(ledger) /\ ledger.rows = {}
  BY LedgerStarts
<1>3. \A id : RowsOf(ledger, id) = {}
  BY <1>2 DEF RowsOf
<1> QED
  BY <1>1, <1>2, <1>3 DEF PaidLedger, CallBooks, CallsCharged, AnswersAwaited

LEMMA PaidOwes ==
  ASSUME NEW I, PaidLedger(I)
  PROVE  LedgerTypeOK /\ WindowsBalance /\ NeverOversold /\ FeesAreCharged
<1>1. PoliciesTyped /\ ledger \in Ledgers(I) /\ Books(ledger)
  BY DEF PaidLedger, CallBooks
<1>2. FeesAreCharged
  BY DEF PaidLedger, CallsCharged, FeeCharged, FeesAreCharged
<1> QED
  BY <1>1, <1>2, LedgerIsTyped, BooksBalance

-----------------------------------------------------------------------------
PaidInv == NotRepeatedInv /\ PaidLedger(PaidIds)

LEMMA PaidStarts == JobInit /\ LedgerInit /\ PaidInit => PaidInv
<1> SUFFICES ASSUME JobInit, LedgerInit, PaidInit PROVE PaidInv
  OBVIOUS
<1>1. NotRepeatedInv
  BY NotRepeatedStarts
<1> QED
  BY <1>1, PaidLedgerStarts DEF PaidInv

LEMMA PaidStep == PaidInv /\ [PaidNext]_<<job, budgetVars, paidVars>> => PaidInv'
<1> SUFFICES ASSUME PaidInv, [PaidNext]_<<job, budgetVars, paidVars>> PROVE PaidInv'
  OBVIOUS
<1>1. NotRepeatedInv /\ PaidLedger(PaidIds) /\ PaidIds \in SUBSET PaidIds
  BY DEF PaidInv
<1>2. NotRepeatedInv'
  BY <1>1, NotRepeatedStep
<1>3. PaidLedger(PaidIds)'
  <2> DEFINE I == PaidIds
  <2> HIDE DEF I
  <2>1. PaidLedger(I)'
    BY <1>1, PaidLedgerStep DEF I
  <2> QED
    BY <2>1 DEF I
<1> QED
  BY <1>2, <1>3 DEF PaidInv

(* Windows hold what the reservations of all calls say, and no window is   *)
(* granted beyond its limit, whatever fee a provider tells, whoever hears  *)
(* it and however often policies change in between.                        *)
THEOREM PaidKeepsTheBooks == PaidSpec => [](LedgerTypeOK /\ WindowsBalance /\ NeverOversold)
<1>1. PaidInv => LedgerTypeOK /\ WindowsBalance /\ NeverOversold
  BY PaidOwes DEF PaidInv
<1> QED
  BY <1>1, PaidStarts, PaidStep, PTL DEF PaidSpec

(* The budget is charged what is known to be owed: the told fee, the whole *)
(* cap while the outcome is unknown.                                       *)
THEOREM FeesCharged == PaidSpec => []FeesAreCharged
<1>1. PaidInv => FeesAreCharged
  BY PaidOwes DEF PaidInv
<1> QED
  BY <1>1, PaidStarts, PaidStep, PTL DEF PaidSpec

-----------------------------------------------------------------------------
(* What the other handlers may count on: the calls are those of the jobs K *)
(* that make calls, and stay as they are while other jobs move.            *)

CallsOf(K) ==
  /\ \A h \in callers : h.job \in K
  /\ \A c \in Made : calls[c].job \in K

LEMMA CallsOfStep ==
  ASSUME PaidTyped, NEW K \in SUBSET Jobs, CallsOf(K), [PaidNext]_<<job, budgetVars, paidVars>>,
         \A j \in Jobs \ K : job'[j] = job[j]
  PROVE  CallsOf(K)'
<1>1. JobsTyped /\ \A h \in callers : h.job \in Jobs
  BY CallerRecords DEF PaidTyped, CallersTyped
<1>2. ASSUME CallsKept PROVE \A c \in Made' : calls'[c].job \in K
  BY <1>2 DEF CallsKept, CallsOf, Made
<1>3. CASE ~\E h \in callers, p \in Purposes : ReserveCall(h, p)
  <2>1. \A c \in Made' : calls'[c].job \in K
    BY <1>2, <1>3, OthersKeepCalls
  <2>2. ASSUME NEW h \in callers, CallerStep(h), NEW g \in callers' PROVE g.job \in K
    <3>1. g \in callers \/ g.job = h.job
      BY <2>2, CallerStepGoes
    <3> QED
      BY <3>1 DEF CallsOf
  <2>3. ASSUME NEW j \in Jobs, PaidAcquire(j) PROVE \A g \in callers' : g.job \in K
    <3>1. job'[j].epoch = job[j].epoch + 1 /\ job[j].epoch \in Nat
      BY <1>1, <2>3, JobStepsMove, JobRowRecords DEF PaidAcquire, JobsTyped
    <3>2. j \in K
      BY <3>1
    <3>3. \A g \in callers' : g \in callers \/ g.job = j
      BY <2>3 DEF PaidAcquire
    <3> QED
      BY <3>2, <3>3 DEF CallsOf
  <2>4. CASE callers' = callers
    BY <2>1, <2>4 DEF CallsOf
  <2> QED
    BY <2>1, <2>2, <2>3, <2>4 DEF CallsOf, PaidNext, CallerStep, JobMoves, Acknowledge, BudgetMoves,
                                  paidVars
<1>4. ASSUME NEW h \in callers, NEW p \in Purposes, ReserveCall(h, p) PROVE CallsOf(K)'
  <2>1. CallAdded(h, p)
    BY <1>4, ReserveAdds
  <2>2. \A c \in Made' : c \in Made \/ c = NextCall
    BY <2>1 DEF CallAdded, Made
  <2>3. \A c \in Made' : calls'[c].job \in {calls[c].job, h.job} /\ (c # NextCall => calls'[c] = calls[c])
    BY <2>1 DEF CallAdded, Made
  <2>4. \A c \in Made' : calls'[c].job \in K
    <3>1. \A c \in Made' : c = NextCall => calls'[c].job = h.job
      BY <2>1 DEF CallAdded, Made
    <3> QED
      BY <2>2, <2>3, <3>1 DEF CallsOf
  <2>5. \A g \in callers' : g \in callers \/ g.job = h.job
    BY <1>4, CallerStepGoes DEF CallerStep
  <2> QED
    BY <2>4, <2>5 DEF CallsOf
<1> QED
  BY <1>3, <1>4

LEMMA CallsElsewhere ==
  ASSUME NotRepeatedInv, SettledInv, NEW K \in SUBSET Jobs, CallsOf(K),
         UNCHANGED paidVars, JobsTyped', \A j \in K : job'[j] = job[j]
  PROVE  NotRepeatedInv' /\ SettledInv' /\ CallsOf(K)'
<1>1. calls' = calls /\ callers' = callers /\ price' = price /\ acked' = acked
  BY DEF paidVars
<1>2. /\ Made' = Made /\ Running' = Running /\ (Paid' <=> Paid)
      /\ \A j : RunningOf(j)' = RunningOf(j)
  BY <1>1 DEF Made, Running, RunningOf, Paid
<1>3. PaidTyped'
  BY <1>1 DEF NotRepeatedInv, PaidTyped, CallsTyped, CallersTyped
<1>4. NotRepeatedInv'
  BY <1>1, <1>2, <1>3 DEF NotRepeatedInv, MadeInOrder, OpenPaidCallIsNotRepeated
<1>5. CallsOf(K)'
  BY <1>1, <1>2 DEF CallsOf
<1>6. /\ \A h \in callers : job'[h.job] = job[h.job]
      /\ \A c \in Made : job'[calls[c].job] = job[calls[c].job]
      /\ Running \subseteq Made
  BY DEF CallsOf, Running
<1>7. CallEpochsBounded' /\ OneCallerPerEpoch' /\ NewOwnsNothing'
  BY <1>1, <1>2, <1>6 DEF SettledInv, CallEpochsBounded, OneCallerPerEpoch, NewOwnsNothing
<1>8. WaitsForItsCall' /\ OneOpenCall'
  BY <1>1, <1>2 DEF SettledInv, WaitsForItsCall, WaitsFor, OneOpenCall
<1>9. LeftByTheLast'
  BY <1>1, <1>2, <1>6 DEF SettledInv, LeftByTheLast, RunningOf
<1> QED
  BY <1>3, <1>4, <1>5, <1>7, <1>8, <1>9 DEF SettledInv
=============================================================================
