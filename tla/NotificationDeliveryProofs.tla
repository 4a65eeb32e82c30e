--------------------- MODULE NotificationDeliveryProofs ---------------------
(***************************************************************************)
(* Theorems about NotificationDelivery, for any limits of sends, retries,  *)
(* epochs and faults.                                                      *)
(***************************************************************************)
EXTENDS NotificationDelivery, TLAPS

-----------------------------------------------------------------------------
(* Types.                                                                  *)

Receipts == {"none", "accepted", "delivered", "not_delivered"}
Rows == [status : {"pending", "sending", "succeeded", "failed", "unknown"},
         attempts : 0 .. SendLimit, receipt : Receipts]
JobRows == [status : {"queued", "running"} \cup Ended, epoch : Nat, leased : BOOLEAN,
            asked : BOOLEAN, retries : Nat, error : {"none", "confirmed"} \cup Reports,
            manual : BOOLEAN]
Parents == [pc : {"idle", "running", "marking", "reporting"}, epoch : Nat,
            report : Reports \cup {NoReport}]
Places == {"new", "sending", "answered", "saved", "done"}
Answers == {"none", "accepted", "uncertain", "rejected"} \cup Reports
Kids == [epoch : Nat \ {0}, pc : Places, answer : Answers]

Typed ==
  /\ row \in Rows /\ job \in JobRows /\ parent \in Parents
  /\ children \subseteq Kids /\ (\A c \in children : c.epoch <= job.epoch)
  /\ taken \in Nat /\ faults \in Nat

-----------------------------------------------------------------------------
(* The argument. At most one child holds the lease; while it does nobody   *)
(* else writes the row, so the row says sending from before its request    *)
(* until its answer is stored. A request may therefore begin only when     *)
(* none was begun or the last is known not to have arrived.                *)

OneChildPerEpoch == \A b, c \in children : b.epoch = c.epoch => b = c
ParentIsCurrent == parent.pc # "idle" => parent.epoch = job.epoch
ParentIsAlone ==
  parent.pc \in {"marking", "reporting"} => \A c \in children : c.epoch # parent.epoch

(* What a report says of the row as long as its lease is held.             *)
Truthful(report) ==
  /\ report = "succeeded" => row.status = "succeeded"
  /\ report = "unknown" => row.status = "unknown"
  /\ report \in {"refused", "transient"} => Sendable
  /\ report = "stopped" => job.asked

ChildKnows(c) ==
  /\ c.pc = "sending" => HeldBy(c.epoch) /\ InFlight /\ taken = 0
  /\ c.pc = "answered" /\ HeldBy(c.epoch) =>
       /\ InFlight
       /\ c.answer = "accepted" => taken = 1
       /\ c.answer = "rejected" => taken = 0
  /\ c.pc = "saved" => Accepted
  /\ c.pc = "done" => c.answer \in Reports /\ (HeldBy(c.epoch) => Truthful(c.answer))
ChildrenKnow == \A c \in children : ChildKnows(c)
ParentKnows ==
  parent.pc = "reporting" => /\ parent.report # NoReport
                             /\ HeldBy(parent.epoch) => Truthful(parent.report)

RowTruthful ==
  /\ Accepted => row.status \in {"sending", "succeeded"} /\ taken = 1
  /\ Sendable => taken = 0
  /\ row.status = "succeeded" => taken = 1
  /\ taken <= 1
JobTruthful ==
  /\ job.status = "succeeded" => row.status = "succeeded"
  /\ job.status = "failed" =>
       \/ job.manual \/ Sendable \/ row.status = "succeeded"
       \/ row.status = "unknown" /\ job.error = "unknown"

Inv ==
  /\ Typed /\ OneChildPerEpoch /\ ParentIsCurrent /\ ParentIsAlone
  /\ ChildrenKnow /\ ParentKnows /\ RowTruthful /\ JobTruthful

-----------------------------------------------------------------------------
LEMMA TypedIsTypeOK == Typed => TypeOK
<1> SUFFICES ASSUME Typed PROVE TypeOK
  OBVIOUS
<1>1. children \subseteq [epoch : 1 .. job.epoch, pc : Places, answer : Answers]
  BY DEF Typed, Kids, JobRows
<1> QED
  BY <1>1 DEF Typed, TypeOK, Rows, JobRows, Parents, Places, Answers, Receipts

(* What updates of the records make of them.                               *)
LEMMA RowRecords ==
  ASSUME NEW r \in Rows
  PROVE  /\ \A s \in {"succeeded", "failed", "unknown"} :
              LET q == [r EXCEPT !.status = s]
              IN q \in Rows /\ q.status = s /\ q.receipt = r.receipt
         /\ LET q == [r EXCEPT !.receipt = "accepted"]
            IN q \in Rows /\ q.status = r.status /\ q.receipt = "accepted"
         /\ r.attempts < SendLimit =>
              LET q == [r EXCEPT !.status = "sending", !.attempts = @ + 1]
              IN q \in Rows /\ q.status = "sending" /\ q.receipt = r.receipt
<1>1. r.attempts < SendLimit => r.attempts + 1 \in 0 .. SendLimit
  BY LimitsAssumption DEF Rows
<1>2. \A n \in 0 .. SendLimit :
        LET q == [r EXCEPT !.status = "sending", !.attempts = n]
        IN q \in Rows /\ q.status = "sending" /\ q.receipt = r.receipt
  BY DEF Rows
<1>3. \A s \in {"succeeded", "failed", "unknown"} :
        LET q == [r EXCEPT !.status = s]
        IN q \in Rows /\ q.status = s /\ q.receipt = r.receipt
  BY DEF Rows
<1>4. LET q == [r EXCEPT !.receipt = "accepted"]
      IN q \in Rows /\ q.status = r.status /\ q.receipt = "accepted"
  BY DEF Rows, Receipts
<1> QED
  BY <1>1, <1>2, <1>3, <1>4

LEMMA KidRecords ==
  ASSUME NEW c \in Kids, NEW pc \in Places, NEW answer \in Answers, Becomes(c, pc, answer)
  PROVE  \E new \in Kids : /\ children' = (children \ {c}) \cup {new}
                           /\ new.epoch = c.epoch /\ new.pc = pc /\ new.answer = answer
<1>1. [c EXCEPT !.pc = pc, !.answer = answer] \in Kids
  BY DEF Kids
<1>2. /\ [c EXCEPT !.pc = pc, !.answer = answer].epoch = c.epoch
      /\ [c EXCEPT !.pc = pc, !.answer = answer].pc = pc
      /\ [c EXCEPT !.pc = pc, !.answer = answer].answer = answer
  BY DEF Kids
<1> QED
  BY <1>1, <1>2 DEF Becomes

-----------------------------------------------------------------------------
(* The child that holds the lease is the only one that writes.             *)
LEMMA HolderIsAlone ==
  ASSUME Inv, NEW c \in children, HeldBy(c.epoch)
  PROVE  /\ \A b \in children : b # c => ~HeldBy(b.epoch) /\ b.pc # "sending"
         /\ parent.pc \notin {"marking", "reporting"}
         /\ job.status = "running"
<1>1. \A b \in children : HeldBy(b.epoch) => b.epoch = c.epoch
  BY DEF HeldBy
<1>2. \A b \in children : b # c => ~HeldBy(b.epoch)
  BY <1>1 DEF Inv, OneChildPerEpoch
<1>3. \A b \in children : b # c => b.pc # "sending"
  BY <1>2 DEF Inv, ChildrenKnow, ChildKnows
<1> QED
  BY <1>2, <1>3 DEF Inv, ParentIsCurrent, ParentIsAlone, HeldBy

(* A step of one child that becomes new.                                   *)
LEMMA ChildMoves ==
  ASSUME Inv, NEW c \in children, NEW new \in Kids, new.epoch = c.epoch,
         children' = (children \ {c}) \cup {new},
         job' = job, parent' = parent, faults' \in Nat,
         row' \in Rows, taken' \in Nat, Accepted => Accepted',
         (row' = row /\ taken' = taken) \/ HeldBy(c.epoch),
         ChildKnows(new)', RowTruthful'
  PROVE  Inv'
<1>1. /\ Typed /\ OneChildPerEpoch /\ ParentIsCurrent /\ ParentIsAlone
      /\ ChildrenKnow /\ ParentKnows /\ RowTruthful /\ JobTruthful
  BY DEF Inv
<1>2. Typed' /\ OneChildPerEpoch' /\ ParentIsCurrent' /\ ParentIsAlone'
  BY <1>1 DEF Typed, OneChildPerEpoch, ParentIsCurrent, ParentIsAlone
<1>3. CASE row' = row /\ taken' = taken
  <2>1. \A b \in children : ChildKnows(b)'
    BY <1>1, <1>3 DEF ChildrenKnow, ChildKnows, HeldBy, InFlight, Accepted, Truthful, Sendable
  <2>2. ChildrenKnow'
    BY <2>1 DEF ChildrenKnow
  <2>3. ParentKnows' /\ JobTruthful'
    BY <1>1, <1>3 DEF ParentKnows, JobTruthful, HeldBy, Truthful, Sendable
  <2> QED
    BY <1>2, <2>2, <2>3 DEF Inv
<1>4. CASE HeldBy(c.epoch)
  <2>1. /\ \A b \in children : b # c => ~HeldBy(b.epoch) /\ b.pc # "sending"
        /\ parent.pc \notin {"marking", "reporting"}
        /\ job.status = "running"
    BY <1>4, HolderIsAlone
  <2>2. \A b \in children : b # c => ChildKnows(b)'
    BY <1>1, <2>1 DEF ChildrenKnow, ChildKnows, HeldBy
  <2>3. ChildrenKnow'
    BY <2>2 DEF ChildrenKnow
  <2>4. ParentKnows' /\ JobTruthful'
    BY <2>1 DEF ParentKnows, JobTruthful
  <2> QED
    BY <1>2, <2>3, <2>4 DEF Inv
<1> QED
  BY <1>3, <1>4

(* A step of one child that leaves the row alone and is done.              *)
LEMMA ChildEnds ==
  ASSUME Inv, NEW c \in children, NEW report \in Reports, Done(c, report),
         HeldBy(c.epoch) => Truthful(report),
         UNCHANGED <<row, job, parent, taken>>, faults' \in Nat
  PROVE  Inv'
<1>1. c \in Kids /\ report \in Answers /\ "done" \in Places
  BY DEF Inv, Typed, Answers, Places
<1>2. PICK new \in Kids : /\ children' = (children \ {c}) \cup {new}
                          /\ new.epoch = c.epoch /\ new.pc = "done" /\ new.answer = report
  BY <1>1, KidRecords DEF Done
<1>3. ChildKnows(new)'
  BY <1>2 DEF ChildKnows, HeldBy, Truthful, Sendable
<1>4. row' \in Rows /\ taken' \in Nat /\ (Accepted => Accepted') /\ RowTruthful'
  BY DEF Inv, Typed, Accepted, RowTruthful, Sendable
<1> QED
  BY <1>2, <1>3, <1>4, ChildMoves

-----------------------------------------------------------------------------
(* One lemma per step of a child.                                          *)

LEMMA GuardRaisesKeeps == ASSUME Inv, NEW c \in children, GuardRaises(c) PROVE Inv'
<1>1. "error" \in Reports /\ Truthful("error")
  BY DEF Reports, Truthful
<1> QED
  BY <1>1, ChildEnds DEF GuardRaises, Inv, Typed

LEMMA ChildRaisesKeeps == ASSUME Inv, NEW c \in children, ChildRaises(c) PROVE Inv'
<1>1. PICK report \in {"error", "network"} : Done(c, report)
  BY DEF ChildRaises
<1>2. report \in Reports /\ Truthful(report) /\ faults' \in Nat
  BY DEF Reports, Truthful, ChildRaises, Inv, Typed
<1> QED
  BY <1>1, <1>2, ChildEnds DEF ChildRaises

LEMMA PrepareSettledKeeps == ASSUME Inv, NEW c \in children, PrepareSettled(c) PROVE Inv'
<1>1. {"succeeded", "unknown"} \subseteq Reports /\ faults' \in Nat
  BY DEF Reports, PrepareSettled, Inv, Typed
<1>2. CASE row.status = "succeeded" /\ Done(c, "succeeded")
  BY <1>1, <1>2, ChildEnds DEF PrepareSettled, Truthful
<1>3. CASE row.status = "unknown" /\ Done(c, "unknown")
  BY <1>1, <1>3, ChildEnds DEF PrepareSettled, Truthful
<1>4. CASE Accepted /\ Becomes(c, "saved", "accepted")
  <2>1. c \in Kids /\ "saved" \in Places /\ "accepted" \in Answers
    BY DEF Inv, Typed, Places, Answers
  <2>2. PICK new \in Kids : /\ children' = (children \ {c}) \cup {new}
                            /\ new.epoch = c.epoch /\ new.pc = "saved"
    BY <1>4, <2>1, KidRecords
  <2>3. ChildKnows(new)' /\ RowTruthful' /\ row' \in Rows /\ taken' \in Nat
    BY <1>4, <2>2 DEF PrepareSettled, ChildKnows, Accepted, RowTruthful, Sendable, Inv, Typed
  <2> QED
    BY <1>1, <1>4, <2>2, <2>3, ChildMoves DEF PrepareSettled, Accepted
<1> QED
  BY <1>2, <1>3, <1>4 DEF PrepareSettled

LEMMA PrepareInterruptedKeeps == ASSUME Inv, NEW c \in children, PrepareInterrupted(c) PROVE Inv'
<1>1. c \in Kids /\ "done" \in Places /\ "unknown" \in Answers /\ row \in Rows
  BY DEF Inv, Typed, Places, Answers, Reports
<1>2. PICK new \in Kids : /\ children' = (children \ {c}) \cup {new}
                          /\ new.epoch = c.epoch /\ new.pc = "done" /\ new.answer = "unknown"
  BY <1>1, KidRecords DEF PrepareInterrupted, Done
<1>3. row' \in Rows /\ row'.status = "unknown" /\ row'.receipt = row.receipt
  BY <1>1, RowRecords DEF PrepareInterrupted
<1>4. ChildKnows(new)'
  BY <1>2, <1>3 DEF ChildKnows, Truthful, Reports
<1>5. RowTruthful'
  BY <1>3 DEF RowTruthful, Accepted, Sendable, PrepareInterrupted, InFlight, Inv, Typed
<1> QED
  BY <1>2, <1>3, <1>4, <1>5, ChildMoves DEF PrepareInterrupted, Guard, Accepted, Inv, Typed

LEMMA PrepareRefusesKeeps == ASSUME Inv, NEW c \in children, PrepareRefuses(c) PROVE Inv'
<1>1. {"refused", "misconfigured"} \subseteq Reports
  BY DEF Reports
<1>2. Truthful("refused") /\ Truthful("misconfigured") /\ faults' \in Nat
  BY DEF PrepareRefuses, Truthful, Inv, Typed
<1> QED
  BY <1>1, <1>2, ChildEnds DEF PrepareRefuses

LEMMA PrepareSendsKeeps == ASSUME Inv, NEW c \in children, PrepareSends(c) PROVE Inv'
<1>1. c \in Kids /\ "sending" \in Places /\ "none" \in Answers /\ row \in Rows
  BY DEF Inv, Typed, Places, Answers
<1>2. PICK new \in Kids : /\ children' = (children \ {c}) \cup {new}
                          /\ new.epoch = c.epoch /\ new.pc = "sending"
  BY <1>1, KidRecords DEF PrepareSends
<1>3. row' \in Rows /\ row'.status = "sending" /\ row'.receipt = row.receipt
  BY <1>1, RowRecords DEF PrepareSends, AttemptsLeft
<1>4. ~Accepted /\ taken = 0 /\ HeldBy(c.epoch)
  BY DEF PrepareSends, Guard, Inv, RowTruthful, Sendable
<1>5. ChildKnows(new)'
  BY <1>2, <1>3, <1>4 DEF ChildKnows, PrepareSends, HeldBy, InFlight, Accepted
<1>6. RowTruthful'
  BY <1>3, <1>4 DEF RowTruthful, PrepareSends, Accepted, Sendable
<1> QED
  BY <1>2, <1>3, <1>4, <1>5, <1>6, ChildMoves DEF PrepareSends, Inv, Typed

LEMMA SendKeeps == ASSUME Inv, NEW c \in children, Send(c) PROVE Inv'
<1>1. c \in Kids /\ "answered" \in Places /\ {"accepted", "rejected", "uncertain"} \subseteq Answers
  BY DEF Inv, Typed, Places, Answers
<1>2. HeldBy(c.epoch) /\ InFlight /\ taken = 0 /\ RowTruthful
  BY DEF Send, Inv, ChildrenKnow, ChildKnows
<1>3. PICK answer \in {"accepted", "rejected", "uncertain"} :
        /\ Becomes(c, "answered", answer)
        /\ taken' \in {0, 1}
        /\ answer = "accepted" => taken' = 1
        /\ answer = "rejected" => taken' = 0
  BY <1>2 DEF Send
<1>4. PICK new \in Kids : /\ children' = (children \ {c}) \cup {new}
                          /\ new.epoch = c.epoch /\ new.pc = "answered" /\ new.answer = answer
  BY <1>1, <1>3, KidRecords
<1>5. ChildKnows(new)'
  BY <1>2, <1>3, <1>4 DEF ChildKnows, Send, InFlight, Accepted
<1>6. RowTruthful'
  BY <1>2, <1>3 DEF RowTruthful, Send, InFlight, Accepted, Sendable
<1>7. row' \in Rows /\ taken' \in Nat /\ faults' \in Nat
  BY <1>3 DEF Send, Inv, Typed
<1> QED
  BY <1>2, <1>4, <1>5, <1>6, <1>7, ChildMoves DEF Send, Accepted

LEMMA SaveReceiptKeeps == ASSUME Inv, NEW c \in children, SaveReceipt(c) PROVE Inv'
<1>1. c \in Kids /\ "saved" \in Places /\ "accepted" \in Answers /\ row \in Rows
  BY DEF Inv, Typed, Places, Answers
<1>2. HeldBy(c.epoch) /\ InFlight /\ taken = 1
  BY DEF SaveReceipt, Guard, Inv, ChildrenKnow, ChildKnows
<1>3. row' = [row EXCEPT !.receipt = "accepted"] /\ Becomes(c, "saved", "accepted")
  BY <1>2 DEF SaveReceipt, InFlight
<1>4. PICK new \in Kids : /\ children' = (children \ {c}) \cup {new}
                          /\ new.epoch = c.epoch /\ new.pc = "saved"
  BY <1>1, <1>3, KidRecords
<1>5. row' \in Rows /\ row'.status = row.status /\ row'.receipt = "accepted"
  BY <1>1, <1>3, RowRecords
<1>6. ChildKnows(new)'
  BY <1>4, <1>5 DEF ChildKnows, Accepted
<1>7. RowTruthful'
  BY <1>2, <1>5 DEF RowTruthful, SaveReceipt, InFlight, Accepted, Sendable
<1> QED
  BY <1>2, <1>4, <1>5, <1>6, <1>7, ChildMoves DEF SaveReceipt, Inv, Typed, Accepted

LEMMA FinishKeeps == ASSUME Inv, NEW c \in children, Finish(c) PROVE Inv'
<1>1. c \in Kids /\ "done" \in Places /\ "succeeded" \in Answers /\ row \in Rows
  BY DEF Inv, Typed, Places, Answers, Reports
<1>2. HeldBy(c.epoch) /\ Accepted /\ taken = 1
  BY DEF Finish, Guard, Inv, ChildrenKnow, ChildKnows, RowTruthful
<1>3. PICK new \in Kids : /\ children' = (children \ {c}) \cup {new}
                          /\ new.epoch = c.epoch /\ new.pc = "done" /\ new.answer = "succeeded"
  BY <1>1, <1>2, KidRecords DEF Finish, Done
<1>4. row' \in Rows /\ row'.status = "succeeded" /\ row'.receipt = row.receipt
  <2>1. row' = [row EXCEPT !.status = "succeeded"]
    BY <1>2 DEF Finish
  <2> QED
    BY <1>1, <2>1, RowRecords
<1>5. ChildKnows(new)'
  BY <1>3, <1>4 DEF ChildKnows, Truthful, Reports
<1>6. RowTruthful'
  BY <1>2, <1>4 DEF RowTruthful, Finish, Accepted, Sendable
<1> QED
  BY <1>2, <1>3, <1>4, <1>5, <1>6, ChildMoves DEF Finish, Inv, Typed, Accepted

LEMMA RecordFailureKeeps == ASSUME Inv, NEW c \in children, RecordFailure(c) PROVE Inv'
<1> DEFINE report == IF c.answer = "uncertain" THEN "unknown" ELSE "transient"
<1>1. c \in Kids /\ "done" \in Places /\ report \in Answers /\ row \in Rows
  BY DEF Inv, Typed, Places, Answers, Reports
<1>2. /\ HeldBy(c.epoch) /\ InFlight /\ taken <= 1 /\ taken \in Nat
      /\ c.answer = "rejected" => taken = 0
  BY DEF RecordFailure, Guard, Inv, ChildrenKnow, ChildKnows, RowTruthful, Typed
<1>3. PICK new \in Kids : /\ children' = (children \ {c}) \cup {new}
                          /\ new.epoch = c.epoch /\ new.pc = "done" /\ new.answer = report
  BY <1>1, KidRecords DEF RecordFailure, Done
<1>4. row' \in Rows /\ row'.status = FailureStatus(c.answer) /\ row'.receipt = row.receipt
  <2>1. row' = [row EXCEPT !.status = FailureStatus(c.answer)]
    BY DEF RecordFailure
  <2>2. \A s \in {"unknown", "failed"} : row' = [row EXCEPT !.status = s] =>
          row' \in Rows /\ row'.status = s /\ row'.receipt = row.receipt
    BY <1>1 DEF Rows
  <2>3. FailureStatus(c.answer) \in {"unknown", "failed"}
    BY DEF FailureStatus
  <2> HIDE DEF FailureStatus
  <2> QED
    BY <2>1, <2>2, <2>3
<1>5. ChildKnows(new)'
  BY <1>3, <1>4 DEF ChildKnows, Truthful, Sendable, FailureStatus, RecordFailure, Reports
<1>6. RowTruthful'
  BY <1>2, <1>4 DEF RowTruthful, RecordFailure, FailureStatus, InFlight, Accepted, Sendable
<1> QED
  BY <1>2, <1>3, <1>4, <1>5, <1>6, ChildMoves DEF RecordFailure, Inv, Typed, Accepted, InFlight

LEMMA ChildReturnsKeeps == ASSUME Inv, NEW c \in children, ChildReturns(c) PROVE Inv'
<1>1. /\ Typed /\ OneChildPerEpoch /\ ParentIsCurrent /\ ParentIsAlone
      /\ ChildrenKnow /\ ParentKnows /\ RowTruthful /\ JobTruthful
  BY DEF Inv
<1>2. children' = children \ {c} /\ UNCHANGED <<row, job, taken, faults>>
  BY DEF ChildReturns
<1>3. ChildrenKnow' /\ RowTruthful' /\ JobTruthful' /\ OneChildPerEpoch'
  <2>1. \A b \in children : ChildKnows(b)'
    BY <1>1, <1>2 DEF ChildrenKnow, ChildKnows, HeldBy, InFlight, Accepted, Truthful, Sendable
  <2> QED
    BY <1>1, <1>2, <2>1 DEF ChildrenKnow, RowTruthful, JobTruthful, OneChildPerEpoch, Accepted, Sendable
<1>4. CASE ~Hosts(c)
  <2>1. parent' = parent
    BY <1>4 DEF ChildReturns
  <2>2. Typed' /\ ParentIsCurrent' /\ ParentIsAlone'
    BY <1>1, <1>2, <2>1 DEF Typed, ParentIsCurrent, ParentIsAlone
  <2>3. ParentKnows'
    BY <1>1, <1>2, <2>1 DEF ParentKnows, HeldBy, Truthful, Sendable
  <2> QED
    BY <1>3, <2>2, <2>3 DEF Inv
<1>5. CASE Hosts(c)
  <2>1. parent \in Parents /\ c \in Kids /\ c.pc = "done" /\ parent.epoch = c.epoch
    BY <1>1, <1>5 DEF Typed, ChildReturns, Hosts
  <2>2. parent' = [parent EXCEPT !.pc = "reporting", !.report = c.answer]
    BY <1>5 DEF ChildReturns
  <2>3. c.answer \in Reports /\ (HeldBy(c.epoch) => Truthful(c.answer))
    BY <1>1, <2>1 DEF ChildrenKnow, ChildKnows
  <2>4. /\ parent' \in Parents /\ parent'.pc = "reporting" /\ parent'.epoch = c.epoch
        /\ parent'.report = c.answer
    BY <2>1, <2>2, <2>3 DEF Parents
  <2>5. Typed' /\ ParentIsCurrent'
    BY <1>1, <1>2, <1>5, <2>1, <2>4 DEF Typed, ParentIsCurrent, Hosts
  <2>6. ParentIsAlone'
    BY <1>1, <1>2, <2>4 DEF ParentIsAlone, OneChildPerEpoch
  <2>7. ParentKnows'
    BY <1>2, <2>3, <2>4 DEF ParentKnows, HeldBy, Truthful, Sendable, Reports, NoReport
  <2> QED
    BY <1>3, <2>5, <2>6, <2>7 DEF Inv
<1> QED
  BY <1>4, <1>5

-----------------------------------------------------------------------------
(* The dispatcher.                                                         *)

LEMMA JobRecords ==
  ASSUME NEW x \in JobRows
  PROVE  /\ LET y == [x EXCEPT !.status = "running", !.epoch = @ + 1, !.leased = TRUE]
            IN y \in JobRows /\ y.status = "running" /\ y.epoch = x.epoch + 1 /\ y.leased /\ y.asked = x.asked
         /\ LET y == [x EXCEPT !.leased = FALSE]
            IN /\ y \in JobRows /\ y.status = x.status /\ y.epoch = x.epoch /\ ~y.leased
               /\ y.error = x.error /\ y.manual = x.manual /\ y.asked = x.asked
         /\ LET y == [x EXCEPT !.asked = TRUE]
            IN /\ y \in JobRows /\ y.status = x.status /\ y.epoch = x.epoch /\ y.leased = x.leased
               /\ y.error = x.error /\ y.manual = x.manual /\ y.asked
         /\ LET y == [x EXCEPT !.asked = TRUE, !.status = "cancelled"]
            IN /\ y \in JobRows /\ y.status = "cancelled" /\ y.epoch = x.epoch /\ y.leased = x.leased
               /\ y.asked
<1>1. x.epoch + 1 \in Nat
  BY DEF JobRows
<1>2. \A n \in Nat : LET y == [x EXCEPT !.status = "running", !.epoch = n, !.leased = TRUE]
                     IN y \in JobRows /\ y.status = "running" /\ y.epoch = n /\ y.leased /\ y.asked = x.asked
  BY DEF JobRows
<1>3. LET y == [x EXCEPT !.leased = FALSE]
      IN /\ y \in JobRows /\ y.status = x.status /\ y.epoch = x.epoch /\ ~y.leased
         /\ y.error = x.error /\ y.manual = x.manual /\ y.asked = x.asked
  BY DEF JobRows
<1>4. LET y == [x EXCEPT !.asked = TRUE]
      IN /\ y \in JobRows /\ y.status = x.status /\ y.epoch = x.epoch /\ y.leased = x.leased
         /\ y.error = x.error /\ y.manual = x.manual /\ y.asked
  BY DEF JobRows
<1>5. LET y == [x EXCEPT !.asked = TRUE, !.status = "cancelled"]
      IN /\ y \in JobRows /\ y.status = "cancelled" /\ y.epoch = x.epoch /\ y.leased = x.leased
         /\ y.asked
  BY DEF JobRows, Ended
<1> QED
  BY <1>1, <1>2, <1>3, <1>4, <1>5

(* A new lease begins while nobody holds one, so no request is under way.  *)
LEMMA AcquireKeeps == ASSUME Inv, Acquire PROVE Inv'
<1>1. /\ Typed /\ OneChildPerEpoch /\ ParentIsCurrent /\ ParentIsAlone
      /\ ChildrenKnow /\ ParentKnows /\ RowTruthful /\ JobTruthful
  BY DEF Inv
<1>2. job \in JobRows /\ job.epoch \in Nat /\ UNCHANGED <<row, taken, faults>>
  BY <1>1 DEF Typed, JobRows, Acquire
<1>3. /\ job' \in JobRows /\ job'.status = "running" /\ job'.epoch = job.epoch + 1
  BY <1>2, JobRecords DEF Acquire
<1>4. /\ parent' \in Parents /\ parent'.pc = "running" /\ parent'.epoch = job'.epoch
  BY <1>2, <1>3 DEF Acquire, Parents
<1>5. PICK new \in Kids : /\ children' = children \cup {new}
                          /\ new.epoch = job'.epoch /\ new.pc = "new"
  <2> DEFINE child == [epoch |-> job.epoch + 1, pc |-> "new", answer |-> "none"]
  <2>1. children' = children \cup {child}
    BY DEF Acquire
  <2>2. child \in Kids /\ child.epoch = job'.epoch /\ child.pc = "new"
    BY <1>2, <1>3 DEF Kids, Places, Answers
  <2> HIDE DEF child
  <2> QED
    BY <2>1, <2>2
<1>6. \A c \in children : ~HeldBy(c.epoch) /\ c.epoch <= job.epoch /\ c.epoch \in Nat
  BY <1>1 DEF Acquire, HeldBy, Typed, Kids
<1>7. Typed'
  BY <1>1, <1>2, <1>3, <1>4, <1>5, <1>6 DEF Typed
<1>8. OneChildPerEpoch'
  BY <1>1, <1>2, <1>3, <1>5, <1>6 DEF OneChildPerEpoch
<1>9. ChildrenKnow'
  <2>1. ASSUME NEW c \in children PROVE ChildKnows(c)'
    <3>1. ~HeldBy(c.epoch)'
      BY <1>2, <1>3, <1>6 DEF HeldBy
    <3> QED
      BY <1>1, <1>2, <1>6, <3>1 DEF ChildrenKnow, ChildKnows, Accepted
  <2>2. ChildKnows(new)'
    BY <1>5 DEF ChildKnows
  <2> QED
    BY <1>5, <2>1, <2>2 DEF ChildrenKnow
<1>10. RowTruthful' /\ JobTruthful' /\ ParentIsCurrent' /\ ParentIsAlone' /\ ParentKnows'
  BY <1>1, <1>2, <1>3, <1>4 DEF RowTruthful, JobTruthful, ParentIsCurrent, ParentIsAlone, ParentKnows,
                                Accepted, Sendable
<1> QED
  BY <1>7, <1>8, <1>9, <1>10 DEF Inv

(* The parent stops or loses its child.                                    *)
LEMMA ParentMoves ==
  ASSUME Inv, parent' \in Parents, children' \subseteq children,
         UNCHANGED <<row, job, taken>>, faults' \in Nat,
         \/ parent'.pc = "idle"
         \/ /\ parent.pc # "idle" /\ parent'.pc \in {"marking", "reporting"}
            /\ parent'.epoch = parent.epoch
            /\ \A c \in children' : c.epoch # parent.epoch
            /\ parent'.pc = "reporting" =>
                 parent'.report # NoReport /\ (HeldBy(parent.epoch) => Truthful(parent'.report))
  PROVE  Inv'
<1>1. /\ Typed /\ OneChildPerEpoch /\ ParentIsCurrent /\ ParentIsAlone
      /\ ChildrenKnow /\ ParentKnows /\ RowTruthful /\ JobTruthful
  BY DEF Inv
<1>2. Typed' /\ OneChildPerEpoch'
  BY <1>1 DEF Typed, OneChildPerEpoch
<1>3. ParentIsCurrent' /\ ParentIsAlone'
  BY <1>1 DEF ParentIsCurrent, ParentIsAlone
<1>4. ChildrenKnow'
  <2>1. \A c \in children : ChildKnows(c)'
    BY <1>1 DEF ChildrenKnow, ChildKnows, HeldBy, InFlight, Accepted, Truthful, Sendable
  <2> QED
    BY <2>1 DEF ChildrenKnow
<1>5. ParentKnows'
  BY DEF ParentKnows, HeldBy, Truthful, Sendable
<1>6. RowTruthful' /\ JobTruthful'
  BY <1>1 DEF RowTruthful, JobTruthful, Accepted, Sendable
<1> QED
  BY <1>2, <1>3, <1>4, <1>5, <1>6 DEF Inv

LEMMA StopsKeep == ASSUME Inv, StopChild \/ LeaseLost \/ ChildCrashes \/ ParentDies PROVE Inv'
<1>1. parent \in Parents /\ faults' \in Nat /\ children' \subseteq children
      /\ UNCHANGED <<row, job, taken>>
  <2>1. parent \in Parents /\ faults \in Nat /\ faults + 1 \in Nat
    BY DEF Inv, Typed
  <2>2. faults' \in {faults, faults + 1} /\ UNCHANGED <<row, job, taken>>
    BY DEF StopChild, LeaseLost, ChildCrashes, ParentDies
  <2>3. children' \in {children, Reaped}
    BY DEF StopChild, LeaseLost, ChildCrashes, ParentDies
  <2> QED
    BY <2>1, <2>2, <2>3 DEF Reaped
<1>2. CASE ParentDies
  <2>1. parent' \in Parents /\ parent'.pc = "idle"
    BY <1>2 DEF ParentDies, Idle, Parents
  <2> QED
    BY <1>1, <2>1, ParentMoves
<1>3. CASE StopChild \/ LeaseLost \/ ChildCrashes
  <2>1. parent.pc = "running" /\ children' = Reaped
    BY <1>3 DEF StopChild, LeaseLost, ChildCrashes
  <2>2. \A c \in children' : c.epoch # parent.epoch
    BY <2>1 DEF Reaped, Hosts
  <2>3. CASE LeaseLost \/ ChildCrashes
    <3>1. parent' = [parent EXCEPT !.pc = "marking"]
      BY <2>3 DEF LeaseLost, ChildCrashes
    <3>2. parent' \in Parents /\ parent'.pc = "marking" /\ parent'.epoch = parent.epoch
      BY <1>1, <3>1 DEF Parents
    <3> QED
      BY <1>1, <2>1, <2>2, <3>2, ParentMoves
  <2>4. CASE StopChild
    <3>1. PICK report \in Reports : /\ parent' = [parent EXCEPT !.pc = "reporting", !.report = report]
                                    /\ Truthful(report)
      BY <2>4 DEF StopChild, Reports, Truthful
    <3>2. /\ parent' \in Parents /\ parent'.pc = "reporting" /\ parent'.epoch = parent.epoch
          /\ parent'.report = report /\ report # NoReport
      BY <1>1, <3>1 DEF Parents, Reports, NoReport
    <3> QED
      BY <1>1, <2>1, <2>2, <3>1, <3>2, ParentMoves
  <2> QED
    BY <1>3, <2>3, <2>4
<1> QED
  BY <1>2, <1>3

(* A request that was cut off is of unknown result. The one who marks it   *)
(* has no child left, and nobody else holds the lease.                     *)
LEMMA MarkedRow ==
  ASSUME Inv, row' = Marked, taken' = taken
  PROVE  /\ row' \in Rows /\ RowTruthful'
         /\ row'.status = (IF InFlight THEN "unknown" ELSE row.status)
         /\ row'.receipt = row.receipt
<1>1. row \in Rows /\ RowTruthful
  BY DEF Inv, Typed
<1>2. CASE InFlight
  <2>1. row' \in Rows /\ row'.status = "unknown" /\ row'.receipt = row.receipt
    BY <1>1, <1>2, RowRecords DEF Marked
  <2> QED
    BY <1>1, <1>2, <2>1 DEF RowTruthful, InFlight, Accepted, Sendable
<1>3. CASE ~InFlight
  BY <1>1, <1>3 DEF Marked, RowTruthful, Accepted, Sendable
<1> QED
  BY <1>2, <1>3

LEMMA MarkInterruptedKeeps == ASSUME Inv, MarkInterrupted PROVE Inv'
<1>1. /\ Typed /\ OneChildPerEpoch /\ ParentIsCurrent /\ ParentIsAlone
      /\ ChildrenKnow /\ ParentKnows /\ RowTruthful /\ JobTruthful
  BY DEF Inv
<1>2. row' = Marked /\ UNCHANGED <<job, children, taken, faults>>
  BY DEF MarkInterrupted
<1>3. /\ row' \in Rows /\ RowTruthful'
      /\ row'.status = (IF InFlight THEN "unknown" ELSE row.status)
      /\ row'.receipt = row.receipt
  BY <1>2, MarkedRow
<1>4. parent' \in Parents /\ parent'.pc = "idle"
  BY DEF MarkInterrupted, Idle, Parents
<1>5. \A c \in children : ~HeldBy(c.epoch)
  BY <1>1 DEF MarkInterrupted, ParentIsAlone, ParentIsCurrent, HeldBy
<1>6. ChildrenKnow'
  <2>1. \A c \in children : ChildKnows(c)'
    BY <1>1, <1>2, <1>3, <1>5 DEF ChildrenKnow, ChildKnows, HeldBy, Accepted
  <2> QED
    BY <1>2, <2>1 DEF ChildrenKnow
<1>7. JobTruthful'
  BY <1>1, <1>2, <1>3 DEF JobTruthful, InFlight, Sendable
<1>8. Typed' /\ OneChildPerEpoch' /\ ParentIsCurrent' /\ ParentIsAlone' /\ ParentKnows'
  BY <1>1, <1>2, <1>3, <1>4 DEF Typed, OneChildPerEpoch, ParentIsCurrent, ParentIsAlone, ParentKnows
<1> QED
  BY <1>3, <1>6, <1>7, <1>8 DEF Inv

(* The job after a report: how it ended depends on what the row says.      *)
LEMMA SettledJob ==
  ASSUME NEW x \in JobRows, x = job, NEW report \in Reports
  PROVE  LET y == Settled(report) IN
         /\ y \in JobRows /\ y.epoch = x.epoch /\ ~y.leased
         /\ y.status = "succeeded" => report \in {"succeeded", "stopped"} /\ ~x.asked
         /\ y.status = "failed" => /\ report \notin {"succeeded", "stopped"}
                                   /\ y.error = report /\ y.manual = ManualRetry(report)
<1>1. CASE x.asked
  BY <1>1 DEF Settled, JobRows, Ended
<1>2. CASE ~x.asked /\ report \in {"succeeded", "stopped"}
  BY <1>2 DEF Settled, JobRows, Ended
<1>3. CASE ~x.asked /\ report \notin {"succeeded", "stopped"}
  <2> DEFINE status == IF Automatic(report) THEN "queued" ELSE "failed"
             retries == IF Automatic(report) THEN x.retries + 1 ELSE x.retries
             manual == ManualRetry(report)
  <2>1. Settled(report) = [x EXCEPT !.status = status, !.retries = retries, !.leased = FALSE,
                                    !.error = report, !.manual = manual]
    BY <1>3 DEF Settled
  <2>2. status \in {"queued", "failed"} /\ retries \in Nat /\ manual \in BOOLEAN
    BY DEF JobRows, ManualRetry
  <2> DEFINE y == Settled(report)
  <2> HIDE DEF status, retries, manual
  <2>3. /\ y.epoch = x.epoch /\ y.leased = FALSE /\ y.status = status
        /\ y.error = report /\ y.manual = manual
    BY <2>1 DEF JobRows
  <2>4. y \in JobRows
    <3>1. status \in {"queued", "running"} \cup Ended
      BY <2>2 DEF Ended
    <3> QED
      BY <2>1, <2>2, <3>1 DEF JobRows
  <2> HIDE DEF y
  <2>5. status # "succeeded"
    BY <2>2
  <2> QED
    BY <1>3, <2>3, <2>4, <2>5 DEF manual, y
<1> QED
  BY <1>1, <1>2, <1>3

LEMMA FinalizeKeeps == ASSUME Inv, Finalize PROVE Inv'
<1>1. /\ Typed /\ OneChildPerEpoch /\ ParentIsCurrent /\ ParentIsAlone
      /\ ChildrenKnow /\ ParentKnows /\ RowTruthful /\ JobTruthful
  BY DEF Inv
<1>2. parent' \in Parents /\ parent'.pc = "idle" /\ UNCHANGED <<children, taken, faults>>
  BY DEF Finalize, Idle, Parents
<1>3. CASE ~HeldBy(parent.epoch)
  <2>1. UNCHANGED <<row, job>>
    BY <1>3 DEF Finalize
  <2> QED
    BY <1>1, <1>2, <2>1, ParentMoves DEF Typed
<1>4. CASE HeldBy(parent.epoch)
  <2>1. row' = Marked /\ job' = Settled(parent.report)
    BY <1>4 DEF Finalize
  <2>2. /\ row' \in Rows /\ RowTruthful'
        /\ row'.status = (IF InFlight THEN "unknown" ELSE row.status)
        /\ row'.receipt = row.receipt
    BY <1>2, <2>1, MarkedRow
  <2>3. parent.report \in Reports /\ Truthful(parent.report) /\ job \in JobRows
    BY <1>1, <1>4 DEF ParentKnows, Finalize, Typed, Parents
  <2>4. /\ job' \in JobRows /\ job'.epoch = job.epoch /\ ~job'.leased
        /\ job'.status = "succeeded" => parent.report \in {"succeeded", "stopped"} /\ ~job.asked
        /\ job'.status = "failed" => /\ parent.report \notin {"succeeded", "stopped"}
                                     /\ job'.error = parent.report
                                     /\ job'.manual = ManualRetry(parent.report)
    BY <2>1, <2>3, SettledJob
  <2>5. \A c \in children : ~HeldBy(c.epoch) /\ ~HeldBy(c.epoch)'
    BY <1>1, <2>4 DEF Finalize, ParentIsAlone, ParentIsCurrent, HeldBy
  <2>6. ChildrenKnow'
    <3>1. \A c \in children : ChildKnows(c)'
      BY <1>1, <2>2, <2>5 DEF ChildrenKnow, ChildKnows, Accepted
    <3> QED
      BY <1>2, <3>1 DEF ChildrenKnow
  <2>7. JobTruthful'
    <3>1. job'.status = "succeeded" => row'.status = "succeeded"
      BY <2>2, <2>3, <2>4 DEF Truthful, InFlight
    <3>2. ASSUME job'.status = "failed"
          PROVE  \/ job'.manual \/ Sendable'
                 \/ row'.status = "unknown" /\ job'.error = "unknown"
      <4>1. CASE ManualRetry(parent.report)
        BY <2>4, <3>2, <4>1
      <4>2. CASE ~ManualRetry(parent.report)
        <5>1. parent.report \in {"unknown", "refused", "transient"}
          BY <2>3, <2>4, <3>2, <4>2 DEF ManualRetry, Reports
        <5> QED
          BY <2>2, <2>3, <2>4, <3>2, <5>1 DEF Truthful, Sendable, InFlight
      <4> QED
        BY <4>1, <4>2
    <3> QED
      BY <3>1, <3>2 DEF JobTruthful
  <2>8. Typed'
    BY <1>1, <1>2, <2>2, <2>4 DEF Typed
  <2>9. OneChildPerEpoch' /\ ParentIsCurrent' /\ ParentIsAlone' /\ ParentKnows'
    BY <1>1, <1>2 DEF OneChildPerEpoch, ParentIsCurrent, ParentIsAlone, ParentKnows
  <2> QED
    BY <2>2, <2>6, <2>7, <2>8, <2>9 DEF Inv
<1> QED
  BY <1>3, <1>4

-----------------------------------------------------------------------------
(* The job's own steps.                                                    *)

(* No lease begins and no request is under way: what others know of the    *)
(* row stays true.                                                         *)
LEMMA JobMoves ==
  ASSUME Inv, job' \in JobRows, job'.epoch = job.epoch, job.asked => job'.asked,
         \A e : HeldBy(e)' => HeldBy(e),
         \A c \in children : c.pc = "sending" => HeldBy(c.epoch)',
         UNCHANGED <<row, parent, children, taken>>, faults' \in Nat, JobTruthful'
  PROVE  Inv'
<1>1. /\ Typed /\ OneChildPerEpoch /\ ParentIsCurrent /\ ParentIsAlone
      /\ ChildrenKnow /\ ParentKnows /\ RowTruthful
  BY DEF Inv
<1>2. Typed' /\ OneChildPerEpoch' /\ ParentIsCurrent' /\ ParentIsAlone' /\ RowTruthful'
  BY <1>1 DEF Typed, OneChildPerEpoch, ParentIsCurrent, ParentIsAlone, RowTruthful, Accepted, Sendable
<1>3. \A report : Truthful(report) => Truthful(report)'
  BY DEF Truthful, Sendable
<1>4. ChildrenKnow'
  <2>1. \A c \in children : ChildKnows(c)'
    BY <1>1, <1>3 DEF ChildrenKnow, ChildKnows, InFlight, Accepted
  <2> QED
    BY <2>1 DEF ChildrenKnow
<1>5. ParentKnows'
  <2>1. HeldBy(parent.epoch)' => HeldBy(parent.epoch)
    BY DEF HeldBy
  <2> QED
    BY <1>1, <1>3, <2>1 DEF ParentKnows
<1> QED
  BY <1>2, <1>4, <1>5 DEF Inv

LEMMA LeaseEndsKeeps == ASSUME Inv, LeaseEnds PROVE Inv'
<1>1. job \in JobRows /\ faults \in Nat /\ job' = [job EXCEPT !.leased = FALSE]
  BY DEF Inv, Typed, LeaseEnds
<1>2. /\ job' \in JobRows /\ job'.status = job.status /\ job'.epoch = job.epoch /\ ~job'.leased
      /\ job'.error = job.error /\ job'.manual = job.manual /\ job'.asked = job.asked
  BY <1>1, JobRecords
<1>3. faults' \in {faults, faults + 1}
  BY DEF LeaseEnds
<1>4. \A c \in children : c.pc # "sending"
  BY DEF LeaseEnds, Inv, ChildrenKnow, ChildKnows, HeldBy
<1>5. JobTruthful' /\ \A e : HeldBy(e)' => HeldBy(e)
  BY <1>2 DEF Inv, LeaseEnds, JobTruthful, Sendable, HeldBy
<1> QED
  BY <1>1, <1>2, <1>3, <1>4, <1>5, JobMoves DEF LeaseEnds

LEMMA RequestCancelKeeps == ASSUME Inv, RequestCancel PROVE Inv'
<1>1. job \in JobRows /\ JobTruthful /\ faults' \in Nat /\ UNCHANGED <<row, parent, children, taken>>
  BY DEF Inv, Typed, RequestCancel
<1>2. CASE job.leased
  <2>1. job' = [job EXCEPT !.asked = TRUE]
    BY <1>2 DEF RequestCancel
  <2>2. /\ job' \in JobRows /\ job'.status = job.status /\ job'.epoch = job.epoch
        /\ job'.leased = job.leased /\ job'.error = job.error /\ job'.manual = job.manual
        /\ job'.asked
    BY <1>1, <2>1, JobRecords
  <2>3. JobTruthful' /\ (\A e : HeldBy(e)' <=> HeldBy(e))
    BY <1>1, <2>2 DEF JobTruthful, Sendable, HeldBy
  <2>4. \A c \in children : c.pc = "sending" => HeldBy(c.epoch)'
    BY <2>2 DEF Inv, ChildrenKnow, ChildKnows, HeldBy
  <2> QED
    BY <1>1, <2>2, <2>3, <2>4, JobMoves
<1>3. CASE ~job.leased
  <2>1. job' = [job EXCEPT !.asked = TRUE, !.status = "cancelled"]
    BY <1>3 DEF RequestCancel
  <2>2. /\ job' \in JobRows /\ job'.status = "cancelled" /\ job'.epoch = job.epoch /\ job'.asked
    BY <1>1, <2>1, JobRecords
  <2>3. JobTruthful' /\ (\A e : HeldBy(e)' => HeldBy(e))
    BY <2>2 DEF JobTruthful, HeldBy
  <2>4. \A c \in children : c.pc # "sending"
    BY <1>3 DEF Inv, ChildrenKnow, ChildKnows, HeldBy
  <2> QED
    BY <1>1, <2>2, <2>3, <2>4, JobMoves
<1> QED
  BY <1>2, <1>3

LEMMA RequestRetryKeeps == ASSUME Inv, RequestRetry PROVE Inv'
<1>1. job \in JobRows /\ faults' \in Nat /\ UNCHANGED <<row, parent, children, taken>>
  BY DEF Inv, Typed, RequestRetry
<1>2. job' \in JobRows /\ job'.status = "queued" /\ job'.epoch = job.epoch /\ job'.asked = job.asked
  <2>1. job' = [job EXCEPT !.status = "queued", !.retries = job.retries + 1]
    BY DEF RequestRetry
  <2>2. job.retries + 1 \in Nat
    BY <1>1 DEF JobRows
  <2>3. \A n \in Nat : LET y == [job EXCEPT !.status = "queued", !.retries = n]
                       IN y \in JobRows /\ y.status = "queued" /\ y.epoch = job.epoch /\ y.asked = job.asked
    BY <1>1 DEF JobRows
  <2> QED
    BY <2>1, <2>2, <2>3
<1>3. JobTruthful' /\ (\A e : HeldBy(e)' => HeldBy(e))
  BY <1>2 DEF JobTruthful, HeldBy
<1>4. \A c \in children : c.pc # "sending"
  BY DEF Inv, ChildrenKnow, ChildKnows, HeldBy, RequestRetry, Retryable
<1> QED
  BY <1>1, <1>2, <1>3, <1>4, JobMoves

(* The operator speaks when the job has failed and nobody writes any more. *)
LEMMA ResolveKeeps == ASSUME Inv, Resolve PROVE Inv'
<1>1. /\ Typed /\ OneChildPerEpoch /\ ParentIsCurrent /\ ParentIsAlone
      /\ ChildrenKnow /\ ParentKnows /\ RowTruthful
      /\ UNCHANGED <<parent, children, taken, faults>>
  BY DEF Inv, Resolve
<1>2. row \in Rows /\ job \in JobRows /\ taken \in Nat /\ taken <= 1
  BY <1>1 DEF Typed, RowTruthful
<1>3. row.status = "unknown" /\ job.status = "failed"
  BY DEF Resolve, Resolvable
<1>4. /\ row' \in Rows /\ ~Accepted'
      /\ row'.status = IF taken > 0 THEN "succeeded" ELSE "failed"
  <2>1. PICK s \in {"succeeded", "failed"}, t \in {"delivered", "not_delivered"} :
          /\ row' = [row EXCEPT !.status = s, !.receipt = t]
          /\ s = IF taken > 0 THEN "succeeded" ELSE "failed"
    BY DEF Resolve
  <2>2. row' \in Rows /\ row'.status = s /\ row'.receipt = t
    BY <1>2, <2>1 DEF Rows, Receipts
  <2> QED
    BY <2>1, <2>2 DEF Accepted
<1>5. job' \in JobRows /\ job'.status = "failed" /\ job'.epoch = job.epoch
  <2>1. \A m \in BOOLEAN : LET y == [job EXCEPT !.error = "confirmed", !.manual = m]
                           IN y \in JobRows /\ y.status = job.status /\ y.epoch = job.epoch
    BY <1>2 DEF JobRows
  <2>2. PICK m \in BOOLEAN : job' = [job EXCEPT !.error = "confirmed", !.manual = m]
    <3>1. job' = [job EXCEPT !.error = "confirmed", !.manual = ~(taken > 0)]
      BY DEF Resolve
    <3> QED
      BY <3>1, Zenon
  <2> QED
    BY <1>3, <2>1, <2>2
<1>6. RowTruthful'
  BY <1>1, <1>2, <1>4 DEF RowTruthful, Sendable
<1>7. JobTruthful'
  BY <1>4, <1>5 DEF JobTruthful, Sendable
<1>8. ChildrenKnow'
  <2>1. ~Accepted /\ \A e : ~HeldBy(e) /\ ~HeldBy(e)'
    BY <1>1, <1>3, <1>5 DEF RowTruthful, HeldBy
  <2>2. \A c \in children : ChildKnows(c)'
    BY <1>1, <2>1 DEF ChildrenKnow, ChildKnows
  <2> QED
    BY <1>1, <2>2 DEF ChildrenKnow
<1>9. ParentKnows'
  BY <1>1, <1>5 DEF ParentKnows, HeldBy
<1>10. Typed' /\ OneChildPerEpoch' /\ ParentIsCurrent' /\ ParentIsAlone'
  BY <1>1, <1>4, <1>5 DEF Typed, OneChildPerEpoch, ParentIsCurrent, ParentIsAlone
<1> QED
  BY <1>6, <1>7, <1>8, <1>9, <1>10 DEF Inv

-----------------------------------------------------------------------------
(* The theorems.                                                           *)

LEMMA InvInit == Init => Inv
<1> SUFFICES ASSUME Init PROVE Inv
  OBVIOUS
<1>1. row \in Rows /\ row.status = "pending" /\ ~Accepted
  BY LimitsAssumption DEF Init, Rows, Receipts, Accepted
<1>2. job \in JobRows /\ job.status = "queued"
  BY DEF Init, JobRows
<1>3. parent \in Parents /\ parent.pc = "idle"
  BY DEF Init, Parents
<1>4. Typed
  BY <1>1, <1>2, <1>3 DEF Init, Typed
<1> QED
  BY <1>1, <1>2, <1>3, <1>4 DEF Init, Inv, OneChildPerEpoch, ParentIsCurrent, ParentIsAlone,
                                ChildrenKnow, ParentKnows, RowTruthful, JobTruthful, Sendable

LEMMA InvStep == Inv /\ [Next]_vars => Inv'
<1> SUFFICES ASSUME Inv, [Next]_vars PROVE Inv'
  OBVIOUS
<1>1. ASSUME NEW c \in children, ChildStep(c) \/ ChildRaises(c) PROVE Inv'
  BY <1>1, GuardRaisesKeeps, PrepareSettledKeeps, PrepareInterruptedKeeps, PrepareRefusesKeeps,
     PrepareSendsKeeps, SendKeeps, SaveReceiptKeeps, FinishKeeps, RecordFailureKeeps,
     ChildReturnsKeeps, ChildRaisesKeeps DEF ChildStep
<1>2. CASE Acquire \/ MarkInterrupted \/ Finalize \/ StopChild \/ LeaseLost \/ ChildCrashes \/ ParentDies
  BY <1>2, AcquireKeeps, MarkInterruptedKeeps, FinalizeKeeps, StopsKeep
<1>3. CASE LeaseEnds \/ RequestCancel \/ RequestRetry \/ Resolve
  BY <1>3, LeaseEndsKeeps, RequestCancelKeeps, RequestRetryKeeps, ResolveKeeps
<1>4. CASE UNCHANGED vars
  <2>1. UNCHANGED row /\ UNCHANGED job /\ UNCHANGED parent /\ UNCHANGED children
        /\ UNCHANGED taken /\ UNCHANGED faults
    BY <1>4 DEF vars
  <2> QED
    BY <2>1 DEF Inv, Typed, OneChildPerEpoch, ParentIsCurrent, ParentIsAlone, ChildrenKnow, ChildKnows,
                ParentKnows, RowTruthful, JobTruthful, Truthful, HeldBy, InFlight, Accepted, Sendable
<1> QED
  BY <1>1, <1>2, <1>3, <1>4 DEF Next, WorkerStep

LEMMA InvAlways == Spec => []Inv
  BY InvInit, InvStep, PTL DEF Spec

(* Row, job, parent and children have their types.                         *)
THEOREM DeliveryTyped == Spec => []TypeOK
<1>1. Inv => TypeOK
  BY TypedIsTypeOK DEF Inv
<1> QED
  BY <1>1, InvAlways, PTL

(* The destination takes the message at most once, whatever crashes,       *)
(* expires, is retried, cancelled or resolved, and however often.          *)
THEOREM TakenOnce == Spec => []TakenAtMostOnce
<1>1. Inv => TakenAtMostOnce
  BY DEF Inv, RowTruthful, TakenAtMostOnce
<1> QED
  BY <1>1, InvAlways, PTL

(* A row that says succeeded or failed is right.                           *)
THEOREM OutcomeTrue == Spec => []OutcomeIsTruthful
<1>1. Inv => OutcomeIsTruthful
  BY DEF Inv, RowTruthful, Sendable, OutcomeIsTruthful
<1> QED
  BY <1>1, InvAlways, PTL

(* Once the job has ended without a cancel, a delivery without an outcome  *)
(* is one the operator may resolve or a user may retry.                    *)
THEOREM OpenCanBeFinished == Spec => []OpenDeliveryCanBeFinished
<1>1. Inv => OpenDeliveryCanBeFinished
  BY DEF Inv, JobTruthful, OpenDeliveryCanBeFinished, AtRest, Open, CanBeFinished, Retryable,
         Resolvable, Sendable, Ended
<1> QED
  BY <1>1, InvAlways, PTL

(* No process turns an unknown result into another: only the operator.     *)
THEOREM UnknownStays == Spec => UnknownStaysUntilResolved
<1>1. Inv /\ [Next]_vars =>
        [row.status = "unknown" => row' = row \/ row'.receipt \in {"delivered", "not_delivered"}]_vars
  <2> SUFFICES ASSUME Inv, [Next]_vars, row.status = "unknown"
               PROVE  row' = row \/ row'.receipt \in {"delivered", "not_delivered"}
    OBVIOUS
  <2>1. ~Accepted /\ ~InFlight /\ ~Sendable
    BY DEF Inv, RowTruthful, InFlight, Sendable
  <2>2. ASSUME NEW c \in children, ChildStep(c) \/ ChildRaises(c) PROVE row' = row
    <3>1. ChildKnows(c)
      BY DEF Inv, ChildrenKnow
    <3> QED
      BY <2>1, <2>2, <3>1 DEF ChildStep, ChildRaises, GuardRaises, PrepareSettled, PrepareInterrupted,
         PrepareRefuses, PrepareSends, Send, SaveReceipt, Finish, RecordFailure, ChildReturns,
         ChildKnows, Guard
  <2>3. CASE Acquire \/ MarkInterrupted \/ Finalize \/ StopChild \/ LeaseLost \/ ChildCrashes
             \/ ParentDies \/ LeaseEnds \/ RequestCancel \/ RequestRetry \/ UNCHANGED vars
    BY <2>1, <2>3 DEF Acquire, MarkInterrupted, Finalize, Marked, StopChild, LeaseLost, ChildCrashes,
                      ParentDies, LeaseEnds, RequestCancel, RequestRetry, vars
  <2>4. CASE Resolve
    <3>1. row \in Rows
      BY DEF Inv, Typed
    <3> QED
      BY <2>4, <3>1 DEF Resolve, Rows
  <2> QED
    BY <2>2, <2>3, <2>4 DEF Next, WorkerStep
<1> QED
  BY <1>1, InvAlways, PTL DEF Spec, UnknownStaysUntilResolved
=============================================================================
