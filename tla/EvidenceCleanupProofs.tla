----------------------- MODULE EvidenceCleanupProofs -----------------------
(***************************************************************************)
(* Theorems about EvidenceCleanup, for any number of inputs and export     *)
(* jobs and any number of attempts.                                        *)
(***************************************************************************)
EXTENDS EvidenceCleanup, SharedRowsProofs

-----------------------------------------------------------------------------
(* Types. The sets of records stay folded: what an update of a record      *)
(* yields is stated once for each.                                         *)

AnyWriter ==
  [job : Jobs, epoch : Nat \ {0},
   pc : {"start", "rendering", "putting", "put", "failing", "report"},
   failure : {"none", "blocked", "failed"}, outcome : {"succeeded", "failed"}]
Writers == {h \in AnyWriter : h.pc = "failing" => h.failure # "none"}
Cleaners == [target : Targets, token : 1 .. MaxCleanups, pc : {"claimed", "removed"}]
CleanupRows ==
  [status : {"none", "pending", "processing", "failed", "succeeded"},
   count : 0 .. MaxCleanups, live : BOOLEAN]
Resources == [copies : SUBSET Copies, expired : BOOLEAN]
Deletions == {"none", "pending", "failed", "completed"}
Exports == {"pending", "running", "succeeded", "blocked", "failed"}

RowsTyped ==
  /\ resources \in [Inputs -> Resources]
  /\ deletions \in [Inputs -> Deletions]
  /\ cleanups \in [Targets -> CleanupRows]
  /\ exports \in [Jobs -> Exports]
StepsTyped ==
  /\ cleaners \subseteq Cleaners
  /\ writers \subseteq Writers
  /\ objects \subseteq Jobs /\ raced \subseteq Jobs
CopyTyped == JobsTyped /\ RowsTyped /\ StepsTyped

LEMMA CopyTypedIsTypeOK == CopyTyped => JobTypeOK /\ CopyTypeOK
<1> SUFFICES ASSUME CopyTyped PROVE JobTypeOK /\ CopyTypeOK
  OBVIOUS
<1>1. writers \subseteq AnyWriter
  BY DEF CopyTyped, StepsTyped, Writers
<1> QED
  BY <1>1, JobsTypedIsTypeOK
     DEF CopyTyped, RowsTyped, StepsTyped, CopyTypeOK, AnyWriter, Cleaners, CleanupRows, Resources,
         Deletions, Exports

LEMMA WriterRecords ==
  /\ \A h \in Writers : h.job \in Jobs
  /\ \A h \in Writers, pc \in {"start", "rendering", "putting", "put", "report"} :
       [h EXCEPT !.pc = pc] \in Writers
  /\ \A h \in Writers, f \in {"blocked", "failed"} :
       [h EXCEPT !.pc = "failing", !.failure = f] \in Writers
  /\ \A h \in Writers, o \in {"succeeded", "failed"} :
       [h EXCEPT !.pc = "report", !.outcome = o] \in Writers
  /\ \A j \in Jobs, e \in Nat :
       [job |-> j, epoch |-> e + 1, pc |-> "start", failure |-> "none",
        outcome |-> "failed"] \in Writers
<1> USE DEF Writers, AnyWriter
<1>1. \A h \in Writers : h.job \in Jobs
  OBVIOUS
<1>2. ASSUME NEW h \in Writers, NEW pc \in {"start", "rendering", "putting", "put", "report"}
      PROVE  [h EXCEPT !.pc = pc] \in Writers
  <2>1. [h EXCEPT !.pc = pc] \in AnyWriter /\ [h EXCEPT !.pc = pc].pc = pc
    OBVIOUS
  <2> QED
    BY <2>1
<1>3. ASSUME NEW h \in Writers, NEW f \in {"blocked", "failed"}
      PROVE  [h EXCEPT !.pc = "failing", !.failure = f] \in Writers
  <2>1. /\ [h EXCEPT !.pc = "failing", !.failure = f] \in AnyWriter
        /\ [h EXCEPT !.pc = "failing", !.failure = f].failure = f
    OBVIOUS
  <2> QED
    BY <2>1
<1>4. ASSUME NEW h \in Writers, NEW o \in {"succeeded", "failed"}
      PROVE  [h EXCEPT !.pc = "report", !.outcome = o] \in Writers
  <2>1. /\ [h EXCEPT !.pc = "report", !.outcome = o] \in AnyWriter
        /\ [h EXCEPT !.pc = "report", !.outcome = o].pc = "report"
    OBVIOUS
  <2> QED
    BY <2>1
<1>5. ASSUME NEW j \in Jobs, NEW e \in Nat
      PROVE  [job |-> j, epoch |-> e + 1, pc |-> "start", failure |-> "none",
              outcome |-> "failed"] \in Writers
  <2>1. e + 1 \in Nat \ {0}
    OBVIOUS
  <2> QED
    BY <2>1
<1> HIDE DEF Writers, AnyWriter
<1> QED
  BY <1>1, <1>2, <1>3, <1>4, <1>5

LEMMA CleanerRecords ==
  /\ \A c \in Cleaners : c.target \in Targets /\ c.token \in 1 .. MaxCleanups
  /\ \A c \in Cleaners : [c EXCEPT !.pc = "removed"] \in Cleaners
  /\ \A t \in Targets, n \in 1 .. MaxCleanups :
       [target |-> t, token |-> n, pc |-> "claimed"] \in Cleaners
  BY DEF Cleaners

LEMMA CleanupRowRecords ==
  /\ \A x \in CleanupRows : x.count \in 0 .. MaxCleanups
  /\ \A x \in CleanupRows, s \in {"none", "pending", "processing", "failed", "succeeded"},
        b \in BOOLEAN :
       /\ [x EXCEPT !.status = s] \in CleanupRows
       /\ [x EXCEPT !.live = b] \in CleanupRows
       /\ [x EXCEPT !.status = s, !.live = b] \in CleanupRows
  /\ \A n \in 0 .. MaxCleanups, b \in BOOLEAN, s \in {"pending", "processing"} :
       [status |-> s, count |-> n, live |-> b] \in CleanupRows
  BY DEF CleanupRows

LEMMA ResourceRecords ==
  /\ \A x \in Resources : x.copies \subseteq Copies
  /\ \A x \in Resources : [x EXCEPT !.expired = TRUE] \in Resources
  /\ \A x \in Resources, s \in SUBSET Copies : [x EXCEPT !.copies = x.copies \cup s] \in Resources
  BY DEF Resources

LEMMA TargetPairs ==
  /\ \A t \in Targets : t[1] \in Inputs /\ t[2] \in Copies /\ t = <<t[1], t[2]>>
  /\ \A o \in Inputs, x \in Copies : <<o, x>> \in Targets /\ <<o, x>>[1] = o /\ <<o, x>>[2] = x
  BY DEF Targets

LEMMA CopyInitTyped == JobInit /\ CopyInit => CopyTyped
<1> SUFFICES ASSUME JobInit, CopyInit PROVE CopyTyped
  OBVIOUS
<1>1. JobsTyped
  BY JobInitTyped
<1>2. RowsTyped
  <2>1. [copies |-> {Self}, expired |-> FALSE] \in Resources
    BY DEF Resources, Copies
  <2>2. [status |-> "none", count |-> 0, live |-> FALSE] \in CleanupRows
    BY CopiesAssumption DEF CleanupRows
  <2> QED
    BY <2>1, <2>2 DEF CopyInit, RowsTyped, Deletions, Exports
<1>3. StepsTyped
  BY DEF CopyInit, StepsTyped
<1> QED
  BY <1>1, <1>2, <1>3 DEF CopyTyped

-----------------------------------------------------------------------------
(* Steps keep the types.                                                   *)

LEMMA WriterMoves ==
  ASSUME StepsTyped, NEW h \in writers
  PROVE  /\ \A pc \in {"start", "rendering", "putting", "put", "report"} :
              WriterGoes(h, pc) => writers' \subseteq Writers
         /\ \A f \in {"blocked", "failed"} : WriterFails(h, f) => writers' \subseteq Writers
         /\ \A o \in {"succeeded", "failed"} : Ended(h, o) => writers' \subseteq Writers
<1>1. h \in Writers /\ writers \ {h} \subseteq Writers
  BY DEF StepsTyped
<1>2. \A pc \in {"start", "rendering", "putting", "put", "report"} :
        WriterGoes(h, pc) => writers' \subseteq Writers
  BY <1>1, WriterRecords DEF WriterGoes
<1>3. \A f \in {"blocked", "failed"} : WriterFails(h, f) => writers' \subseteq Writers
  BY <1>1, WriterRecords DEF WriterFails
<1>4. \A o \in {"succeeded", "failed"} : Ended(h, o) => writers' \subseteq Writers
  BY <1>1, WriterRecords DEF Ended
<1> QED
  BY <1>2, <1>3, <1>4

(* The steps of a handler of an export.                                    *)
WriterStep(h) ==
  \/ Attach(h) \/ BeginPut(h) \/ Put(h) \/ CommitExport(h) \/ RenderFails(h)
  \/ FailExport(h) \/ StopExport(h) \/ ReportExport(h) \/ WriterDies(h)

LEMMA WriterStepTyped ==
  ASSUME CopyTyped, NEW h \in writers, WriterStep(h)
  PROVE  CopyTyped'
<1>1. JobsTyped /\ RowsTyped /\ StepsTyped
  BY DEF CopyTyped
<1>2. h \in Writers /\ h.job \in Jobs
  BY <1>1, WriterRecords DEF StepsTyped
<1>3. /\ h.outcome \in {"succeeded", "failed"}
      /\ h.pc = "failing" => h.failure \in {"blocked", "failed"}
  BY <1>2 DEF Writers, AnyWriter
<1>4. JobsTyped'
  <2>1. CASE ReportExport(h)
    <3>1. Released(h.job, h.outcome) \in [Jobs -> JobRows]
      BY <1>1, <1>2, <1>3, ReleasedTyped DEF Statuses, Finished
    <3> QED
      BY <1>1, <2>1, <3>1 DEF ReportExport, JobsTyped
  <2>2. CASE ~ReportExport(h)
    BY <1>1, <2>2 DEF WriterStep, Attach, BeginPut, Put, CommitExport, RenderFails, FailExport,
                      StopExport, WriterDies, JobsTyped
  <2> QED
    BY <2>1, <2>2
<1>5. /\ deletions' = deletions /\ cleanups' = cleanups /\ cleaners' = cleaners
      /\ raced' = raced
  BY DEF WriterStep, Attach, BeginPut, Put, CommitExport, RenderFails, FailExport, StopExport,
         ReportExport, WriterDies
<1>6. resources' \in [Inputs -> Resources]
  <2>1. CASE Attach(h)
    <3>1. Registered(h.job) \in SUBSET Copies
      BY <1>2 DEF Registered, Copies
    <3>2. \A o \in Inputs :
            [resources[o] EXCEPT !.copies = resources[o].copies \cup Registered(h.job)] \in Resources
      BY <1>1, <3>1, ResourceRecords DEF RowsTyped
    <3> QED
      BY <1>1, <2>1, <3>2 DEF Attach, RowsTyped
  <2>2. CASE ~Attach(h)
    BY <1>1, <2>2 DEF WriterStep, BeginPut, Put, CommitExport, RenderFails, FailExport,
                      StopExport, ReportExport, WriterDies, RowsTyped
  <2> QED
    BY <2>1, <2>2
<1>7. exports' \in [Jobs -> Exports]
  <2>1. exports \in [Jobs -> Exports]
    BY <1>1 DEF RowsTyped
  <2>2. CASE Attach(h)
    BY <1>2, <2>1, <2>2 DEF Attach, Exports
  <2>3. CASE CommitExport(h)
    BY <1>2, <2>1, <2>3 DEF CommitExport, Exports
  <2>4. CASE FailExport(h)
    BY <1>2, <1>3, <2>1, <2>4 DEF FailExport, Exports
  <2>5. CASE ~Attach(h) /\ ~CommitExport(h) /\ ~FailExport(h)
    BY <2>1, <2>5 DEF WriterStep, BeginPut, Put, RenderFails, StopExport, ReportExport, WriterDies
  <2> QED
    BY <2>2, <2>3, <2>4, <2>5
<1>8. objects' \subseteq Jobs
  BY <1>1, <1>2 DEF StepsTyped, WriterStep, Attach, BeginPut, Put, CommitExport, RenderFails,
                    FailExport, StopExport, ReportExport, WriterDies
<1>9. writers' \subseteq Writers
  <2>1. CASE Attach(h) \/ BeginPut(h) \/ Put(h)
    BY <1>1, <2>1, WriterMoves DEF Attach, BeginPut, Put
  <2>2. CASE CommitExport(h) \/ RenderFails(h) \/ FailExport(h) \/ StopExport(h)
    BY <1>1, <2>2, WriterMoves DEF CommitExport, RenderFails, FailExport, StopExport
  <2>3. CASE ReportExport(h)
    BY <1>1, <2>3 DEF ReportExport, StepsTyped
  <2>4. CASE WriterDies(h)
    <3>1. writers' = writers \ {h} \/ Ended(h, "failed")
      BY <2>4 DEF WriterDies
    <3> QED
      BY <1>1, <3>1, WriterMoves DEF StepsTyped
  <2> QED
    BY <2>1, <2>2, <2>3, <2>4 DEF WriterStep
<1> QED
  BY <1>1, <1>4, <1>5, <1>6, <1>7, <1>8, <1>9 DEF CopyTyped, RowsTyped, StepsTyped

(* What _refresh_deletion writes.                                          *)
LEMMA RefreshedFacts ==
  ASSUME NEW t, NEW over, NEW o \in Inputs
  PROVE  /\ o \notin over => Refreshed(t, over)[o] = deletions[o]
         /\ o \in over => Refreshed(t, over)[o] \in {"pending", "failed", "completed"}
         /\ o \in over /\ Refreshed(t, over)[o] = "completed" =>
              \A x \in Copies : t[<<o, x>>].status \in {"none", "succeeded"}
<1> DEFINE of == {t[<<o, x>>] : x \in {y \in Copies : t[<<o, y>>].status # "none"}}
           value == IF o \notin over THEN deletions[o]
                    ELSE IF \A c \in of : c.status = "succeeded" THEN "completed"
                    ELSE IF \E c \in of : c.status = "failed" /\ c.count >= MaxCleanups
                      THEN "failed" ELSE "pending"
<1>1. Refreshed(t, over)[o] = value
  BY DEF Refreshed
<1>2. o \notin over => value = deletions[o]
  OBVIOUS
<1>3. o \in over => value \in {"pending", "failed", "completed"}
  OBVIOUS
<1>4. ASSUME o \in over, value = "completed"
      PROVE  \A x \in Copies : t[<<o, x>>].status \in {"none", "succeeded"}
  <2>1. \A c \in of : c.status = "succeeded"
    BY <1>4
  <2> QED
    BY <2>1
<1> HIDE DEF value
<1> QED
  BY <1>1, <1>2, <1>3, <1>4

LEMMA RefreshedTyped ==
  ASSUME RowsTyped, NEW t, NEW over
  PROVE  Refreshed(t, over) \in [Inputs -> Deletions]
<1>1. \A o \in Inputs : Refreshed(t, over)[o] \in Deletions
  BY RefreshedFacts DEF RowsTyped, Deletions
<1>2. Refreshed(t, over) = [o \in Inputs |-> Refreshed(t, over)[o]]
  BY DEF Refreshed
<1> QED
  BY <1>1, <1>2

LEMMA SweptTyped ==
  ASSUME RowsTyped
  PROVE  /\ Swept \in [Targets -> CleanupRows]
         /\ \A t \in Targets : Swept[t].status =
              IF t \in GivenUp THEN "failed" ELSE cleanups[t].status
<1>1. \A t \in Targets : cleanups[t] \in CleanupRows
  BY DEF RowsTyped
<1>2. \A t \in Targets : [cleanups[t] EXCEPT !.status = "failed"] \in CleanupRows
  BY <1>1, CleanupRowRecords
<1>3. \A t \in Targets : [cleanups[t] EXCEPT !.status = "failed"].status = "failed"
  BY <1>1 DEF CleanupRows
<1>4. Swept \in [Targets -> CleanupRows]
  BY <1>1, <1>2 DEF Swept
<1>5. \A t \in Targets : Swept[t].status = IF t \in GivenUp THEN "failed" ELSE cleanups[t].status
  BY <1>3 DEF Swept
<1> QED
  BY <1>4, <1>5

LEMMA CleanStepTyped == CopyTyped /\ CleanNext => CopyTyped'
<1> SUFFICES ASSUME CopyTyped, CleanNext PROVE CopyTyped'
  OBVIOUS
<1>1. JobsTyped /\ RowsTyped /\ StepsTyped
  BY DEF CopyTyped
<1>2. /\ UNCHANGED <<job, resources, writers>>
      /\ exports' \in {exports, [j \in Jobs |-> "blocked"]}
      /\ \/ UNCHANGED <<objects, raced>>
         \/ \E c \in cleaners : RemoveObject(c)
  BY DEF CleanNext, Claim, CleanupLeaseEnds, RemoveObject, PurgeObservation, Complete,
         FailCleanup, Answered
<1>3. exports' \in [Jobs -> Exports]
  BY <1>1, <1>2 DEF RowsTyped, Exports
<1>4. \A c \in cleaners : c \in Cleaners /\ c.target \in Targets
  BY <1>1, CleanerRecords DEF StepsTyped
<1>5. objects' \subseteq Jobs /\ raced' \subseteq Jobs
  <2>1. CASE UNCHANGED <<objects, raced>>
    BY <1>1, <2>1 DEF StepsTyped
  <2>2. ASSUME NEW c \in cleaners, RemoveObject(c) PROVE objects' \subseteq Jobs /\ raced' \subseteq Jobs
    <3>1. c.target[2] \in Jobs
      BY <1>4, <2>2, TargetPairs DEF RemoveObject, Copies
    <3> QED
      BY <1>1, <2>2, <3>1 DEF RemoveObject, StepsTyped
  <2> QED
    BY <1>2, <2>1, <2>2
<1>6. \A c \in cleaners : CleanerGoes(c, "removed") => cleaners' \subseteq Cleaners
  BY <1>1, <1>4, CleanerRecords DEF CleanerGoes, StepsTyped
<1>7. deletions' \in [Inputs -> Deletions]
  <2>1. CASE deletions' = deletions
    BY <1>1, <2>1 DEF RowsTyped
  <2>2. CASE \E t, over : deletions' = Refreshed(t, over)
    BY <1>1, <2>2, RefreshedTyped
  <2>3. CASE Claim
    BY <2>2, <2>3 DEF Claim
  <2>4. CASE \E c \in cleaners : Complete(c) \/ FailCleanup(c)
    BY <2>1, <2>2, <2>4 DEF Complete, FailCleanup, Answered
  <2>5. CASE \/ \E t \in Targets : CleanupLeaseEnds(t)
             \/ \E c \in cleaners : RemoveObject(c) \/ PurgeObservation(c)
    BY <2>1, <2>5 DEF CleanupLeaseEnds, RemoveObject, PurgeObservation
  <2> QED
    BY <2>3, <2>4, <2>5 DEF CleanNext
<1>8. cleanups' \in [Targets -> CleanupRows] /\ cleaners' \subseteq Cleaners
  <2>1. CASE Claim
    <3>1. Swept \in [Targets -> CleanupRows]
      BY <1>1, SweptTyped
    <3>2. CASE cleanups' = Swept /\ UNCHANGED cleaners
      BY <1>1, <3>1, <3>2 DEF StepsTyped
    <3>3. ASSUME NEW t \in Claimable,
                 cleanups' = [Swept EXCEPT ![t] = [status |-> "processing", count |-> @.count + 1,
                                                   live |-> TRUE]],
                 cleaners' = cleaners \cup {[target |-> t, token |-> cleanups[t].count + 1,
                                             pc |-> "claimed"]}
          PROVE  cleanups' \in [Targets -> CleanupRows] /\ cleaners' \subseteq Cleaners
      <4>1. t \in Targets /\ cleanups[t].count < MaxCleanups
        BY <3>3 DEF Claimable
      <4>2. cleanups[t].count \in 0 .. MaxCleanups
        BY <1>1, <4>1 DEF RowsTyped, CleanupRows
      <4>3. cleanups[t].count + 1 \in 1 .. MaxCleanups /\ t \notin GivenUp
        BY <4>1, <4>2, CopiesAssumption DEF GivenUp
      <4>4. Swept[t] = cleanups[t]
        BY <4>1, <4>3 DEF Swept
      <4>5. [status |-> "processing", count |-> cleanups[t].count + 1, live |-> TRUE] \in CleanupRows
        BY <4>3 DEF CleanupRows
      <4>6. [target |-> t, token |-> cleanups[t].count + 1, pc |-> "claimed"] \in Cleaners
        BY <4>1, <4>3, CleanerRecords
      <4> QED
        BY <1>1, <3>1, <3>3, <4>4, <4>5, <4>6 DEF StepsTyped
    <3> QED
      BY <2>1, <3>2, <3>3 DEF Claim
  <2>2. ASSUME NEW t \in Targets, CleanupLeaseEnds(t)
        PROVE  cleanups' \in [Targets -> CleanupRows] /\ cleaners' \subseteq Cleaners
    <3>1. cleanups[t] \in CleanupRows
      BY <1>1 DEF RowsTyped
    <3>2. [cleanups[t] EXCEPT !.live = FALSE] \in CleanupRows
      BY <3>1, CleanupRowRecords
    <3> QED
      BY <1>1, <2>2, <3>2 DEF CleanupLeaseEnds, RowsTyped, StepsTyped
  <2>3. ASSUME NEW c \in cleaners, RemoveObject(c) \/ PurgeObservation(c)
        PROVE  cleanups' \in [Targets -> CleanupRows] /\ cleaners' \subseteq Cleaners
    BY <1>1, <1>6, <2>3 DEF RemoveObject, PurgeObservation, RowsTyped
  <2>4. ASSUME NEW c \in cleaners, NEW status \in {"succeeded", "failed"}, Answered(c, status)
        PROVE  cleanups' \in [Targets -> CleanupRows] /\ cleaners' \subseteq Cleaners
    <3>1. cleanups[c.target] \in CleanupRows
      BY <1>1, <1>4 DEF RowsTyped
    <3>2. [cleanups[c.target] EXCEPT !.status = status, !.live = FALSE] \in CleanupRows
      BY <3>1, CleanupRowRecords
    <3> QED
      BY <1>1, <1>4, <2>4, <3>2 DEF Answered, RowsTyped, StepsTyped
  <2> QED
    BY <2>1, <2>2, <2>3, <2>4 DEF CleanNext, Complete, FailCleanup
<1> QED
  BY <1>1, <1>2, <1>3, <1>5, <1>7, <1>8 DEF CopyTyped, JobsTyped, RowsTyped, StepsTyped

LEMMA ExportStepTyped == CopyTyped /\ ExportNext => CopyTyped'
<1> SUFFICES ASSUME CopyTyped, ExportNext PROVE CopyTyped'
  OBVIOUS
<1>1. JobsTyped /\ RowsTyped /\ StepsTyped
  BY DEF CopyTyped
<1>2. ASSUME NEW o \in Inputs, Expire(o) PROVE CopyTyped'
  <2>1. [resources[o] EXCEPT !.expired = TRUE] \in Resources
    BY <1>1, ResourceRecords DEF RowsTyped
  <2>2. resources' \in [Inputs -> Resources]
    BY <1>1, <1>2, <2>1 DEF Expire, RowsTyped
  <2> QED
    BY <1>1, <1>2, <2>2 DEF Expire, CopyTyped, JobsTyped, RowsTyped, StepsTyped
<1>3. ASSUME NEW o \in Inputs, RequestDeletion(o) PROVE CopyTyped'
  <2>1. [status |-> "pending", count |-> 0, live |-> FALSE] \in CleanupRows
    BY CopiesAssumption DEF CleanupRows
  <2>2. cleanups' \in [Targets -> CleanupRows]
    BY <1>1, <1>3, <2>1 DEF RequestDeletion, RowsTyped
  <2>3. deletions' \in [Inputs -> Deletions]
    BY <1>1, <1>3 DEF RequestDeletion, RowsTyped, Deletions
  <2> QED
    BY <1>1, <1>3, <2>2, <2>3 DEF RequestDeletion, CopyTyped, JobsTyped, RowsTyped, StepsTyped
<1>4. ASSUME NEW j \in Jobs, ExportAcquire(j) PROVE CopyTyped'
  <2>1. JobsTyped'
    BY <1>1, <1>4, JobStepsTyped DEF ExportAcquire
  <2>2. job[j] \in JobRows
    BY <1>1 DEF JobsTyped
  <2>3. job[j].epoch \in Nat
    BY <2>2 DEF JobRows
  <2>4. writers' \subseteq Writers
    BY <1>1, <1>4, <2>3, WriterRecords DEF ExportAcquire, StepsTyped
  <2> QED
    BY <1>1, <1>4, <2>1, <2>4 DEF ExportAcquire, CopyTyped, RowsTyped, StepsTyped
<1>5. ASSUME NEW j \in Jobs, ExportJobMoves(j) PROVE CopyTyped'
  <2>1. JobsTyped'
    BY <1>1, <1>5, JobStepsTyped DEF ExportJobMoves
  <2> QED
    BY <1>1, <1>5, <2>1 DEF ExportJobMoves, copyVars, CopyTyped, RowsTyped, StepsTyped
<1>6. ASSUME NEW h \in writers, WriterStep(h) PROVE CopyTyped'
  BY <1>6, WriterStepTyped
<1> QED
  BY <1>2, <1>3, <1>4, <1>5, <1>6 DEF ExportNext, WriterStep

LEMMA StutterTyped == CopyTyped /\ UNCHANGED <<job, copyVars>> => CopyTyped'
  BY DEF CopyTyped, JobsTyped, RowsTyped, StepsTyped, copyVars

(* Every row, claim and handler has its type: counters stay within the     *)
(* attempts of _claim_next, a failure is stored with its reason.           *)
THEOREM CopiesTyped == CopySpec => [](JobTypeOK /\ CopyTypeOK)
<1>1. JobInit /\ CopyInit => CopyTyped
  BY CopyInitTyped
<1>2. CopyTyped /\ [CopyNext]_<<job, copyVars>> => CopyTyped'
  BY CleanStepTyped, ExportStepTyped, StutterTyped DEF CopyNext
<1>3. CopyTyped => JobTypeOK /\ CopyTypeOK
  BY CopyTypedIsTypeOK
<1> QED
  BY <1>1, <1>2, <1>3, PTL DEF CopySpec

-----------------------------------------------------------------------------
(* Erased copies stay erased. The argument: an input whose deletion was    *)
(* asked for is not readable, so no export of it starts to register, to    *)
(* put or to succeed any more; and whatever an export may have put was     *)
(* registered before, so it is a target of the deletion.                   *)

(* A copy that a cleaner removed, whether or not it could say so.          *)
Erased(t) ==
  \/ cleanups[t].status = "succeeded"
  \/ \E c \in cleaners : c.target = t /\ c.pc = "removed"

Puts(j) == \E h \in writers : h.job = j /\ h.pc = "putting"
Writes(j) == \E h \in writers : h.job = j /\ h.pc \in {"rendering", "putting", "put"}

RegisteredSelf == \A o \in Inputs : Self \in resources[o].copies
RegisteredObjects ==
  \A j \in Jobs : j \in objects \/ Writes(j) => \A o \in Inputs : j \in resources[o].copies
TargetsOfDeletions ==
  \A o \in Inputs, x \in Copies :
    /\ cleanups[<<o, x>>].status # "none" => deletions[o] # "none"
    /\ deletions[o] # "none" /\ x \in resources[o].copies => cleanups[<<o, x>>].status # "none"
ClaimedTargets == \A c \in cleaners : cleanups[c.target].status # "none"
ErasedExports ==
  \A o \in Inputs : Erased(<<o, Self>>) => \A j \in Jobs : exports[j] # "succeeded"
ErasedObjects ==
  \A o \in Inputs, j \in Jobs : Erased(<<o, j>>) => j \in raced \/ (j \notin objects /\ ~Puts(j))
CompletedDeletions ==
  \A o \in Inputs : deletions[o] = "completed" =>
    \A x \in Copies : cleanups[<<o, x>>].status \in {"none", "succeeded"}

Registration == RegisteredSelf /\ RegisteredObjects /\ TargetsOfDeletions /\ ClaimedTargets
Erasure == ErasedExports /\ ErasedObjects /\ CompletedDeletions
ErasedInv == CopyTyped /\ Registration /\ Erasure

LEMMA ErasedInvImplies == ErasedInv => ErasedCopiesStayErased
<1> SUFFICES ASSUME ErasedInv, NEW o \in Inputs, deletions[o] = "completed"
             PROVE  /\ \A j \in Jobs : exports[j] # "succeeded"
                    /\ objects \subseteq raced
  BY DEF ErasedCopiesStayErased
<1>1. \A x \in resources[o].copies : x \in Copies => Erased(<<o, x>>)
  BY DEF ErasedInv, Registration, Erasure, TargetsOfDeletions, CompletedDeletions, Erased
<1>2. Self \in Copies /\ Self \in resources[o].copies
  BY DEF ErasedInv, Registration, RegisteredSelf, Copies
<1>3. \A j \in Jobs : exports[j] # "succeeded"
  BY <1>1, <1>2 DEF ErasedInv, Erasure, ErasedExports
<1>4. ASSUME NEW j \in objects PROVE j \in raced
  <2>1. j \in Jobs /\ j \in Copies
    BY DEF ErasedInv, CopyTyped, StepsTyped, Copies
  <2>2. j \in resources[o].copies
    BY <2>1 DEF ErasedInv, Registration, RegisteredObjects
  <2> QED
    BY <1>1, <2>1, <2>2 DEF ErasedInv, Erasure, ErasedObjects
<1> QED
  BY <1>3, <1>4

LEMMA InitErased == JobInit /\ CopyInit => ErasedInv
<1> SUFFICES ASSUME JobInit, CopyInit PROVE ErasedInv
  OBVIOUS
<1>1. \A o \in Inputs, x \in Copies : cleanups[<<o, x>>].status = "none"
  BY TargetPairs DEF CopyInit
<1>2. Registration
  BY <1>1 DEF CopyInit, Registration, RegisteredSelf, RegisteredObjects, TargetsOfDeletions,
              ClaimedTargets, Writes
<1>3. Erasure
  BY <1>1 DEF CopyInit, Erasure, ErasedExports, ErasedObjects, CompletedDeletions, Erased,
              Copies
<1> QED
  BY <1>2, <1>3, CopyInitTyped DEF ErasedInv

(* No cleaner invents a target or forgets a deletion.                      *)
LEMMA CleanKeepsTargets ==
  ASSUME ErasedInv, CleanNext
  PROVE  /\ \A t \in Targets : cleanups'[t].status = "none" <=> cleanups[t].status = "none"
         /\ \A o \in Inputs : deletions'[o] = "none" <=> deletions[o] = "none"
         /\ \A c \in cleaners' : c.target \in Targets /\ cleanups[c.target].status # "none"
<1>1. RowsTyped /\ StepsTyped /\ Registration
  BY DEF ErasedInv, CopyTyped
<1>2. \A t \in Targets : cleanups[t].status # "none" => t[1] \in Inputs /\ deletions[t[1]] # "none"
  BY <1>1, TargetPairs DEF Registration, TargetsOfDeletions
<1>3. \A c \in cleaners : c.target \in Targets /\ cleanups[c.target].status # "none"
  BY <1>1, CleanerRecords DEF Registration, ClaimedTargets, StepsTyped
<1> DEFINE Goal == /\ \A t \in Targets : cleanups'[t].status = "none" <=> cleanups[t].status = "none"
                   /\ \A o \in Inputs : deletions'[o] = "none" <=> deletions[o] = "none"
                   /\ \A c \in cleaners' : c.target \in Targets /\ cleanups[c.target].status # "none"
<1>4. ASSUME NEW t, NEW over, deletions' = Refreshed(t, over),
             \A o \in Inputs : o \in over => deletions[o] # "none"
      PROVE  \A o \in Inputs : deletions'[o] = "none" <=> deletions[o] = "none"
  BY <1>4, RefreshedFacts
<1>5. CASE Claim
  <2>1. \A t \in GivenUp : t \in Targets /\ cleanups[t].status = "processing"
    BY DEF GivenUp, LostLease
  <2>2. \A o \in Inputs : deletions'[o] = "none" <=> deletions[o] = "none"
    <3>1. \A o \in Inputs : o \in {t[1] : t \in GivenUp} => deletions[o] # "none"
      BY <1>2, <2>1
    <3> QED
      BY <1>4, <1>5, <3>1 DEF Claim
  <2>3. \A t \in Targets : Swept[t].status = "none" <=> cleanups[t].status = "none"
    BY <1>1, <2>1, SweptTyped
  <2>4. \A t \in Claimable : t \in Targets /\ cleanups[t].status # "none"
    BY DEF Claimable, LostLease
  <2>5. CASE cleanups' = Swept /\ UNCHANGED cleaners
    BY <1>3, <2>2, <2>3, <2>5
  <2>6. ASSUME NEW t \in Claimable,
               cleanups' = [Swept EXCEPT ![t] = [status |-> "processing", count |-> @.count + 1,
                                                 live |-> TRUE]],
               cleaners' = cleaners \cup {[target |-> t, token |-> cleanups[t].count + 1,
                                           pc |-> "claimed"]}
        PROVE  Goal
    <3>1. \A u \in Targets : u # t => cleanups'[u] = Swept[u]
      BY <2>6 DEF Swept
    <3>2. cleanups'[t].status = "processing"
      BY <2>4, <2>6 DEF Swept
    <3>3. \A c \in cleaners' : c \in cleaners \/ c.target = t
      BY <2>6
    <3> QED
      BY <1>3, <2>2, <2>3, <2>4, <3>1, <3>2, <3>3
  <2> QED
    BY <1>5, <2>5, <2>6 DEF Claim
<1>6. ASSUME NEW t \in Targets, CleanupLeaseEnds(t) PROVE Goal
  <2>1. \A u \in Targets : cleanups'[u].status = cleanups[u].status
    BY <1>1, <1>6 DEF CleanupLeaseEnds, RowsTyped, CleanupRows
  <2> QED
    BY <1>3, <1>6, <2>1 DEF CleanupLeaseEnds
<1>7. ASSUME NEW c \in cleaners, RemoveObject(c) \/ PurgeObservation(c) PROVE Goal
  <2>1. [c EXCEPT !.pc = "removed"].target = c.target
    BY <1>1 DEF StepsTyped, Cleaners
  <2> QED
    BY <1>3, <1>7, <2>1 DEF RemoveObject, PurgeObservation, CleanerGoes
<1>8. ASSUME NEW c \in cleaners, NEW status \in {"succeeded", "failed"}, Answered(c, status)
      PROVE  Goal
  <2>1. CASE UNCHANGED <<cleanups, deletions>>
    BY <1>3, <1>8, <2>1 DEF Answered
  <2>2. CASE ~UNCHANGED <<cleanups, deletions>>
    <3>1. /\ cleanups[c.target].status = "processing"
          /\ cleanups' = [cleanups EXCEPT ![c.target].status = status, ![c.target].live = FALSE]
          /\ deletions' = Refreshed(cleanups', {c.target[1]})
          /\ cleaners' \subseteq cleaners
      BY <1>8, <2>2 DEF Answered
    <3>2. \A u \in Targets : cleanups'[u].status = IF u = c.target THEN status ELSE cleanups[u].status
      BY <1>1, <3>1 DEF RowsTyped, CleanupRows
    <3>3. \A o \in Inputs : o \in {c.target[1]} => deletions[o] # "none"
      BY <1>2, <1>3
    <3> QED
      BY <1>3, <1>4, <3>1, <3>2, <3>3
  <2> QED
    BY <2>1, <2>2
<1> QED
  BY <1>5, <1>6, <1>7, <1>8 DEF CleanNext, Complete, FailCleanup

LEMMA CleanKeepsRegistration == ErasedInv /\ CleanNext => Registration'
<1> SUFFICES ASSUME ErasedInv, CleanNext PROVE Registration'
  OBVIOUS
<1>1. Registration /\ StepsTyped
  BY DEF ErasedInv, CopyTyped
<1>2. resources' = resources /\ writers' = writers /\ objects' \subseteq objects
  BY DEF CleanNext, Claim, CleanupLeaseEnds, RemoveObject, PurgeObservation, Complete,
         FailCleanup, Answered
<1>3. RegisteredSelf' /\ RegisteredObjects'
  BY <1>1, <1>2 DEF Registration, RegisteredSelf, RegisteredObjects, Writes
<1>4. TargetsOfDeletions'
  BY <1>1, <1>2, CleanKeepsTargets, TargetPairs DEF Registration, TargetsOfDeletions
<1>5. ClaimedTargets'
  <2>1. ASSUME NEW c \in cleaners' PROVE cleanups'[c.target].status # "none"
    BY <2>1, CleanKeepsTargets
  <2> QED
    BY <2>1 DEF ClaimedTargets
<1> QED
  BY <1>3, <1>4, <1>5 DEF Registration

(* A cleaner erases at most the copy it removed.                           *)
LEMMA CleanErases ==
  ASSUME ErasedInv, CleanNext
  PROVE  \A t \in Targets : Erased(t)' =>
           \/ Erased(t)
           \/ \E c \in cleaners : c.target = t /\ (RemoveObject(c) \/ PurgeObservation(c))
<1>1. RowsTyped /\ StepsTyped
  BY DEF ErasedInv, CopyTyped
<1>2. \A c \in cleaners : c \in Cleaners /\ c.target \in Targets
  BY <1>1, CleanerRecords DEF StepsTyped
<1> SUFFICES ASSUME NEW t \in Targets, Erased(t)', ~Erased(t)
             PROVE  \E c \in cleaners : c.target = t /\ (RemoveObject(c) \/ PurgeObservation(c))
  OBVIOUS
<1>3. \/ cleanups'[t].status = "succeeded" /\ cleanups[t].status # "succeeded"
      \/ \E c \in cleaners' \ cleaners : c.target = t /\ c.pc = "removed"
  BY DEF Erased
<1>4. CASE Claim
  <2>1. Swept[t].status # "succeeded"
    BY <1>1, SweptTyped DEF Erased
  <2>2. \A c \in cleaners' : c \in cleaners \/ c.pc = "claimed"
    BY <1>4 DEF Claim
  <2>3. cleanups'[t].status # "succeeded"
    <3>1. ASSUME NEW u \in Claimable,
                 cleanups' = [Swept EXCEPT ![u] = [status |-> "processing", count |-> @.count + 1,
                                                   live |-> TRUE]]
          PROVE  cleanups'[t].status # "succeeded"
      <4>1. CASE t = u
        <5>1. cleanups'[u].status = "processing"
          BY <3>1, <4>1 DEF Swept
        <5> QED
          BY <4>1, <5>1
      <4>2. CASE t # u
        <5>1. cleanups'[t] = Swept[t]
          BY <3>1, <4>2 DEF Swept
        <5> QED
          BY <2>1, <5>1
      <4> QED
        BY <4>1, <4>2
    <3> QED
      BY <1>4, <2>1, <3>1 DEF Claim
  <2> QED
    BY <1>3, <2>2, <2>3
<1>5. ASSUME NEW u \in Targets, CleanupLeaseEnds(u) PROVE FALSE
  <2>1. cleanups'[t].status = cleanups[t].status
    BY <1>1, <1>5 DEF CleanupLeaseEnds, RowsTyped, CleanupRows
  <2> QED
    BY <1>3, <1>5, <2>1 DEF CleanupLeaseEnds
<1>6. ASSUME NEW c \in cleaners, RemoveObject(c) \/ PurgeObservation(c)
      PROVE  \E d \in cleaners : d.target = t /\ (RemoveObject(d) \/ PurgeObservation(d))
  <2>1. [c EXCEPT !.pc = "removed"].target = c.target
    BY <1>2 DEF Cleaners
  <2>2. cleanups' = cleanups
    BY <1>6 DEF RemoveObject, PurgeObservation
  <2>3. cleaners' \subseteq cleaners \cup {[c EXCEPT !.pc = "removed"]}
    BY <1>6 DEF RemoveObject, PurgeObservation, CleanerGoes
  <2>4. c.target = t
    BY <1>3, <2>1, <2>2, <2>3
  <2> QED
    BY <1>6, <2>4
<1>7. ASSUME NEW c \in cleaners, NEW status \in {"succeeded", "failed"}, Answered(c, status),
             status = "succeeded" => c.pc = "removed"
      PROVE  FALSE
  <2>1. cleaners' \subseteq cleaners
    BY <1>7 DEF Answered
  <2>2. cleanups' = cleanups \/ cleanups' = [cleanups EXCEPT ![c.target].status = status,
                                                              ![c.target].live = FALSE]
    BY <1>7 DEF Answered
  <2>3. cleanups'[t].status = "succeeded" /\ cleanups[t].status # "succeeded"
    BY <1>3, <2>1
  <2>4. t = c.target /\ status = "succeeded"
    <3>1. cleanups' = [cleanups EXCEPT ![c.target].status = status, ![c.target].live = FALSE]
      BY <2>2, <2>3
    <3>2. cleanups'[t].status = IF t = c.target THEN status ELSE cleanups[t].status
      BY <1>1, <1>2, <3>1 DEF RowsTyped, CleanupRows
    <3> QED
      BY <2>3, <3>2
  <2> QED
    BY <1>7, <2>4 DEF Erased
<1> QED
  BY <1>4, <1>5, <1>6, <1>7 DEF CleanNext, Complete, FailCleanup

LEMMA CleanKeepsErasure == ErasedInv /\ CleanNext => Erasure'
<1> SUFFICES ASSUME ErasedInv, CleanNext PROVE Erasure'
  OBVIOUS
<1>1. RowsTyped /\ StepsTyped /\ Registration /\ Erasure
  BY DEF ErasedInv, CopyTyped
<1>2. \A c \in cleaners : c \in Cleaners /\ c.target \in Targets
  BY <1>1, CleanerRecords DEF StepsTyped
<1>3. /\ writers' = writers /\ objects' \subseteq objects /\ raced \subseteq raced'
      /\ exports' = exports \/ exports' = [j \in Jobs |-> "blocked"]
  BY DEF CleanNext, Claim, CleanupLeaseEnds, RemoveObject, PurgeObservation, Complete,
         FailCleanup, Answered
<1>4. ErasedExports'
  <2> SUFFICES ASSUME NEW o \in Inputs, Erased(<<o, Self>>)', NEW j \in Jobs
               PROVE  exports'[j] # "succeeded"
    BY DEF ErasedExports
  <2>1. <<o, Self>> \in Targets /\ <<o, Self>>[2] = Self
    BY TargetPairs DEF Copies
  <2>2. CASE Erased(<<o, Self>>)
    BY <1>1, <1>3, <2>2 DEF Erasure, ErasedExports
  <2>3. ASSUME NEW c \in cleaners, c.target = <<o, Self>>, RemoveObject(c) \/ PurgeObservation(c)
        PROVE  exports'[j] # "succeeded"
    BY <2>1, <2>3 DEF RemoveObject, PurgeObservation
  <2> QED
    BY <2>1, <2>2, <2>3, CleanErases
<1>5. ErasedObjects'
  <2> SUFFICES ASSUME NEW o \in Inputs, NEW j \in Jobs, Erased(<<o, j>>)'
               PROVE  j \in raced' \/ (j \notin objects' /\ ~Puts(j)')
    BY DEF ErasedObjects
  <2>1. <<o, j>> \in Targets /\ <<o, j>>[2] = j /\ j # Self
    BY TargetPairs, CopiesAssumption DEF Copies, Self
  <2>2. CASE Erased(<<o, j>>)
    BY <1>1, <1>3, <2>2 DEF Erasure, ErasedObjects, Puts
  <2>3. ASSUME NEW c \in cleaners, c.target = <<o, j>>, RemoveObject(c) \/ PurgeObservation(c)
        PROVE  j \in raced' \/ (j \notin objects' /\ ~Puts(j)')
    BY <1>3, <2>1, <2>3 DEF RemoveObject, PurgeObservation, InPut, Puts
  <2> QED
    BY <2>1, <2>2, <2>3, CleanErases
<1>6. CompletedDeletions'
  <2> DEFINE Done(o) == \A x \in Copies : cleanups[<<o, x>>].status \in {"none", "succeeded"}
  <2> SUFFICES ASSUME NEW o \in Inputs, deletions'[o] = "completed", NEW x \in Copies
               PROVE  cleanups'[<<o, x>>].status \in {"none", "succeeded"}
    BY DEF CompletedDeletions
  <2>1. <<o, x>> \in Targets /\ <<o, x>>[1] = o
    BY TargetPairs
  <2>2. deletions[o] = "completed" => Done(o)
    BY <1>1 DEF Erasure, CompletedDeletions
  <2>3. CASE Claim
    <3>1. \A t \in GivenUp \cup Claimable :
            t \in Targets /\ cleanups[t].status \in {"pending", "processing", "failed"}
      BY DEF GivenUp, Claimable, LostLease
    <3>2. deletions' = Refreshed(Swept, {t[1] : t \in GivenUp})
      BY <2>3 DEF Claim
    <3>3. \A t \in GivenUp : t[1] # o
      <4> SUFFICES ASSUME NEW t \in GivenUp, t[1] = o PROVE FALSE
        OBVIOUS
      <4>1. t \in Targets /\ t = <<o, t[2]>> /\ t[2] \in Copies
        BY <3>1, TargetPairs
      <4>2. Swept[<<o, t[2]>>].status = "failed"
        BY <1>1, <4>1, SweptTyped
      <4>3. o \in {u[1] : u \in GivenUp}
        OBVIOUS
      <4>4. Swept[<<o, t[2]>>].status \in {"none", "succeeded"}
        BY <3>2, <4>1, <4>3, RefreshedFacts
      <4> QED
        BY <4>2, <4>4
    <3>4. deletions[o] = "completed"
      BY <3>2, <3>3, RefreshedFacts
    <3>5. <<o, x>> \notin GivenUp /\ <<o, x>> \notin Claimable
      BY <2>1, <2>2, <3>1, <3>3, <3>4
    <3>6. cleanups'[<<o, x>>] = cleanups[<<o, x>>]
      BY <2>1, <2>3, <3>5 DEF Claim, Swept
    <3> QED
      BY <2>2, <3>4, <3>6
  <2>4. ASSUME NEW t \in Targets, CleanupLeaseEnds(t)
        PROVE  cleanups'[<<o, x>>].status \in {"none", "succeeded"}
    <3>1. cleanups'[<<o, x>>].status = cleanups[<<o, x>>].status
      BY <1>1, <2>1, <2>4 DEF CleanupLeaseEnds, RowsTyped, CleanupRows
    <3> QED
      BY <2>2, <2>4, <3>1 DEF CleanupLeaseEnds
  <2>5. ASSUME NEW c \in cleaners, RemoveObject(c) \/ PurgeObservation(c)
        PROVE  cleanups'[<<o, x>>].status \in {"none", "succeeded"}
    BY <2>2, <2>5 DEF RemoveObject, PurgeObservation
  <2>6. ASSUME NEW c \in cleaners, NEW status \in {"succeeded", "failed"}, Answered(c, status)
        PROVE  cleanups'[<<o, x>>].status \in {"none", "succeeded"}
    <3>1. CASE UNCHANGED <<cleanups, deletions>>
      BY <2>2, <3>1
    <3>2. CASE ~UNCHANGED <<cleanups, deletions>>
      <4>1. /\ cleanups' = [cleanups EXCEPT ![c.target].status = status, ![c.target].live = FALSE]
            /\ deletions' = Refreshed(cleanups', {c.target[1]})
        BY <2>6, <3>2 DEF Answered
      <4>2. CASE o = c.target[1]
        BY <4>1, <4>2, RefreshedFacts
      <4>3. CASE o # c.target[1]
        <5>1. cleanups'[<<o, x>>] = cleanups[<<o, x>>]
          <6>1. <<o, x>> # c.target
            BY <2>1, <4>3
          <6>2. <<o, x>> \in DOMAIN cleanups
            BY <1>1, <2>1 DEF RowsTyped
          <6> QED
            BY <4>1, <6>1, <6>2
        <5>2. deletions[o] = "completed"
          BY <4>1, <4>3, RefreshedFacts
        <5> QED
          BY <2>2, <5>1, <5>2
      <4> QED
        BY <4>2, <4>3
    <3> QED
      BY <3>1, <3>2
  <2> QED
    BY <2>3, <2>4, <2>5, <2>6 DEF CleanNext, Complete, FailCleanup
<1> QED
  BY <1>4, <1>5, <1>6 DEF Erasure

(* Nothing of an input is erased before its deletion is asked for.         *)
LEMMA NothingErasedBefore ==
  ASSUME Registration, NEW o \in Inputs, NEW x \in Copies, deletions[o] = "none"
  PROVE  cleanups[<<o, x>>].status = "none" /\ ~Erased(<<o, x>>)
BY DEF Registration, TargetsOfDeletions, ClaimedTargets, Erased

(* Where a step of a handler leaves it.                                    *)
LEMMA WriterStepGoes ==
  ASSUME StepsTyped, NEW h \in writers, WriterStep(h), NEW g \in writers', g \notin writers
  PROVE  /\ g.job = h.job
         /\ \/ g.pc = "rendering" /\ Attach(h)
            \/ g.pc = "putting" /\ h.pc = "rendering" /\ Readable
            \/ g.pc = "put" /\ h.pc = "putting"
            \/ g.pc \in {"failing", "report"}
<1>1. h \in Writers
  BY DEF StepsTyped
<1>2. ASSUME NEW pc \in {"rendering", "putting", "put"}, WriterGoes(h, pc)
      PROVE  g.job = h.job /\ g.pc = pc
  <2>1. g = [h EXCEPT !.pc = pc]
    BY <1>2 DEF WriterGoes
  <2> QED
    BY <1>1, <2>1 DEF Writers, AnyWriter
<1>3. ASSUME NEW f, WriterFails(h, f) PROVE g.job = h.job /\ g.pc = "failing"
  <2>1. g = [h EXCEPT !.pc = "failing", !.failure = f]
    BY <1>3 DEF WriterFails
  <2> QED
    BY <1>1, <2>1 DEF Writers, AnyWriter
<1>4. ASSUME NEW r, Ended(h, r) PROVE g.job = h.job /\ g.pc = "report"
  <2>1. g = [h EXCEPT !.pc = "report", !.outcome = r]
    BY <1>4 DEF Ended
  <2> QED
    BY <1>1, <2>1 DEF Writers, AnyWriter
<1>5. CASE Attach(h)
  BY <1>2, <1>3, <1>4, <1>5 DEF Attach
<1>6. CASE BeginPut(h)
  BY <1>2, <1>3, <1>6 DEF BeginPut
<1>7. CASE Put(h)
  BY <1>2, <1>3, <1>7 DEF Put
<1>8. CASE CommitExport(h)
  BY <1>3, <1>4, <1>8 DEF CommitExport
<1>9. CASE RenderFails(h) \/ FailExport(h) \/ StopExport(h)
  BY <1>3, <1>4, <1>9 DEF RenderFails, FailExport, StopExport
<1>10. CASE ReportExport(h) \/ WriterDies(h)
  <2>1. writers' = writers \ {h} \/ Ended(h, "failed")
    BY <1>10 DEF ReportExport, WriterDies
  <2> QED
    BY <1>4, <2>1
<1> QED
  BY <1>5, <1>6, <1>7, <1>8, <1>9, <1>10 DEF WriterStep

LEMMA WriterStepRegisters ==
  ASSUME ErasedInv, NEW h \in writers, WriterStep(h)
  PROVE  /\ \A o \in Inputs : resources[o].copies \subseteq resources'[o].copies
         /\ Attach(h) \/ resources' = resources
         /\ \A o \in Inputs : resources'[o].copies # resources[o].copies => Readable
         /\ \A g \in writers' : g \notin writers /\ g.pc = "rendering" =>
              \A o \in Inputs : h.job \in resources'[o].copies
<1>1. RowsTyped /\ StepsTyped
  BY DEF ErasedInv, CopyTyped
<1>2. CASE Attach(h)
  <2>1. CASE resources' = [o \in Inputs |->
                             [resources[o] EXCEPT !.copies = @ \cup Registered(h.job)]]
    <3>1. \A o \in Inputs : resources'[o].copies = resources[o].copies \cup Registered(h.job)
      BY <1>1, <2>1 DEF RowsTyped, Resources
    <3>2. Readable \/ resources' = resources
      BY <1>2 DEF Attach
    <3> QED
      BY <1>2, <3>1, <3>2 DEF Registered
  <2>2. CASE ~(resources' = [o \in Inputs |->
                              [resources[o] EXCEPT !.copies = @ \cup Registered(h.job)]])
    <3>1. resources' = resources
      BY <1>2, <2>2 DEF Attach
    <3>2. \A g \in writers' : g \notin writers => g.pc # "rendering"
      <4>1. h \in Writers
        BY <1>1 DEF StepsTyped
      <4>2. \A f : [h EXCEPT !.pc = "failing", !.failure = f].pc = "failing"
        BY <4>1 DEF Writers, AnyWriter
      <4>3. \A r : [h EXCEPT !.pc = "report", !.outcome = r].pc = "report"
        BY <4>1 DEF Writers, AnyWriter
      <4>4. WriterFails(h, "blocked") \/ Ended(h, "succeeded")
        BY <1>2, <2>2, Zenon DEF Attach
      <4>5. CASE WriterFails(h, "blocked")
        BY <4>2, <4>5, Zenon DEF WriterFails
      <4>6. CASE Ended(h, "succeeded")
        BY <4>3, <4>6, Zenon DEF Ended
      <4> QED
        BY <4>4, <4>5, <4>6
    <3> QED
      BY <1>2, <3>1, <3>2
  <2> QED
    BY <2>1, <2>2
<1>3. CASE ~Attach(h)
  <2>1. resources' = resources
    BY <1>3 DEF WriterStep, BeginPut, Put, CommitExport, RenderFails, FailExport, StopExport,
                ReportExport, WriterDies
  <2> QED
    BY <1>1, <1>3, <2>1, WriterStepGoes
<1> QED
  BY <1>2, <1>3

LEMMA WriterKeepsErased ==
  ASSUME ErasedInv, NEW h \in writers, WriterStep(h)
  PROVE  Registration' /\ Erasure'
<1>1. RowsTyped /\ StepsTyped /\ Registration /\ Erasure
  BY DEF ErasedInv, CopyTyped
<1>2. h \in Writers /\ h.job \in Jobs /\ h.job \in Copies
  BY <1>1, WriterRecords DEF StepsTyped, Copies
<1>3. deletions' = deletions /\ cleanups' = cleanups /\ cleaners' = cleaners /\ raced' = raced
  BY DEF WriterStep, Attach, BeginPut, Put, CommitExport, RenderFails, FailExport, StopExport,
         ReportExport, WriterDies
<1>4. \A t : Erased(t)' <=> Erased(t)
  BY <1>3 DEF Erased
<1>5. Readable => \A o \in Inputs, x \in Copies :
                    deletions[o] = "none" /\ cleanups[<<o, x>>].status = "none" /\ ~Erased(<<o, x>>)
  BY <1>1, NothingErasedBefore DEF Readable
<1>6. objects' = objects \/ (objects' = objects \cup {h.job} /\ h.pc = "putting")
  BY DEF WriterStep, Attach, BeginPut, Put, CommitExport, RenderFails, FailExport, StopExport,
         ReportExport, WriterDies
<1>7. RegisteredSelf'
  BY <1>1, WriterStepRegisters DEF Registration, RegisteredSelf
<1>8. RegisteredObjects'
  <2> SUFFICES ASSUME NEW j \in Jobs, j \in objects' \/ Writes(j)', NEW o \in Inputs
               PROVE  j \in resources'[o].copies
    BY DEF RegisteredObjects
  <2>1. CASE j \in objects \/ Writes(j)
    BY <1>1, <2>1, WriterStepRegisters DEF Registration, RegisteredObjects
  <2>2. CASE j \in objects' /\ ~Writes(j)
    BY <1>6, <2>1, <2>2 DEF Writes
  <2>3. ASSUME NEW g \in writers', g.job = j, g.pc \in {"rendering", "putting", "put"}, ~Writes(j)
        PROVE  j \in resources'[o].copies
    <3>1. g \notin writers
      BY <2>3 DEF Writes
    <3>2. g.job = h.job /\ (g.pc = "rendering" \/ h.pc \in {"rendering", "putting"})
      BY <1>1, <2>3, <3>1, WriterStepGoes
    <3> QED
      BY <2>3, <3>1, <3>2, WriterStepRegisters DEF Writes
  <2> QED
    BY <2>1, <2>2, <2>3 DEF Writes
<1>9. TargetsOfDeletions'
  <2> SUFFICES ASSUME NEW o \in Inputs, NEW x \in Copies
               PROVE  /\ cleanups[<<o, x>>].status # "none" => deletions[o] # "none"
                      /\ deletions[o] # "none" /\ x \in resources'[o].copies =>
                           cleanups[<<o, x>>].status # "none"
    BY <1>3 DEF TargetsOfDeletions
  <2>1. deletions[o] # "none" => resources'[o].copies = resources[o].copies
    BY <1>5, WriterStepRegisters, <1>2
  <2> QED
    BY <1>1, <2>1 DEF Registration, TargetsOfDeletions
<1>10. ClaimedTargets'
  BY <1>1, <1>3 DEF Registration, ClaimedTargets
<1>11. ErasedExports'
  <2> SUFFICES ASSUME NEW o \in Inputs, Erased(<<o, Self>>), NEW j \in Jobs, exports'[j] = "succeeded"
               PROVE  FALSE
    BY <1>4 DEF ErasedExports
  <2>1. exports[j] # "succeeded" /\ ~Readable
    BY <1>1, <1>5 DEF Erasure, ErasedExports, Copies
  <2>2. exports \in [Jobs -> Exports]
    BY <1>1 DEF RowsTyped
  <2>3. CASE FailExport(h)
    <3>1. h.failure \in {"blocked", "failed"}
      BY <1>2, <2>3 DEF FailExport, Writers, AnyWriter
    <3> QED
      BY <2>1, <2>2, <2>3, <3>1 DEF FailExport
  <2>4. CASE ~FailExport(h)
    BY <2>1, <2>2, <2>4 DEF WriterStep, Attach, BeginPut, Put, CommitExport, RenderFails,
                            StopExport, ReportExport, WriterDies
  <2> QED
    BY <2>3, <2>4
<1>12. ErasedObjects'
  <2> SUFFICES ASSUME NEW o \in Inputs, NEW j \in Jobs, Erased(<<o, j>>), j \notin raced
               PROVE  j \notin objects' /\ ~Puts(j)'
    BY <1>3, <1>4 DEF ErasedObjects
  <2>1. j \notin objects /\ ~Puts(j) /\ ~Readable
    BY <1>1, <1>5 DEF Erasure, ErasedObjects, Copies
  <2>2. j \notin objects'
    BY <1>6, <2>1 DEF Puts
  <2>3. ASSUME NEW g \in writers', g.job = j, g.pc = "putting" PROVE FALSE
    BY <1>1, <2>1, <2>3, WriterStepGoes DEF Puts
  <2> QED
    BY <2>2, <2>3 DEF Puts
<1>13. CompletedDeletions'
  BY <1>1, <1>3 DEF Erasure, CompletedDeletions
<1> QED
  BY <1>7, <1>8, <1>9, <1>10, <1>11, <1>12, <1>13 DEF Registration, Erasure

LEMMA RequestKeepsErased ==
  ASSUME ErasedInv, NEW o \in Inputs, RequestDeletion(o)
  PROVE  Registration' /\ Erasure'
<1>1. RowsTyped /\ StepsTyped /\ Registration /\ Erasure
  BY DEF ErasedInv, CopyTyped
<1>2. /\ deletions[o] = "none" /\ deletions' = [deletions EXCEPT ![o] = "pending"]
      /\ UNCHANGED <<resources, cleaners, exports, writers, objects, raced>>
  BY DEF RequestDeletion
<1>3. \A p \in Inputs : deletions'[p] = IF p = o THEN "pending" ELSE deletions[p]
  BY <1>1, <1>2 DEF RowsTyped
<1>4. \A p \in Inputs, x \in Copies : cleanups'[<<p, x>>].status =
        IF p = o /\ x \in resources[o].copies THEN "pending" ELSE cleanups[<<p, x>>].status
  BY TargetPairs DEF RequestDeletion
<1>5. \A x \in Copies : cleanups[<<o, x>>].status = "none"
  BY <1>1, <1>2, NothingErasedBefore
<1>6. \A p \in Inputs, x \in Copies : Erased(<<p, x>>)' => Erased(<<p, x>>)
  BY <1>2, <1>4 DEF Erased
<1>7. RegisteredSelf' /\ RegisteredObjects'
  BY <1>1, <1>2 DEF Registration, RegisteredSelf, RegisteredObjects, Writes
<1>8. TargetsOfDeletions'
  <2> SUFFICES ASSUME NEW p \in Inputs, NEW x \in Copies
               PROVE  /\ cleanups'[<<p, x>>].status # "none" => deletions'[p] # "none"
                      /\ deletions'[p] # "none" /\ x \in resources[p].copies =>
                           cleanups'[<<p, x>>].status # "none"
    BY <1>2 DEF TargetsOfDeletions
  <2>1. CASE p = o
    <3>1. deletions'[p] = "pending"
      BY <1>3, <2>1
    <3>2. x \in resources[p].copies => cleanups'[<<p, x>>].status = "pending"
      BY <1>4, <2>1
    <3> QED
      BY <3>1, <3>2
  <2>2. CASE p # o
    <3>1. deletions'[p] = deletions[p]
      BY <1>3, <2>2
    <3>2. cleanups'[<<p, x>>].status = cleanups[<<p, x>>].status
      BY <1>4, <2>2
    <3> QED
      BY <1>1, <3>1, <3>2 DEF Registration, TargetsOfDeletions
  <2> QED
    BY <2>1, <2>2
<1>9. ClaimedTargets'
  <2> SUFFICES ASSUME NEW c \in cleaners PROVE cleanups'[c.target].status # "none"
    BY <1>2 DEF ClaimedTargets
  <2>1. c.target \in Targets /\ cleanups[c.target].status # "none"
    BY <1>1, CleanerRecords DEF StepsTyped, Registration, ClaimedTargets
  <2>2. /\ c.target[1] \in Inputs /\ c.target[2] \in Copies
        /\ c.target = <<c.target[1], c.target[2]>>
    BY <2>1, TargetPairs
  <2> QED
    BY <1>4, <2>1, <2>2
<1>10. ErasedExports' /\ ErasedObjects'
  BY <1>1, <1>2, <1>6 DEF Erasure, ErasedExports, ErasedObjects, Puts, Copies
<1>11. CompletedDeletions'
  BY <1>1, <1>3, <1>4 DEF Erasure, CompletedDeletions
<1> QED
  BY <1>7, <1>8, <1>9, <1>10, <1>11 DEF Registration, Erasure

(* Steps that touch no copy, claim or export record.                       *)
LEMMA OthersKeepErased ==
  ASSUME ErasedInv, deletions' = deletions, cleanups' = cleanups, cleaners' = cleaners,
         exports' = exports, objects' = objects, raced' = raced,
         \A o \in Inputs : resources'[o].copies = resources[o].copies,
         \A h \in writers' : h \in writers \/ h.pc = "start"
  PROVE  Registration' /\ Erasure'
<1>1. Registration /\ Erasure
  BY DEF ErasedInv
<1>2. \A j \in Jobs : /\ Writes(j)' => Writes(j)
                      /\ Puts(j)' => Puts(j)
  BY DEF Writes, Puts
<1>3. \A t : Erased(t)' <=> Erased(t)
  BY DEF Erased
<1>4. RegisteredSelf' /\ RegisteredObjects'
  BY <1>1, <1>2 DEF Registration, RegisteredSelf, RegisteredObjects
<1>5. TargetsOfDeletions' /\ ClaimedTargets'
  BY <1>1 DEF Registration, TargetsOfDeletions, ClaimedTargets
<1>6. ErasedExports' /\ ErasedObjects' /\ CompletedDeletions'
  BY <1>1, <1>2, <1>3 DEF Erasure, ErasedExports, ErasedObjects, CompletedDeletions
<1> QED
  BY <1>4, <1>5, <1>6 DEF Registration, Erasure

LEMMA ExportKeepsErased == ErasedInv /\ ExportNext => Registration' /\ Erasure'
<1> SUFFICES ASSUME ErasedInv, ExportNext PROVE Registration' /\ Erasure'
  OBVIOUS
<1>1. RowsTyped
  BY DEF ErasedInv, CopyTyped
<1>2. ASSUME NEW o \in Inputs, Expire(o) PROVE Registration' /\ Erasure'
  <2>1. \A p \in Inputs : resources'[p].copies = resources[p].copies
    BY <1>1, <1>2 DEF Expire, RowsTyped, Resources
  <2> QED
    BY <1>2, <2>1, OthersKeepErased DEF Expire
<1>3. ASSUME NEW o \in Inputs, RequestDeletion(o) PROVE Registration' /\ Erasure'
  BY <1>3, RequestKeepsErased
<1>4. ASSUME NEW j \in Jobs, ExportAcquire(j) PROVE Registration' /\ Erasure'
  BY <1>4, OthersKeepErased DEF ExportAcquire
<1>5. ASSUME NEW j \in Jobs, ExportJobMoves(j) PROVE Registration' /\ Erasure'
  BY <1>5, OthersKeepErased DEF ExportJobMoves, copyVars
<1>6. ASSUME NEW h \in writers, WriterStep(h) PROVE Registration' /\ Erasure'
  BY <1>6, WriterKeepsErased
<1> QED
  BY <1>2, <1>3, <1>4, <1>5, <1>6 DEF ExportNext, WriterStep

LEMMA StutterKeepsErased == ErasedInv /\ UNCHANGED <<job, copyVars>> => Registration' /\ Erasure'
  BY OthersKeepErased DEF copyVars

LEMMA ErasedStep == ErasedInv /\ [CopyNext]_<<job, copyVars>> => ErasedInv'
<1> SUFFICES ASSUME ErasedInv, [CopyNext]_<<job, copyVars>> PROVE ErasedInv'
  OBVIOUS
<1>1. CopyTyped'
  BY CleanStepTyped, ExportStepTyped, StutterTyped DEF ErasedInv, CopyNext
<1>2. Registration' /\ Erasure'
  BY CleanKeepsRegistration, CleanKeepsErasure, ExportKeepsErased, StutterKeepsErased
     DEF CopyNext
<1> QED
  BY <1>1, <1>2 DEF ErasedInv

(* Once the deletion of an input is completed, no export of it can be      *)
(* downloaded and no object of it is in the store, except one that was     *)
(* removed during its put: for any number of inputs, exports, cleaners,    *)
(* crashes, retries and failed removals.                                   *)
THEOREM ErasedStayErased == CopySpec => []ErasedCopiesStayErased
<1>1. JobInit /\ CopyInit => ErasedInv
  BY InitErased
<1>2. ErasedInv /\ [CopyNext]_<<job, copyVars>> => ErasedInv'
  BY ErasedStep
<1>3. ErasedInv => ErasedCopiesStayErased
  BY ErasedInvImplies
<1> QED
  BY <1>1, <1>2, <1>3, PTL DEF CopySpec

-----------------------------------------------------------------------------
(* A deletion that is not over can still end. The argument: "pending" is   *)
(* written only while some target is neither done nor exhausted, and a     *)
(* step on another target leaves that one as it is.                        *)

Open(row) ==
  \/ row.status = "processing"
  \/ row.status \in {"pending", "failed"} /\ row.count < MaxCleanups

FreshTargets == \A t \in Targets : cleanups[t].status = "pending" => cleanups[t].count = 0
OpenTargets ==
  \A o \in Inputs : deletions[o] = "pending" => \E x \in Copies : Open(cleanups[<<o, x>>])
OpenInv == ErasedInv /\ FreshTargets /\ OpenTargets

LEMMA OpenInvImplies == OpenInv => OpenDeletionCanEnd
<1> SUFFICES ASSUME OpenInv, NEW o \in Inputs, deletions[o] = "pending"
             PROVE  \E x \in Copies : <<o, x>> \in Claimable \cup GivenUp \/ cleanups[<<o, x>>].live
  BY DEF OpenDeletionCanEnd
<1>1. PICK x \in Copies : Open(cleanups[<<o, x>>])
  BY DEF OpenInv, OpenTargets
<1>2. <<o, x>> \in Targets
  BY TargetPairs
<1>3. cleanups[<<o, x>>].count \in 0 .. MaxCleanups
  BY <1>2 DEF OpenInv, ErasedInv, CopyTyped, RowsTyped, CleanupRows
<1> QED
  BY <1>1, <1>2, <1>3, CopiesAssumption DEF Open, Claimable, GivenUp, LostLease

(* A refreshed deletion that stays pending has an open target.             *)
LEMMA RefreshedPending ==
  ASSUME NEW t \in [Targets -> CleanupRows], NEW over, NEW o \in Inputs, o \in over,
         \A u \in Targets : t[u].status = "pending" => t[u].count = 0,
         Refreshed(t, over)[o] = "pending"
  PROVE  \E x \in Copies : Open(t[<<o, x>>])
<1> DEFINE of == {t[<<o, x>>] : x \in {y \in Copies : t[<<o, y>>].status # "none"}}
<1>1. /\ ~\A c \in of : c.status = "succeeded"
      /\ ~\E c \in of : c.status = "failed" /\ c.count >= MaxCleanups
  BY DEF Refreshed
<1>2. PICK x \in Copies : /\ t[<<o, x>>].status \notin {"none", "succeeded"}
                          /\ ~(t[<<o, x>>].status = "failed" /\ t[<<o, x>>].count >= MaxCleanups)
  BY <1>1
<1>3. <<o, x>> \in Targets
  BY TargetPairs
<1>4. /\ t[<<o, x>>].status \in {"none", "pending", "processing", "failed", "succeeded"}
      /\ t[<<o, x>>].count \in 0 .. MaxCleanups
  BY <1>3 DEF CleanupRows
<1> QED
  BY <1>2, <1>3, <1>4, CopiesAssumption DEF Open

LEMMA CleanKeepsOpen == OpenInv /\ CleanNext => FreshTargets' /\ OpenTargets'
<1> SUFFICES ASSUME OpenInv, CleanNext PROVE FreshTargets' /\ OpenTargets'
  OBVIOUS
<1>1. RowsTyped /\ StepsTyped /\ FreshTargets /\ OpenTargets
  BY DEF OpenInv, ErasedInv, CopyTyped
<1>2. CopyTyped'
  BY CleanStepTyped DEF OpenInv, ErasedInv
<1>3. CASE Claim
  <2>1. Swept \in [Targets -> CleanupRows]
    BY <1>1, SweptTyped
  <2>2. \A t \in Targets : Swept[t].status = "pending" => Swept[t].count = 0
    <3> SUFFICES ASSUME NEW t \in Targets, Swept[t].status = "pending" PROVE Swept[t].count = 0
      OBVIOUS
    <3>1. t \notin GivenUp
      BY <1>1, SweptTyped
    <3> QED
      BY <1>1, <3>1 DEF Swept, FreshTargets
  <2>3. \A o \in Inputs : deletions'[o] = "pending" => \E x \in Copies : Open(Swept[<<o, x>>])
    <3> SUFFICES ASSUME NEW o \in Inputs, deletions'[o] = "pending"
                 PROVE  \E x \in Copies : Open(Swept[<<o, x>>])
      OBVIOUS
    <3>1. deletions' = Refreshed(Swept, {t[1] : t \in GivenUp})
      BY <1>3 DEF Claim
    <3>2. CASE o \in {t[1] : t \in GivenUp}
      BY <2>1, <2>2, <3>1, <3>2, RefreshedPending
    <3>3. CASE o \notin {t[1] : t \in GivenUp}
      <4>1. deletions[o] = "pending"
        BY <3>1, <3>3, RefreshedFacts
      <4>2. PICK x \in Copies : Open(cleanups[<<o, x>>])
        BY <1>1, <4>1 DEF OpenTargets
      <4>3. <<o, x>> \in Targets /\ <<o, x>>[1] = o
        BY TargetPairs
      <4>4. Swept[<<o, x>>] = cleanups[<<o, x>>]
        BY <3>3, <4>3 DEF Swept
      <4> QED
        BY <4>2, <4>4
    <3> QED
      BY <3>2, <3>3
  <2>4. CASE cleanups' = Swept
    BY <2>2, <2>3, <2>4 DEF FreshTargets, OpenTargets
  <2>5. ASSUME NEW t \in Claimable,
               cleanups' = [Swept EXCEPT ![t] = [status |-> "processing", count |-> @.count + 1,
                                                 live |-> TRUE]]
        PROVE  FreshTargets' /\ OpenTargets'
    <3>1. t \in Targets
      BY DEF Claimable
    <3>2. cleanups'[t].status = "processing"
      BY <2>1, <2>5, <3>1
    <3>3. \A u \in Targets : u # t => cleanups'[u] = Swept[u]
      BY <2>1, <2>5
    <3>4. FreshTargets'
      BY <2>2, <3>2, <3>3 DEF FreshTargets
    <3>5. OpenTargets'
      <4> SUFFICES ASSUME NEW o \in Inputs, deletions'[o] = "pending"
                   PROVE  \E x \in Copies : Open(cleanups'[<<o, x>>])
        BY DEF OpenTargets
      <4>1. PICK x \in Copies : Open(Swept[<<o, x>>])
        BY <2>3
      <4>2. <<o, x>> \in Targets
        BY TargetPairs
      <4>3. Open(cleanups'[<<o, x>>])
        BY <3>2, <3>3, <4>1, <4>2 DEF Open
      <4> QED
        BY <4>3
    <3> QED
      BY <3>4, <3>5
  <2> QED
    BY <1>3, <2>4, <2>5 DEF Claim
<1>4. ASSUME NEW t \in Targets, CleanupLeaseEnds(t) PROVE FreshTargets' /\ OpenTargets'
  <2>1. \A u \in Targets : /\ cleanups'[u].status = cleanups[u].status
                           /\ cleanups'[u].count = cleanups[u].count
    BY <1>1, <1>4 DEF CleanupLeaseEnds, RowsTyped, CleanupRows
  <2>2. deletions' = deletions
    BY <1>4 DEF CleanupLeaseEnds
  <2>3. FreshTargets'
    BY <1>1, <2>1 DEF FreshTargets
  <2>4. OpenTargets'
    <3> SUFFICES ASSUME NEW o \in Inputs, deletions[o] = "pending"
                 PROVE  \E x \in Copies : Open(cleanups'[<<o, x>>])
      BY <2>2 DEF OpenTargets
    <3>1. PICK x \in Copies : Open(cleanups[<<o, x>>])
      BY <1>1 DEF OpenTargets
    <3>2. Open(cleanups'[<<o, x>>])
      BY <2>1, <3>1, TargetPairs DEF Open
    <3> QED
      BY <3>2
  <2> QED
    BY <2>3, <2>4
<1>5. ASSUME UNCHANGED <<cleanups, deletions>> PROVE FreshTargets' /\ OpenTargets'
  BY <1>1, <1>5 DEF FreshTargets, OpenTargets
<1>6. ASSUME NEW c \in cleaners, NEW status \in {"succeeded", "failed"}, Answered(c, status)
      PROVE  FreshTargets' /\ OpenTargets'
  <2>1. CASE UNCHANGED <<cleanups, deletions>>
    BY <1>5, <2>1
  <2>2. CASE ~UNCHANGED <<cleanups, deletions>>
    <3>1. /\ cleanups' = [cleanups EXCEPT ![c.target].status = status, ![c.target].live = FALSE]
          /\ deletions' = Refreshed(cleanups', {c.target[1]})
      BY <1>6, <2>2 DEF Answered
    <3>2. cleanups' \in [Targets -> CleanupRows]
      BY <1>2 DEF CopyTyped, RowsTyped
    <3>3. FreshTargets'
      <4>1. \A u \in Targets :
              /\ cleanups'[u].status = IF u = c.target THEN status ELSE cleanups[u].status
              /\ cleanups'[u].count = cleanups[u].count
        BY <1>1, <3>1 DEF RowsTyped, CleanupRows
      <4> QED
        BY <1>1, <4>1 DEF FreshTargets
    <3>4. OpenTargets'
      <4> SUFFICES ASSUME NEW o \in Inputs, deletions'[o] = "pending"
                   PROVE  \E x \in Copies : Open(cleanups'[<<o, x>>])
        BY DEF OpenTargets
      <4>1. CASE o = c.target[1]
        BY <3>1, <3>2, <3>3, <4>1, RefreshedPending DEF FreshTargets
      <4>2. CASE o # c.target[1]
        <5>1. deletions[o] = "pending"
          BY <3>1, <4>2, RefreshedFacts
        <5>2. PICK x \in Copies : Open(cleanups[<<o, x>>])
          BY <1>1, <5>1 DEF OpenTargets
        <5>3. <<o, x>> \in DOMAIN cleanups /\ <<o, x>> # c.target
          BY <1>1, <4>2, TargetPairs DEF RowsTyped
        <5>4. cleanups'[<<o, x>>] = cleanups[<<o, x>>]
          BY <3>1, <5>3
        <5> QED
          BY <5>2, <5>4
      <4> QED
        BY <4>1, <4>2
    <3> QED
      BY <3>3, <3>4
  <2> QED
    BY <2>1, <2>2
<1>7. ASSUME NEW c \in cleaners, RemoveObject(c) \/ PurgeObservation(c)
      PROVE  FreshTargets' /\ OpenTargets'
  BY <1>5, <1>7 DEF RemoveObject, PurgeObservation
<1> QED
  BY <1>3, <1>4, <1>6, <1>7 DEF CleanNext, Complete, FailCleanup

LEMMA ExportKeepsOpen == OpenInv /\ ExportNext => FreshTargets' /\ OpenTargets'
<1> SUFFICES ASSUME OpenInv, ExportNext PROVE FreshTargets' /\ OpenTargets'
  OBVIOUS
<1>1. RowsTyped /\ Registration /\ FreshTargets /\ OpenTargets
  BY DEF OpenInv, ErasedInv, CopyTyped
<1>2. CASE UNCHANGED <<cleanups, deletions>>
  BY <1>1, <1>2 DEF FreshTargets, OpenTargets
<1>3. ASSUME NEW o \in Inputs, RequestDeletion(o) PROVE FreshTargets' /\ OpenTargets'
  <2>1. \A t \in Targets : cleanups'[t] =
          IF t[1] = o /\ t[2] \in resources[o].copies
            THEN [status |-> "pending", count |-> 0, live |-> FALSE] ELSE cleanups[t]
    BY <1>3 DEF RequestDeletion
  <2>2. FreshTargets'
    BY <1>1, <2>1 DEF FreshTargets
  <2>3. OpenTargets'
    <3> SUFFICES ASSUME NEW p \in Inputs, deletions'[p] = "pending"
                 PROVE  \E x \in Copies : Open(cleanups'[<<p, x>>])
      BY DEF OpenTargets
    <3>1. CASE p = o
      <4>1. Self \in resources[o].copies /\ Self \in Copies
        BY <1>1 DEF Registration, RegisteredSelf, Copies
      <4>2. /\ <<o, Self>> \in Targets
            /\ <<o, Self>>[1] = o /\ <<o, Self>>[2] = Self
        BY <4>1, TargetPairs
      <4>3. cleanups'[<<o, Self>>] = [status |-> "pending", count |-> 0, live |-> FALSE]
        BY <2>1, <4>1, <4>2
      <4> QED
        BY <3>1, <4>1, <4>3, CopiesAssumption DEF Open
    <3>2. CASE p # o
      <4>1. deletions[p] = "pending"
        BY <1>1, <1>3, <3>2 DEF RequestDeletion, RowsTyped
      <4>2. PICK x \in Copies : Open(cleanups[<<p, x>>])
        BY <1>1, <4>1 DEF OpenTargets
      <4>3. <<p, x>> \in Targets /\ <<p, x>>[1] # o
        BY <3>2, TargetPairs
      <4>4. cleanups'[<<p, x>>] = cleanups[<<p, x>>]
        BY <2>1, <4>3
      <4> QED
        BY <4>2, <4>4
    <3> QED
      BY <3>1, <3>2
  <2> QED
    BY <2>2, <2>3
<1>4. CASE ~\E o \in Inputs : RequestDeletion(o)
  BY <1>2, <1>4 DEF ExportNext, Expire, ExportAcquire, ExportJobMoves, copyVars, Attach, BeginPut,
                    Put, CommitExport, RenderFails, FailExport, StopExport, ReportExport, WriterDies
<1> QED
  BY <1>3, <1>4

LEMMA OpenStarts == JobInit /\ CopyInit => OpenInv
<1> SUFFICES ASSUME JobInit, CopyInit PROVE OpenInv
  OBVIOUS
<1>1. FreshTargets /\ OpenTargets
  BY DEF CopyInit, FreshTargets, OpenTargets
<1> QED
  BY <1>1, InitErased DEF OpenInv

LEMMA OpenStep == OpenInv /\ [CopyNext]_<<job, copyVars>> => OpenInv'
<1> SUFFICES ASSUME OpenInv, [CopyNext]_<<job, copyVars>> PROVE OpenInv'
  OBVIOUS
<1>1. ErasedInv'
  BY ErasedStep DEF OpenInv
<1>2. CASE CopyNext
  BY <1>1, <1>2, CleanKeepsOpen, ExportKeepsOpen DEF OpenInv, CopyNext
<1>3. CASE UNCHANGED <<job, copyVars>>
  BY <1>1, <1>3 DEF OpenInv, FreshTargets, OpenTargets, copyVars
<1> QED
  BY <1>2, <1>3

(* An open deletion always has a target that a cleaner may claim, that is  *)
(* leased, or that the next cleaner gives up, whichever cleaners died and  *)
(* however often a removal failed: none waits for ever on nobody.          *)
THEOREM DeletionsCanEnd == CopySpec => []OpenDeletionCanEnd
BY OpenStarts, OpenStep, OpenInvImplies, PTL DEF CopySpec

(* Jobs of other kinds leave the copies as they are.                       *)
LEMMA CopiesElsewhere == OpenInv /\ UNCHANGED copyVars /\ JobsTyped' => OpenInv'
<1> SUFFICES ASSUME OpenInv, UNCHANGED copyVars, JobsTyped' PROVE OpenInv'
  OBVIOUS
<1>1. /\ resources' = resources /\ deletions' = deletions /\ cleanups' = cleanups
      /\ cleaners' = cleaners /\ writers' = writers /\ exports' = exports
      /\ objects' = objects /\ raced' = raced
  BY DEF copyVars
<1>2. CopyTyped'
  BY <1>1 DEF OpenInv, ErasedInv, CopyTyped, RowsTyped, StepsTyped
<1>3. Registration'
  BY <1>1 DEF OpenInv, ErasedInv, Registration, RegisteredSelf, RegisteredObjects, TargetsOfDeletions,
              ClaimedTargets, Writes
<1>4. Erasure'
  BY <1>1 DEF OpenInv, ErasedInv, Erasure, ErasedExports, ErasedObjects, CompletedDeletions, Erased, Puts
<1> QED
  BY <1>1, <1>2, <1>3, <1>4 DEF OpenInv, ErasedInv, FreshTargets, OpenTargets
=============================================================================
