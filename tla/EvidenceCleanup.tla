-------------------------- MODULE EvidenceCleanup --------------------------
(***************************************************************************)
(* Erasing what was collected (evidence/services.py) while it is exported  *)
(* (reports/export_execution.py). A deletion of a resource copies the list *)
(* of its copies into cleanup targets, which cleaners lease, remove and    *)
(* tick off; an export registers its object with every input before it     *)
(* puts the object, so that a later deletion finds it.                     *)
(*                                                                         *)
(* Every export has all inputs, and nothing was derived from them.         *)
(***************************************************************************)
EXTENDS LeasedJob

CONSTANTS
  Inputs,      \* content observations, each an evidence resource
  MaxCleanups  \* MAX_CLEANUP_ATTEMPTS: 6 in the code

(* A job's object and the copy in PostgreSQL are different copies.         *)
ASSUME CopiesAssumption == "observation" \notin Jobs /\ MaxCleanups \in Nat \ {0}

VARIABLES
  resources,  \* evidence_resources: the registered copies, and whether they expired
  deletions,  \* deletion_directives, by status
  cleanups,   \* cleanup_targets
  cleaners,   \* runs of process_due, each with the lease it claimed
  exports,    \* the status of each job's export record
  writers,    \* handlers of the export jobs
  objects,    \* objects in MinIO
  raced       \* history: objects a cleaner removed during their put

copyVars == <<resources, deletions, cleanups, cleaners, exports, writers, objects, raced>>

Self == "observation"  \* the copy in PostgreSQL
Copies == Jobs \cup {Self}
Targets == Inputs \X Copies

-----------------------------------------------------------------------------
(* Faulty variants, each with one plausible mistake, for the mutants that  *)
(* PROJECT.json lists. Nothing here is part of the specification.          *)

RegisteredAfterPut(j) == {Self}

GivenUpTooLate ==
  {t \in Targets : /\ cleanups[t].status = "processing" /\ ~cleanups[t].live
                   /\ cleanups[t].count > MaxCleanups}

ClaimableOnceMore ==
  {t \in Targets : /\ cleanups[t].count <= MaxCleanups
                   /\ \/ cleanups[t].status \in {"pending", "failed"}
                      \/ cleanups[t].status = "processing" /\ ~cleanups[t].live}

-----------------------------------------------------------------------------
CopyTypeOK ==
  /\ resources \in [Inputs -> [copies : SUBSET Copies, expired : BOOLEAN]]
  /\ deletions \in [Inputs -> {"none", "pending", "failed", "completed"}]
  /\ cleanups \in [Targets -> [status : {"none", "pending", "processing", "failed", "succeeded"},
                               count : 0 .. MaxCleanups, live : BOOLEAN]]
  /\ cleaners \subseteq [target : Targets, token : 1 .. MaxCleanups,
                         pc : {"claimed", "removed"}]
  /\ exports \in [Jobs -> {"pending", "running", "succeeded", "blocked", "failed"}]
  /\ writers \subseteq [job : Jobs, epoch : Nat \ {0},
                        pc : {"start", "rendering", "putting", "put", "failing", "report"},
                        failure : {"none", "blocked", "failed"},
                        outcome : {"succeeded", "failed"}]
  /\ objects \subseteq Jobs /\ raced \subseteq Jobs

CopyInit ==
  /\ resources = [o \in Inputs |-> [copies |-> {Self}, expired |-> FALSE]]
  /\ deletions = [o \in Inputs |-> "none"]
  /\ cleanups = [t \in Targets |-> [status |-> "none", count |-> 0, live |-> FALSE]]
  /\ cleaners = {} /\ writers = {}
  /\ exports = [j \in Jobs |-> "pending"]
  /\ objects = {} /\ raced = {}

-----------------------------------------------------------------------------
(* Asking for a deletion: the copies registered now become its targets,    *)
(* under the lock of the resource's row.                                   *)

(* Its time is over; of an input already deleted nobody asks any more.     *)
Expire(o) ==
  /\ ~resources[o].expired /\ deletions[o] = "none"
  /\ resources' = [resources EXCEPT ![o].expired = TRUE]
  /\ UNCHANGED <<job, deletions, cleanups, cleaners, exports, writers, objects, raced>>

(* request_deletion by a person, or expire_due for an expired resource.    *)
RequestDeletion(o) ==
  /\ deletions[o] = "none"
  /\ deletions' = [deletions EXCEPT ![o] = "pending"]
  /\ cleanups' = [t \in Targets |->
                    IF t[1] = o /\ t[2] \in resources[o].copies
                      THEN [status |-> "pending", count |-> 0, live |-> FALSE] ELSE cleanups[t]]
  /\ UNCHANGED <<job, resources, cleaners, exports, writers, objects, raced>>

-----------------------------------------------------------------------------
(* CleanupProcessor.                                                       *)

(* _refresh_deletion of every deletion in over, as the targets t say.      *)
Refreshed(t, over) ==
  [o \in Inputs |->
     LET of == {t[<<o, x>>] : x \in {y \in Copies : t[<<o, y>>].status # "none"}} IN
     IF o \notin over THEN deletions[o]
     ELSE IF \A c \in of : c.status = "succeeded" THEN "completed"
     ELSE IF \E c \in of : c.status = "failed" /\ c.count >= MaxCleanups THEN "failed"
     ELSE "pending"]

LostLease(t) == cleanups[t].status = "processing" /\ ~cleanups[t].live
GivenUp == {t \in Targets : LostLease(t) /\ cleanups[t].count >= MaxCleanups}
Claimable ==
  {t \in Targets : /\ cleanups[t].count < MaxCleanups
                   /\ cleanups[t].status \in {"pending", "failed"} \/ LostLease(t)}

(* A cleaner first gives up the targets whose last lease ended unanswered. *)
Swept == [t \in Targets |->
            IF t \in GivenUp THEN [cleanups[t] EXCEPT !.status = "failed"] ELSE cleanups[t]]

Claim ==
  /\ deletions' = Refreshed(Swept, {t[1] : t \in GivenUp})
  /\ \/ \E t \in Claimable :
          /\ cleanups' = [Swept EXCEPT ![t] = [status |-> "processing", count |-> @.count + 1,
                                               live |-> TRUE]]
          /\ cleaners' = cleaners \cup {[target |-> t, token |-> cleanups[t].count + 1,
                                         pc |-> "claimed"]}
     \/ GivenUp # {} /\ cleanups' = Swept /\ UNCHANGED cleaners
  /\ UNCHANGED <<job, resources, exports, writers, objects, raced>>

CleanupLeaseEnds(t) ==
  /\ cleanups[t].live
  /\ cleanups' = [cleanups EXCEPT ![t].live = FALSE]
  /\ UNCHANGED <<job, resources, deletions, cleaners, exports, writers, objects, raced>>

CleanerGoes(c, pc) == cleaners' = (cleaners \ {c}) \cup {[c EXCEPT !.pc = pc]}

(* The put of an object runs in a transaction that holds the rows of its   *)
(* job and of its export.                                                  *)
InPut(j) == \E h \in writers : h.job = j /\ h.pc \in {"putting", "put"}

(* MinioObjectCleanup: it waits for no row.                                *)
RemoveObject(c) ==
  LET j == c.target[2] IN
  /\ c.pc = "claimed" /\ j # Self
  /\ objects' = objects \ {j}
  /\ raced' = IF InPut(j) THEN raced \cup {j} ELSE raced
  /\ CleanerGoes(c, "removed")
  /\ UNCHANGED <<job, resources, deletions, cleanups, exports, writers>>

(* ContentObservationCleanup: every export of the observation is blocked.  *)
PurgeObservation(c) ==
  /\ c.pc = "claimed" /\ c.target[2] = Self
  /\ \A j \in Jobs : ~InPut(j)
  /\ exports' = [j \in Jobs |-> "blocked"]
  /\ CleanerGoes(c, "removed")
  /\ UNCHANGED <<job, resources, deletions, cleanups, writers, objects, raced>>

(* _complete and _fail, refused when another cleaner claimed the target. A *)
(* removal that raised may have removed.                                   *)
Answered(c, status) ==
  /\ cleaners' = cleaners \ {c}
  /\ IF cleanups[c.target].status = "processing" /\ cleanups[c.target].count = c.token
       THEN /\ cleanups' = [cleanups EXCEPT ![c.target].status = status, ![c.target].live = FALSE]
            /\ deletions' = Refreshed(cleanups', {c.target[1]})
       ELSE UNCHANGED <<cleanups, deletions>>
  /\ UNCHANGED <<job, resources, exports, writers, objects, raced>>

Complete(c) == c.pc = "removed" /\ Answered(c, "succeeded")
FailCleanup(c) == Answered(c, "failed")

-----------------------------------------------------------------------------
(* PrivateExportExecutor.execute.                                          *)

Readable == \A o \in Inputs : ~resources[o].expired /\ deletions[o] = "none"

WriterGoes(h, pc) == writers' = (writers \ {h}) \cup {[h EXCEPT !.pc = pc]}
WriterFails(h, failure) ==
  writers' = (writers \ {h}) \cup {[h EXCEPT !.pc = "failing", !.failure = failure]}
Ended(h, outcome) ==
  writers' = (writers \ {h}) \cup {[h EXCEPT !.pc = "report", !.outcome = outcome]}

ExportAcquire(j) ==
  /\ ~InPut(j) /\ Acquire(j)
  /\ writers' = writers \cup {[job |-> j, epoch |-> job[j].epoch + 1, pc |-> "start",
                               failure |-> "none", outcome |-> "failed"]}
  /\ UNCHANGED <<resources, deletions, cleanups, cleaners, exports, objects, raced>>

(* What the first transaction adds to the copies of each input.            *)
Registered(j) == {Self, j}

Attach(h) ==
  /\ h.pc = "start" /\ MayWork(h.job, h.epoch) /\ ~InPut(h.job)
  /\ IF ~Readable
       THEN WriterFails(h, "blocked") /\ UNCHANGED <<resources, exports>>
     ELSE IF exports[h.job] = "succeeded"
       THEN Ended(h, "succeeded") /\ UNCHANGED <<resources, exports>>
     ELSE /\ resources' = [o \in Inputs |-> [resources[o] EXCEPT !.copies = @ \cup Registered(h.job)]]
          /\ exports' = [exports EXCEPT ![h.job] = "running"]
          /\ WriterGoes(h, "rendering")
  /\ UNCHANGED <<job, deletions, cleanups, cleaners, objects, raced>>

(* The second transaction: its checks, the put, the checks again.          *)
BeginPut(h) ==
  /\ h.pc = "rendering" /\ MayWork(h.job, h.epoch) /\ ~InPut(h.job)
  /\ IF Readable THEN WriterGoes(h, "putting") ELSE WriterFails(h, "blocked")
  /\ UNCHANGED <<job, resources, deletions, cleanups, cleaners, exports, objects, raced>>

(* The store takes the object and may fail to say so, or takes nothing.    *)
Put(h) ==
  /\ h.pc = "putting"
  /\ \/ objects' = objects \cup {h.job} /\ (WriterGoes(h, "put") \/ WriterFails(h, "failed"))
     \/ UNCHANGED objects /\ WriterFails(h, "failed")
  /\ UNCHANGED <<job, resources, deletions, cleanups, cleaners, exports, raced>>

CommitExport(h) ==
  /\ h.pc = "put"
  /\ IF MayWork(h.job, h.epoch) /\ Readable
       THEN exports' = [exports EXCEPT ![h.job] = "succeeded"] /\ Ended(h, "succeeded")
       ELSE WriterFails(h, "blocked") /\ UNCHANGED exports
  /\ UNCHANGED <<job, resources, deletions, cleanups, cleaners, objects, raced>>

(* Rendering raised or took too long.                                      *)
RenderFails(h) ==
  /\ h.pc = "rendering"
  /\ WriterFails(h, "failed")
  /\ UNCHANGED <<job, resources, deletions, cleanups, cleaners, exports, objects, raced>>

(* The failure is stored only under the lease, never over a success. A     *)
(* cancelled or superseded handler stores nothing.                         *)
FailExport(h) ==
  /\ h.pc = "failing" /\ ~InPut(h.job)
  /\ exports' = IF MayWork(h.job, h.epoch) /\ exports[h.job] # "succeeded"
                  THEN [exports EXCEPT ![h.job] = h.failure] ELSE exports
  /\ Ended(h, "failed")
  /\ UNCHANGED <<job, resources, deletions, cleanups, cleaners, objects, raced>>

(* A handler without its lease, or asked to cancel, stops where it checks. *)
StopExport(h) ==
  /\ h.pc \in {"start", "rendering"} /\ ~MayWork(h.job, h.epoch)
  /\ Ended(h, "failed")
  /\ UNCHANGED <<job, resources, deletions, cleanups, cleaners, exports, objects, raced>>

ReportExport(h) ==
  /\ h.pc = "report" /\ ~InPut(h.job)
  /\ writers' = writers \ {h}
  /\ job' = IF Holds(h.job, h.epoch) THEN Released(h.job, h.outcome) ELSE job
  /\ UNCHANGED <<resources, deletions, cleanups, cleaners, exports, objects, raced>>

(* A process that dies takes no further step, unless its parent, who may   *)
(* also have killed it at its deadline or for a cancel, reports for it. One*)
(* that dies in its put frees its rows, and the put may still arrive.      *)
WriterDies(h) ==
  /\ \/ h.pc \in {"putting", "put"} /\ writers' = writers \ {h}
     \/ h.pc # "report" /\ Ended(h, "failed")
  /\ objects' \in {objects} \cup (IF h.pc = "putting" THEN {objects \cup {h.job}} ELSE {})
  /\ UNCHANGED <<job, resources, deletions, cleanups, cleaners, exports, raced>>

ExportJobMoves(j) ==
  /\ LeaseEnds(j) \/ (~InPut(j) /\ (AskCancel(j) \/ RetryByHand(j)))
  /\ UNCHANGED copyVars

CleanNext ==
  \/ Claim
  \/ \E t \in Targets : CleanupLeaseEnds(t)
  \/ \E c \in cleaners :
       \/ RemoveObject(c) \/ PurgeObservation(c) \/ Complete(c)
       \/ FailCleanup(c)

ExportNext ==
  \/ \E o \in Inputs : Expire(o) \/ RequestDeletion(o)
  \/ \E j \in Jobs : ExportAcquire(j) \/ ExportJobMoves(j)
  \/ \E h \in writers :
       \/ Attach(h) \/ BeginPut(h) \/ Put(h) \/ CommitExport(h) \/ RenderFails(h)
       \/ FailExport(h) \/ StopExport(h) \/ ReportExport(h) \/ WriterDies(h)

CopyNext == CleanNext \/ ExportNext

CopySpec == JobInit /\ CopyInit /\ [][CopyNext]_<<job, copyVars>>

-----------------------------------------------------------------------------
(* Once the deletion of an input is completed no export of it can be       *)
(* downloaded and none of its objects is left in the store, whatever       *)
(* crashed, was cancelled, put twice or put with an unknown answer. The    *)
(* exception is an object removed while its put was running, which nothing *)
(* orders: the put may land after the removal.                             *)
ErasedCopiesStayErased ==
  \A o \in Inputs : deletions[o] = "completed" =>
    /\ \A j \in Jobs : exports[j] # "succeeded"
    /\ objects \subseteq raced

(* A deletion that is not over can still end: one of its targets may be    *)
(* claimed, is leased, or will be given up by the next cleaner, whichever  *)
(* of them died and however often a removal failed.                        *)
OpenDeletionCanEnd ==
  \A o \in Inputs : deletions[o] = "pending" =>
    \E x \in Copies : <<o, x>> \in Claimable \cup GivenUp \/ cleanups[<<o, x>>].live
=============================================================================
