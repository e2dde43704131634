-------------------------- MODULE AnalysisLifecycle --------------------------
(***************************************************************************)
(* The life of a single-document analysis: the HTTP handlers that accept   *)
(* and cancel it (src/src/routers/pdf_tasks.py), the runtime that carries  *)
(* it to an executor (src/src/core/task_queue.py), the orchestrator that   *)
(* runs it (src/src/tasks.py), and the two maintenance jobs that look for  *)
(* abandoned rows (src/src/maintenance).  They share the database row, the *)
(* temporary PDF and the events sent to WebSocket clients, and interleave  *)
(* at every await: one action is the code between two awaits that touch    *)
(* shared state.                                                           *)
(***************************************************************************)
EXTENDS AnalysisRow, Naturals

CONSTANTS
    Tasks,          \* task identifiers, one per accepted upload
    Workers,        \* Celery worker processes, or concurrent background tasks
    Runtime,        \* settings.task_runtime
    Jobs,           \* maintenance jobs the operator runs
    Faults,         \* the faults of the environment that may occur
    MaxDeliveries   \* bound: times the broker hands one message to workers

FaultKinds ==
    { "db",         \* a transaction raises and has no effect
      "refresh",    \* the SELECT after a COMMIT raises: effect and exception
      "broadcast",  \* publishing an event raises (or, over Redis, loses it)
      "dispatch",   \* the broker refuses the message
      "revoke",     \* the revocation reaches no worker
      "parse",      \* extraction or scoring raises
      "crash" }     \* a process dies between two steps

ASSUME RuntimeAssumption == Runtime \in {"background", "celery"}
ASSUME JobsAssumption    == Jobs \subseteq {"recovery", "cleanup"}
ASSUME FaultsAssumption  == Faults \subseteq FaultKinds
ASSUME BoundAssumption   == MaxDeliveries \in Nat \ {0}
ASSUME NoTaskAssumption  == "none" \notin Tasks

VARIABLES
    row,        \* row[t]: the analyses row of t
    file,       \* file[t]: the temporary PDF of t exists
    upload,     \* upload[t]: where POST /upload is
    canceller,  \* canceller[t]: where DELETE /cancel/{t} is
    inbox,      \* inbox[t]: deliveries of t not yet taken by a worker
    deliveries, \* deliveries[t]: deliveries of t so far
    revoked,    \* revoked[t]: the workers know t as revoked
    worker,     \* worker[w]: the execution of process_pdf in w
    recovery,   \* the runtime-recovery job
    cleaner,    \* the cleanup job
    told,       \* told[t]: the last event sent to the clients watching t
    asked,      \* history: a cancellation of t has been recorded
    overrun     \* history: phases of t begun after that (at most 2 counted)

vars == <<row, file, upload, canceller, inbox, deliveries, revoked, worker,
          recovery, cleaner, told, asked, overrun>>

requestVars == <<upload, canceller>>
queueVars   == <<inbox, deliveries, revoked>>
jobVars     == <<recovery, cleaner>>
historyVars == <<asked, overrun>>

Phases == {"extracting", "scoring", "analyzing", "finalizing"}
Events == {"extracting", "scoring", "analyzing"} \cup Terminal

NextPhase == [extracting |-> "scoring", scoring |-> "analyzing",
              analyzing  |-> "finalizing", finalizing |-> "finalizing"]

UploadSteps == {"idle", "saved", "created", "failing",
                "accepted", "rejected", "crashed"}
CancelSteps == {"idle", "requested", "recorded"}
WorkerSteps == {"idle", "ensure", "create", "adopt", "touch", "check", "emitPhase",
                "work", "commit", "emitCompleted", "markCancelled",
                "emitCancelled", "markFailed", "emitFailed", "cleanup"}

WorkerType == [step : WorkerSteps, task : Tasks \cup {"none"},
               phase : Phases, filename : SUBSET {"filename"}]
IdleWorker == [step |-> "idle", task |-> "none",
               phase |-> "extracting", filename |-> {}]
FreshRun(t) == [step |-> "ensure", task |-> t,
                phase |-> "extracting", filename |-> {}]

RecoveryType == [step : {"idle", "found", "selected", "announcing"},
                 batch : SUBSET Tasks,
                 loaded : [Tasks -> SUBSET ResultKeys]]
NothingLoaded == [t \in Tasks |-> {}]
IdleRecovery  == [step |-> "idle", batch |-> {}, loaded |-> NothingLoaded]

CleanerType == [step : {"idle", "found"}, batch : SUBSET Tasks]
IdleCleaner == [step |-> "idle", batch |-> {}]

Init ==
    /\ row = [t \in Tasks |-> NoRow]
    /\ file = [t \in Tasks |-> FALSE]
    /\ upload = [t \in Tasks |-> "idle"]
    /\ canceller = [t \in Tasks |-> "idle"]
    /\ inbox = [t \in Tasks |-> 0]
    /\ deliveries = [t \in Tasks |-> 0]
    /\ revoked = [t \in Tasks |-> FALSE]
    /\ worker = [w \in Workers |-> IdleWorker]
    /\ recovery = IdleRecovery
    /\ cleaner = IdleCleaner
    /\ told = [t \in Tasks |-> "none"]
    /\ asked = [t \in Tasks |-> FALSE]
    /\ overrun = [t \in Tasks |-> 0]

SetRow(t, r) == row' = [row EXCEPT ![t] = r]

\* A transaction that would leave row t as r raises instead.  crud.py reads the
\* row again after each COMMIT, so the exception may follow the effect.
Raises(t, r) ==
    \/ "db" \in Faults /\ UNCHANGED row
    \/ "refresh" \in Faults /\ Exists(r) /\ SetRow(t, r)

-----------------------------------------------------------------------------
(* POST /upload *)

\* upload_pdf has validated the upload and written the temporary file.
SaveUpload(t) ==
    /\ upload[t] = "idle"
    /\ upload' = [upload EXCEPT ![t] = "saved"]
    /\ file' = [file EXCEPT ![t] = TRUE]
    /\ UNCHANGED <<row, canceller, queueVars, worker, jobVars, told, historyVars>>

CreateRecord(t) ==
    /\ upload[t] = "saved"
    /\ SetRow(t, CreateAnalysis({"filename"}))
    /\ upload' = [upload EXCEPT ![t] = "created"]
    /\ UNCHANGED <<file, canceller, queueVars, worker, jobVars, told, historyVars>>

\* The requested provider is unknown, or create_analysis raises: the file is
\* removed and the exception goes on to the client.
RejectUpload(t) ==
    /\ upload[t] = "saved"
    /\ \/ UNCHANGED row
       \/ Raises(t, CreateAnalysis({"filename"}))
    /\ file' = [file EXCEPT ![t] = FALSE]
    /\ upload' = [upload EXCEPT ![t] = "rejected"]
    /\ UNCHANGED <<canceller, queueVars, worker, jobVars, told, historyVars>>

\* dispatch_pdf_task: a background task of this response, or a broker message.
Dispatch(t) ==
    /\ upload[t] = "created"
    /\ upload' = [upload EXCEPT ![t] = "accepted"]
    /\ inbox' = [inbox EXCEPT ![t] = @ + 1]
    /\ deliveries' = [deliveries EXCEPT ![t] = @ + 1]
    /\ UNCHANGED <<row, file, canceller, revoked, worker, jobVars, told, historyVars>>

\* apply_async raised: TaskRuntimeError, and the file is removed.
DispatchFails(t) ==
    /\ upload[t] = "created"
    /\ Runtime = "celery" /\ "dispatch" \in Faults
    /\ file' = [file EXCEPT ![t] = FALSE]
    /\ upload' = [upload EXCEPT ![t] = "failing"]
    /\ UNCHANGED <<row, canceller, queueVars, worker, jobVars, told, historyVars>>

RecordDispatchFailure(t) ==
    LET failed == UpdateAnalysis(row[t], "failed", FailedPayload)
    IN  /\ upload[t] = "failing"
        /\ SetRow(t, failed) \/ Raises(t, failed)
        /\ upload' = [upload EXCEPT ![t] = "rejected"]
        /\ UNCHANGED <<file, canceller, queueVars, worker, jobVars, told, historyVars>>

UploadStep(t) ==
    \/ CreateRecord(t)
    \/ RejectUpload(t)
    \/ Dispatch(t)
    \/ DispatchFails(t)
    \/ RecordDispatchFailure(t)

-----------------------------------------------------------------------------
(* DELETE /cancel/{task_id} *)

\* cancel_analysis answers 404 or "Task already finished" unless the row it
\* reads is in progress.
RequestCancel(t) ==
    /\ canceller[t] = "idle"
    /\ row[t].status \in InProgress
    /\ canceller' = [canceller EXCEPT ![t] = "requested"]
    /\ UNCHANGED <<row, file, upload, queueVars, worker, jobVars, told, historyVars>>

\* request_analysis_cancel, then the test that decides on revoking.
RecordCancel(t) ==
    LET recorded == RequestAnalysisCancel(row[t])
    IN  /\ canceller[t] = "requested"
        /\ \/ /\ SetRow(t, recorded)
              /\ canceller' = [canceller EXCEPT ![t] =
                     IF IsCancellationPending(recorded) THEN "recorded" ELSE "idle"]
           \/ /\ Raises(t, recorded)
              /\ canceller' = [canceller EXCEPT ![t] = "idle"]
        /\ asked' = [asked EXCEPT ![t] = @ \/ row'[t].cancelRequested]
        /\ UNCHANGED <<file, upload, queueVars, worker, jobVars, told, overrun>>

\* revoke_runtime_task: nothing to do in background mode; with Celery the
\* revocation is a broadcast to the workers, whose loss is only logged.
RevokeTask(t) ==
    /\ canceller[t] = "recorded"
    /\ canceller' = [canceller EXCEPT ![t] = "idle"]
    /\ \/ Runtime = "background" /\ UNCHANGED revoked
       \/ Runtime = "celery" /\ revoked' = [revoked EXCEPT ![t] = TRUE]
       \/ Runtime = "celery" /\ "revoke" \in Faults /\ UNCHANGED revoked
    /\ UNCHANGED <<row, file, upload, inbox, deliveries, worker, jobVars, told, historyVars>>

CancelStep(t) == RecordCancel(t) \/ RevokeTask(t)

-----------------------------------------------------------------------------
(* The runtime: background tasks of the API process, or Celery *)

\* Mutants: a message that is not in the queue; a message that stays there.
StartWorkUnqueued(w, t) ==
    /\ worker[w].step = "idle"
    /\ upload[t] = "accepted" /\ ~revoked[t]
    /\ inbox' = [inbox EXCEPT ![t] = @ - 1]
    /\ worker' = [worker EXCEPT ![w] = FreshRun(t)]
    /\ UNCHANGED <<row, file, requestVars, deliveries, revoked, jobVars, told, historyVars>>
StartWorkUnacknowledged(w, t) ==
    /\ worker[w].step = "idle"
    /\ inbox[t] > 0 /\ ~revoked[t]
    /\ worker' = [worker EXCEPT ![w] = FreshRun(t)]
    /\ UNCHANGED <<row, file, requestVars, queueVars, jobVars, told, historyVars>>

\* A worker takes a delivery and calls process_pdf.
StartWork(w, t) ==
    /\ worker[w].step = "idle"
    /\ inbox[t] > 0 /\ ~revoked[t]
    /\ inbox' = [inbox EXCEPT ![t] = @ - 1]
    /\ worker' = [worker EXCEPT ![w] = FreshRun(t)]
    /\ UNCHANGED <<row, file, requestVars, deliveries, revoked, jobVars, told, historyVars>>

\* A worker drops a revoked message without calling the task.
DiscardRevoked(w, t) ==
    /\ worker[w].step = "idle"
    /\ inbox[t] > 0 /\ revoked[t]
    /\ inbox' = [inbox EXCEPT ![t] = @ - 1]
    /\ UNCHANGED <<row, file, requestVars, deliveries, revoked, worker, jobVars, told, historyVars>>

\* The broker hands an unacknowledged message out again.
Redeliver(t) ==
    /\ Runtime = "celery"
    /\ inbox[t] > 0 /\ deliveries[t] < MaxDeliveries
    /\ inbox' = [inbox EXCEPT ![t] = @ + 1]
    /\ deliveries' = [deliveries EXCEPT ![t] = @ + 1]
    /\ UNCHANGED <<row, file, requestVars, revoked, worker, jobVars, told, historyVars>>

\* A worker process dies; its message was acknowledged when it started.
WorkerCrash(w) ==
    /\ Runtime = "celery" /\ "crash" \in Faults
    /\ worker[w].step # "idle"
    /\ worker' = [worker EXCEPT ![w] = IdleWorker]
    /\ UNCHANGED <<row, file, requestVars, queueVars, jobVars, told, historyVars>>

\* The API process dies with the requests it serves and, in background mode,
\* with the tasks it runs and those it has not started.
ApiCrash ==
    /\ "crash" \in Faults
    /\ upload' = [t \in Tasks |-> IF upload[t] \in {"saved", "created", "failing"}
                                  THEN "crashed" ELSE upload[t]]
    /\ canceller' = [t \in Tasks |-> "idle"]
    /\ IF Runtime = "background"
       THEN /\ worker' = [w \in Workers |-> IdleWorker]
            /\ inbox' = [t \in Tasks |-> 0]
       ELSE UNCHANGED <<worker, inbox>>
    /\ UNCHANGED <<row, file, deliveries, revoked, jobVars, told, historyVars>>

-----------------------------------------------------------------------------
(* process_pdf *)

At(w, step) == worker[w].step = step
Task(w)     == worker[w].task
Goto(w, step) == worker' = [worker EXCEPT ![w].step = step]

\* One transaction of the worker: it commits and the worker goes on, or it
\* raises and the worker goes where the exception is handled.
Transaction(w, r, next, handler) ==
    \/ SetRow(Task(w), r) /\ Goto(w, next)
    \/ Raises(Task(w), r) /\ Goto(w, handler)

\* broadcast_task_event.  In background mode it walks the live set of sockets
\* and an exception reaches the caller, after some clients may have got the
\* event; over Redis an exception is logged and the event is lost.
Broadcast(w, event, next, handler) ==
    \/ told' = [told EXCEPT ![Task(w)] = event] /\ Goto(w, next)
    \/ /\ "broadcast" \in Faults
       /\ IF Runtime = "celery"
          THEN UNCHANGED told /\ Goto(w, next)
          ELSE /\ UNCHANGED told \/ told' = [told EXCEPT ![Task(w)] = event]
               /\ Goto(w, handler)

\* Mutant: an early return that passes the finally clause by.
EnsureExistsNoFinally(w) ==
    /\ At(w, "ensure")
    /\ \/ Goto(w, IF Exists(row[Task(w)]) THEN "touch" ELSE "create")
       \/ "db" \in Faults /\ worker' = [worker EXCEPT ![w] = IdleWorker]
    /\ UNCHANGED <<row, file, requestVars, queueVars, jobVars, told, historyVars>>

\* _ensure_analysis_exists: a database error ends the run without an outcome.
EnsureExists(w) ==
    /\ At(w, "ensure")
    /\ \/ Goto(w, IF Exists(row[Task(w)]) THEN "touch" ELSE "create")
       \/ "db" \in Faults /\ Goto(w, "cleanup")
    /\ UNCHANGED <<row, file, requestVars, queueVars, jobVars, told, historyVars>>

CreateMissing(w) ==
    /\ At(w, "create")
    /\ IF Exists(row[Task(w)])
       THEN Goto(w, "adopt") /\ UNCHANGED row
       ELSE Transaction(w, CreateAnalysis({}), "touch", "cleanup")
    /\ UNCHANGED <<file, requestVars, queueVars, jobVars, told, historyVars>>

\* Another process inserted the row first: it is set back to processing.
AdoptExisting(w) ==
    LET r == row[Task(w)]
    IN  /\ At(w, "adopt")
        /\ Transaction(w, UpdateAnalysis(r, "processing", r.result),
                       IF Exists(r) THEN "touch" ELSE "cleanup", "markFailed")
        /\ UNCHANGED <<file, requestVars, queueVars, jobVars, told, historyVars>>

\* Every phase begins with a checkpoint: heartbeat, then cancellation.
TouchRuntime(w) ==
    /\ At(w, "touch")
    /\ Transaction(w, TouchHeartbeat(row[Task(w)]), "check", "markFailed")
    /\ UNCHANGED <<file, requestVars, queueVars, jobVars, told, historyVars>>

CheckCancel(w) ==
    /\ At(w, "check")
    /\ \/ Goto(w, IF IsCancellationPending(row[Task(w)]) THEN "markCancelled"
                  ELSE IF worker[w].phase = "finalizing" THEN "commit"
                  ELSE "emitPhase")
       \/ "db" \in Faults /\ Goto(w, "markFailed")
    /\ UNCHANGED <<row, file, requestVars, queueVars, jobVars, told, historyVars>>

BeginPhase(w) ==
    /\ At(w, "emitPhase")
    /\ Broadcast(w, worker[w].phase, "work", "markFailed")
    /\ overrun' = [overrun EXCEPT ![Task(w)] =
           IF asked[Task(w)] /\ worker'[w].step = "work" /\ @ < 2 THEN @ + 1 ELSE @]
    /\ UNCHANGED <<row, file, requestVars, queueVars, jobVars, asked>>

\* The body of a phase.  Extraction reads the file, and takes one that is gone for
\* an empty document, as each of its readers catches what it cannot open; scoring
\* reads the filename from the row; the AI phase turns its failures into a note.
FinishPhase(w) ==
    LET t == Task(w)
        phase == worker[w].phase
    IN  /\ At(w, "work")
        /\ \/ worker' = [worker EXCEPT ![w].step = "touch",
                                       ![w].phase = NextPhase[phase],
                                       ![w].filename =
                 IF phase = "scoring" THEN row[t].result \cap {"filename"} ELSE @]
           \/ /\ phase \in {"extracting", "scoring"} /\ "parse" \in Faults
              /\ Goto(w, "markFailed")
           \/ /\ phase = "scoring" /\ "db" \in Faults
              /\ Goto(w, "markFailed")
        /\ UNCHANGED <<row, file, requestVars, queueVars, jobVars, told, historyVars>>

\* Mutant: the event first, then the row.
CommitResultLate(w) ==
    /\ At(w, "commit")
    /\ IF told[Task(w)] # "completed"
       THEN /\ told' = [told EXCEPT ![Task(w)] = "completed"]
            /\ UNCHANGED <<row, worker>>
       ELSE /\ Transaction(w, UpdateAnalysis(row[Task(w)], "completed",
                                             {"data"} \cup worker[w].filename),
                           "cleanup", "markFailed")
            /\ UNCHANGED told
    /\ UNCHANGED <<file, requestVars, queueVars, jobVars, historyVars>>

\* _finalize_task: the row first, then the event.
CommitResult(w) ==
    /\ At(w, "commit")
    /\ Transaction(w, UpdateAnalysis(row[Task(w)], "completed",
                                     {"data"} \cup worker[w].filename),
                   "emitCompleted", "markFailed")
    /\ UNCHANGED <<file, requestVars, queueVars, jobVars, told, historyVars>>

AnnounceCompleted(w) ==
    /\ At(w, "emitCompleted")
    /\ Broadcast(w, "completed", "cleanup", "markFailed")
    /\ UNCHANGED <<row, file, requestVars, queueVars, jobVars, historyVars>>

\* _finalize_analysis_cancellation: the row first, then the event.
CommitCancellation(w) ==
    /\ At(w, "markCancelled")
    /\ Transaction(w, MarkAnalysisCancelled(row[Task(w)]), "emitCancelled", "markFailed")
    /\ UNCHANGED <<file, requestVars, queueVars, jobVars, told, historyVars>>

AnnounceCancelled(w) ==
    /\ At(w, "emitCancelled")
    /\ Broadcast(w, "cancelled", "cleanup", "markFailed")
    /\ UNCHANGED <<row, file, requestVars, queueVars, jobVars, historyVars>>

\* _handle_task_failure: any exception of the run ends here, and its own
\* exceptions are only logged.
CommitFailure(w) ==
    /\ At(w, "markFailed")
    /\ Transaction(w, UpdateAnalysis(row[Task(w)], "failed", FailedPayload),
                   "emitFailed", "cleanup")
    /\ UNCHANGED <<file, requestVars, queueVars, jobVars, told, historyVars>>

AnnounceFailed(w) ==
    /\ At(w, "emitFailed")
    /\ Broadcast(w, "failed", "cleanup", "cleanup")
    /\ UNCHANGED <<row, file, requestVars, queueVars, jobVars, historyVars>>

\* The finally clause.
CleanupTempFile(w) ==
    /\ At(w, "cleanup")
    /\ file' = [file EXCEPT ![Task(w)] = FALSE]
    /\ worker' = [worker EXCEPT ![w] = IdleWorker]
    /\ UNCHANGED <<row, requestVars, queueVars, jobVars, told, historyVars>>

WorkerStep(w) ==
    \/ EnsureExists(w)
    \/ CreateMissing(w)
    \/ AdoptExisting(w)
    \/ TouchRuntime(w)
    \/ CheckCancel(w)
    \/ BeginPhase(w)
    \/ FinishPhase(w)
    \/ CommitResult(w)
    \/ AnnounceCompleted(w)
    \/ CommitCancellation(w)
    \/ AnnounceCancelled(w)
    \/ CommitFailure(w)
    \/ AnnounceFailed(w)
    \/ CleanupTempFile(w)

-----------------------------------------------------------------------------
(* Maintenance jobs, run from the command line *)

\* The row of t passes the age limit of the recovery job, or of the cleanup job.
HeartbeatExpires(t) ==
    /\ "recovery" \in Jobs
    /\ row[t].status \in InProgress /\ ~row[t].stale
    /\ SetRow(t, [row[t] EXCEPT !.stale = TRUE])
    /\ UNCHANGED <<file, requestVars, queueVars, worker, jobVars, told, historyVars>>

RowAges(t) ==
    /\ "cleanup" \in Jobs
    /\ Exists(row[t]) /\ ~row[t].old
    /\ SetRow(t, [row[t] EXCEPT !.old = TRUE])
    /\ UNCHANGED <<file, requestVars, queueVars, worker, jobVars, told, historyVars>>

\* mark_stale_analyses_failed, first transaction: a batch of candidates.
RecoveryFind ==
    /\ "recovery" \in Jobs /\ recovery.step = "idle"
    /\ \E batch \in SUBSET {t \in Tasks : IsRuntimeStale(row[t])} :
          /\ batch # {}
          /\ recovery' = [IdleRecovery EXCEPT !.step = "found", !.batch = batch]
    /\ UNCHANGED <<row, file, requestVars, queueVars, worker, cleaner, told, historyVars>>

\* Second transaction: SELECT with the same filter ...
RecoverySelect ==
    LET rows == {t \in recovery.batch : IsRuntimeStale(row[t])}
    IN  /\ recovery.step = "found"
        /\ recovery' = IF rows = {} THEN IdleRecovery
                       ELSE [step |-> "selected", batch |-> rows,
                             loaded |-> [t \in Tasks |-> IF t \in rows
                                                         THEN row[t].result ELSE {}]]
        /\ UNCHANGED <<row, file, requestVars, queueVars, worker, cleaner, told, historyVars>>

\* ... then UPDATE and COMMIT.  A row deleted meanwhile aborts the whole batch.
RecoveryCommit ==
    /\ recovery.step = "selected"
    /\ IF \A t \in recovery.batch : Exists(row[t])
       THEN /\ row' = [t \in Tasks |-> IF t \in recovery.batch
                                       THEN MarkStaleFailed(row[t], recovery.loaded[t])
                                       ELSE row[t]]
            /\ recovery' = [recovery EXCEPT !.step = "announcing",
                                            !.loaded = NothingLoaded]
       ELSE recovery' = IdleRecovery /\ UNCHANGED row
    /\ UNCHANGED <<file, requestVars, queueVars, worker, cleaner, told, historyVars>>

\* One event per row.  The job is a process of its own: without the Redis
\* bridge its events reach nobody.
RecoveryAnnounce(t) ==
    /\ recovery.step = "announcing" /\ t \in recovery.batch
    /\ recovery' = IF recovery.batch = {t} THEN IdleRecovery
                   ELSE [recovery EXCEPT !.batch = @ \ {t}]
    /\ \/ Runtime = "celery" /\ told' = [told EXCEPT ![t] = "failed"]
       \/ Runtime = "background" /\ UNCHANGED told
       \/ Runtime = "celery" /\ "broadcast" \in Faults /\ UNCHANGED told
    /\ UNCHANGED <<row, file, requestVars, queueVars, worker, cleaner, historyVars>>

\* A transaction of the job raises; the job ends without an effect.
RecoveryAborts ==
    /\ "db" \in Faults /\ recovery.step \in {"found", "selected"}
    /\ recovery' = IdleRecovery
    /\ UNCHANGED <<row, file, requestVars, queueVars, worker, cleaner, told, historyVars>>

RecoveryStep ==
    \/ RecoveryFind
    \/ RecoverySelect
    \/ RecoveryCommit
    \/ \E t \in Tasks : RecoveryAnnounce(t)

\* cleanup_analyses: candidates, then one DELETE that repeats the filter.
CleanerFind ==
    /\ "cleanup" \in Jobs /\ cleaner.step = "idle"
    /\ \E batch \in SUBSET {t \in Tasks : IsCleanupCandidate(row[t])} :
          /\ batch # {}
          /\ cleaner' = [step |-> "found", batch |-> batch]
    /\ UNCHANGED <<row, file, requestVars, queueVars, worker, recovery, told, historyVars>>

\* Mutant: the DELETE does not repeat the filter.
CleanerDeleteUnfiltered ==
    /\ cleaner.step = "found"
    /\ row' = [t \in Tasks |-> IF t \in cleaner.batch THEN NoRow ELSE row[t]]
    /\ cleaner' = IdleCleaner
    /\ UNCHANGED <<file, requestVars, queueVars, worker, recovery, told, historyVars>>

CleanerDelete ==
    /\ cleaner.step = "found"
    /\ row' = [t \in Tasks |-> IF t \in cleaner.batch /\ IsCleanupCandidate(row[t])
                               THEN NoRow ELSE row[t]]
    /\ cleaner' = IdleCleaner
    /\ UNCHANGED <<file, requestVars, queueVars, worker, recovery, told, historyVars>>

-----------------------------------------------------------------------------
Next ==
    \/ \E t \in Tasks :
          \/ SaveUpload(t)
          \/ UploadStep(t)
          \/ RequestCancel(t)
          \/ CancelStep(t)
          \/ Redeliver(t)
          \/ HeartbeatExpires(t)
          \/ RowAges(t)
    \/ \E w \in Workers :
          \/ \E t \in Tasks : StartWork(w, t) \/ DiscardRevoked(w, t)
          \/ WorkerStep(w)
          \/ WorkerCrash(w)
    \/ ApiCrash
    \/ RecoveryStep
    \/ RecoveryAborts
    \/ CleanerFind
    \/ CleanerDelete

Spec == Init /\ [][Next]_vars

\* Handlers, workers and jobs run on; clients, the clock and the faults need not.
\* A job is run again and again, so an outage does not abort every attempt.
Fairness ==
    /\ \A t \in Tasks :
          /\ WF_vars(UploadStep(t))
          /\ WF_vars(CancelStep(t))
          /\ WF_vars(\E w \in Workers : StartWork(w, t) \/ DiscardRevoked(w, t))
          /\ WF_vars(HeartbeatExpires(t))
    /\ \A w \in Workers : WF_vars(WorkerStep(w))
    /\ WF_vars(RecoveryStep) /\ SF_vars(RecoverySelect) /\ SF_vars(RecoveryCommit)

FairSpec == Spec /\ Fairness

-----------------------------------------------------------------------------
(* Properties *)

TypeOK ==
    /\ row \in [Tasks -> RowType]
    /\ file \in [Tasks -> BOOLEAN]
    /\ upload \in [Tasks -> UploadSteps]
    /\ canceller \in [Tasks -> CancelSteps]
    /\ inbox \in [Tasks -> Nat]
    /\ deliveries \in [Tasks -> Nat]
    /\ revoked \in [Tasks -> BOOLEAN]
    /\ worker \in [Workers -> WorkerType]
    /\ \A w \in Workers :
          /\ worker[w].step # "idle" => Task(w) \in Tasks
          /\ worker[w].step \in {"emitPhase", "work"} => worker[w].phase # "finalizing"
    /\ recovery \in RecoveryType
    /\ cleaner \in CleanerType
    /\ told \in [Tasks -> Events \cup {"none"}]
    /\ asked \in [Tasks -> BOOLEAN]
    /\ overrun \in [Tasks -> 0..2]

Executing(t) == \E w \in Workers : worker[w].step # "idle" /\ Task(w) = t

\* A row is cancelled only if a client's cancellation of that task was recorded
\* (the worker cancels on what it reads at a checkpoint, _maybe_cancel_analysis).
CancelledOnlyIfAsked ==
    \A t \in Tasks : row[t].status = "cancelled" => asked[t]

\* What GET /result returns fits its status whoever wrote the row last: data and
\* no error with "completed", an error and no data with the other outcomes, and
\* the name of the document with a completed or a cancelled analysis, though the
\* run replaces the result (it reads the name back first, _load_analysis_filename).
OutcomeMatchesResult ==
    \A t \in Tasks :
       /\ row[t].status = "completed" => "data" \in row[t].result /\ "error" \notin row[t].result
       /\ row[t].status \in {"failed", "cancelled"}
             => "error" \in row[t].result /\ "data" \notin row[t].result
       /\ row[t].status \in {"completed", "cancelled"} => "filename" \in row[t].result

\* A step that rejects a request or ends a run leaves no temporary file, whichever
\* exit it takes; only a crash leaves it behind (tasks.py:482-499,
\* pdf_tasks.py:157-186).
LeavesNoFile ==
    /\ \A w \in Workers :
          worker[w].step # "idle" /\ worker'[w].step = "idle"
             => ~file'[Task(w)] \/ WorkerCrash(w) \/ ApiCrash
    /\ \A t \in Tasks : upload'[t] = "rejected" => ~file'[t]

\* The file is there for a run that extracts, and gone with it.
FileLivesWithRun ==
    [][/\ \A w \in Workers :
            worker[w].step # "idle" /\ worker[w].phase = "extracting" => file[Task(w)]
       /\ LeavesNoFile]_vars

\* After a cancellation is recorded the run begins at most one more phase, the
\* one whose checkpoint had been passed.
CancelStopsWithinOnePhase ==
    \A t \in Tasks : overrun[t] < 2

\* A client told of an outcome finds that outcome when it reads the row.
ToldMatchesRow ==
    \A t \in Tasks : told[t] \in Terminal => row[t].status = told[t]

\* A completed, failed or cancelled row never changes its status.
TerminalIsFinal ==
    [][\A t \in Tasks : row[t].status \in Terminal => row'[t].status = row[t].status]_vars

\* Cleanup deletes no finished analysis, though it picks its rows in one
\* transaction and deletes them in another.
HistoryKept ==
    [][\A t \in Tasks : row[t].status \in Terminal => Exists(row'[t])]_vars

\* The recovery job fails only rows that are in progress when it writes them.
RecoveryFailsOnlyInProgress ==
    [][RecoveryCommit => \A t \in recovery.batch :
          row'[t] # row[t] => row[t].status \in InProgress]_vars

\* An accepted analysis does not stay in progress for ever.
EventuallySettled ==
    \A t \in Tasks : row[t].status \in InProgress ~> row[t].status \notin InProgress

-----------------------------------------------------------------------------
(* Refinement *)

\* The conditions under which one run alone decides the outcome of a task.
Undisturbed ==
    /\ Jobs = {} /\ MaxDeliveries = 1
    /\ "refresh" \notin Faults
    /\ Runtime = "background" => "broadcast" \notin Faults

BeforeOutcome == {"ensure", "touch", "check", "emitPhase", "work",
                  "commit", "markCancelled", "markFailed"}
OutcomeAt == [emitCompleted |-> "completed", emitCancelled |-> "cancelled",
              emitFailed |-> "failed"]

\* Who may still decide the outcome of t: the upload request before the run is
\* handed over, then the one delivery, then the one run, then nobody.
UploadDecides(t) ==
    /\ row[t].status # "uploading"
    /\ upload[t] \in {"idle", "saved"} => row[t] = NoRow
    /\ upload[t] \in {"created", "failing"} => row[t].status = "processing"
    /\ upload[t] # "accepted" =>
          deliveries[t] = 0 /\ inbox[t] = 0 /\ ~Executing(t) /\ told[t] = "none"
    /\ upload[t] = "accepted" => Exists(row[t]) /\ deliveries[t] = 1

DeliveryDecides(t) ==
    /\ inbox[t] \in {0, 1}
    /\ inbox[t] = 1 => ~Executing(t) /\ row[t].status = "processing" /\ told[t] = "none"

RunDecides(w) ==
    LET t == Task(w)
        step == worker[w].step
    IN  /\ step \in BeforeOutcome \cup DOMAIN OutcomeAt \cup {"idle", "cleanup"}
        /\ step \in BeforeOutcome => row[t].status = "processing" /\ told[t] \notin Terminal
        /\ step = "markCancelled" => row[t].cancelRequested
        /\ step \in DOMAIN OutcomeAt =>
              row[t].status = OutcomeAt[step] /\ told[t] \notin Terminal

OneRunPerTask ==
    \A v, w \in Workers :
       worker[v].step # "idle" /\ worker[w].step # "idle" /\ Task(v) = Task(w) => v = w

\* The inductive invariant of an undisturbed system: no two parties can decide
\* the outcome of one task, whatever is cancelled, lost or crashes.
OneDecides ==
    /\ recovery.step = "idle" /\ cleaner.step = "idle"
    /\ \A t \in Tasks : UploadDecides(t) /\ DeliveryDecides(t)
    /\ \A w \in Workers : RunDecides(w)
    /\ OneRunPerTask
    /\ ToldMatchesRow

ClientStatus(r)    == IF Exists(r) THEN r.status ELSE "none"
ClientHeard(event) == IF event \in Terminal THEN event ELSE "none"

Contract == INSTANCE AnalysisContract WITH
    status <- [t \in Tasks |-> ClientStatus(row[t])],
    wanted <- [t \in Tasks |-> row[t].cancelRequested],
    heard  <- [t \in Tasks |-> ClientHeard(told[t])]

\* The implementation keeps the client's contract.
KeepsContract == Contract!Spec
=============================================================================
