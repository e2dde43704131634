---------------------------- MODULE MultiSession ----------------------------
(***************************************************************************)
(* The life of one multi-period session: the requests that start and       *)
(* cancel it (src/src/routers/multi_analysis.py), its delivery to an       *)
(* executor (src/src/core/task_queue.py), process_multi_analysis           *)
(* (src/src/tasks.py), and the session halves of the maintenance jobs.     *)
(* Sessions share no state with one another, so one is enough; the runs    *)
(* that interleave are the deliveries of its message.  One action is the   *)
(* code between two awaits that touch shared state.                        *)
(***************************************************************************)
EXTENDS SessionRow, FiniteSets

CONSTANTS
    Deliveries,   \* the deliveries of the session's message: one run each
    Runtime,      \* settings.task_runtime
    Jobs,         \* maintenance jobs the operator runs
    Faults        \* the faults of the environment that may occur

FaultKinds ==
    { "db",         \* a transaction of a handler or a run raises and has no effect
      "jobdb",      \* a transaction of the recovery job does
      "refresh",    \* the SELECT after a COMMIT raises: effect and exception
      "broadcast",  \* publishing an event raises (or, over Redis, loses it)
      "dispatch",   \* the broker refuses the message
      "revoke",     \* the revocation reaches no worker
      "parse",      \* the extraction of a document raises
      "timeout",    \* the session takes longer than _MULTI_ANALYSIS_TIMEOUT
      "crash" }     \* a process dies between two steps

ASSUME DeliveriesAssumption == Deliveries # {}
ASSUME RuntimeAssumption    == Runtime \in {"background", "celery"}
ASSUME JobsAssumption       == Jobs \subseteq {"recovery", "cleanup"}
ASSUME FaultsAssumption     == Faults \subseteq FaultKinds

VARIABLES
    row,        \* the row of the session
    file,       \* file[i]: the temporary PDF of period i exists
    request,    \* where POST /multi-analysis is
    saved,      \* documents it has saved so far
    canceller,  \* where DELETE /multi-analysis/{id} is
    revoked,    \* the workers know the session as revoked
    run,        \* run[d]: the execution of process_multi_analysis for d
    recovery,   \* the runtime-recovery job
    cleaner,    \* the cleanup job
    told,       \* what the last event told the clients watching the session
    asked,      \* history: a cancellation has been recorded
    overrun     \* history: periods begun after that (at most 2 counted)

vars == <<row, file, request, saved, canceller, revoked, run, recovery,
          cleaner, told, asked, overrun>>

requestVars == <<request, saved, canceller>>
jobVars     == <<recovery, cleaner>>
historyVars == <<asked, overrun>>

RequestSteps == {"saving", "created", "failing", "accepted",
                 "rejected", "crashed"}
CancelSteps  == {"idle", "requested", "recorded"}
RunSteps == {"unsent", "queued", "start", "touchStart", "checkStart", "check",
             "extract", "touchPeriod", "record", "touchRecorded", "emitProgress",
             "touchCollect", "touchCollected", "commit", "emitOutcome",
             "cancel", "emitCancelled", "cleanup", "over", "lost"}

RunType  == [step : RunSteps, done : 0..Total, failed : SUBSET Periods]
Unsent   == [step |-> "unsent", done |-> 0, failed |-> {}]

RecoveryType == [step : {"idle", "found", "selected", "announcing"},
                 good : SUBSET Periods, bad : SUBSET Periods]
IdleRecovery == [step |-> "idle", good |-> {}, bad |-> {}]

ToldType == [status : {"none", "processing"} \cup Terminal, completed : 0..Total]

Init ==
    /\ row = NoSession
    /\ file = [i \in Periods |-> FALSE]
    /\ request = "saving"
    /\ saved = 0
    /\ canceller = "idle"
    /\ revoked = FALSE
    /\ run = [d \in Deliveries |-> Unsent]
    /\ recovery = IdleRecovery
    /\ cleaner = "idle"
    /\ told = [status |-> "none", completed |-> 0]
    /\ asked = FALSE
    /\ overrun = 0

\* A transaction that would leave the row as r raises instead.
Raises(r) ==
    \/ "db" \in Faults /\ UNCHANGED row
    \/ "refresh" \in Faults /\ Exists(r) /\ row' = r

-----------------------------------------------------------------------------
(* POST /multi-analysis *)

\* The documents are validated and saved one after another.
SaveDocument ==
    /\ request = "saving" /\ saved < Total
    /\ saved' = saved + 1
    /\ file' = [file EXCEPT ![saved + 1] = TRUE]
    /\ UNCHANGED <<row, request, canceller, revoked, run, jobVars, told, historyVars>>

CreateRecord ==
    /\ request = "saving" /\ saved = Total
    /\ row' = CreateSession
    /\ request' = "created"
    /\ UNCHANGED <<file, saved, canceller, revoked, run, jobVars, told, historyVars>>

\* A document is refused, or create_multi_session raises; finally removes the
\* files saved so far.
RejectRequest ==
    /\ request = "saving"
    /\ \/ saved < Total /\ UNCHANGED row
       \/ saved = Total /\ Raises(CreateSession)
    /\ file' = [i \in Periods |-> FALSE]
    /\ request' = "rejected"
    /\ UNCHANGED <<saved, canceller, revoked, run, jobVars, told, historyVars>>

\* dispatch_multi_analysis_task: a background task, or a broker message.
Dispatch(d) ==
    /\ request = "created" /\ run[d].step = "unsent"
    /\ run' = [run EXCEPT ![d].step = "queued"]
    /\ request' = "accepted"
    /\ UNCHANGED <<row, file, saved, canceller, revoked, jobVars, told, historyVars>>

DispatchFails ==
    /\ request = "created"
    /\ Runtime = "celery" /\ "dispatch" \in Faults
    /\ request' = "failing"
    /\ UNCHANGED <<row, file, saved, canceller, revoked, run, jobVars, told, historyVars>>

\* except TaskRuntimeError, then finally.
RecordDispatchFailure ==
    LET failed == UpdateSession(row, "failed", 0, {}, {})
    IN  /\ request = "failing"
        /\ row' = failed \/ Raises(failed)
        /\ file' = [i \in Periods |-> FALSE]
        /\ request' = "rejected"
        /\ UNCHANGED <<saved, canceller, revoked, run, jobVars, told, historyVars>>

RequestStep ==
    \/ SaveDocument
    \/ CreateRecord
    \/ RejectRequest
    \/ \E d \in Deliveries : Dispatch(d)
    \/ DispatchFails
    \/ RecordDispatchFailure

-----------------------------------------------------------------------------
(* DELETE /multi-analysis/{session_id} *)

\* cancel_multi_analysis answers "already finished" unless the row it reads is
\* in progress.
RequestCancel ==
    /\ canceller = "idle"
    /\ InProgress(row)
    /\ canceller' = "requested"
    /\ UNCHANGED <<row, file, request, saved, revoked, run, jobVars, told, historyVars>>

RecordCancel ==
    LET recorded == RequestSessionCancel(row)
    IN  /\ canceller = "requested"
        /\ \/ /\ row' = recorded
              /\ canceller' = IF IsSessionCancelPending(recorded) THEN "recorded" ELSE "idle"
           \/ /\ Raises(recorded)
              /\ canceller' = "idle"
        /\ asked' = (asked \/ row'.cancelRequested)
        /\ UNCHANGED <<file, request, saved, revoked, run, jobVars, told, overrun>>

RevokeTask ==
    /\ canceller = "recorded"
    /\ canceller' = "idle"
    /\ \/ Runtime = "background" /\ UNCHANGED revoked
       \/ Runtime = "celery" /\ revoked' = TRUE
       \/ Runtime = "celery" /\ "revoke" \in Faults /\ UNCHANGED revoked
    /\ UNCHANGED <<row, file, request, saved, run, jobVars, told, historyVars>>

CancelStep == RecordCancel \/ RevokeTask

-----------------------------------------------------------------------------
(* The runtime *)

At(d, step)   == run[d].step = step
Goto(d, step) == run' = [run EXCEPT ![d].step = step]

StartRun(d) ==
    /\ At(d, "queued") /\ ~revoked
    /\ Goto(d, "start")
    /\ UNCHANGED <<row, file, requestVars, revoked, jobVars, told, historyVars>>

\* A worker drops a revoked message without calling the task.
DiscardRevoked(d) ==
    /\ At(d, "queued") /\ revoked
    /\ Goto(d, "lost")
    /\ UNCHANGED <<row, file, requestVars, revoked, jobVars, told, historyVars>>

\* The broker hands an unacknowledged message out again.
Redeliver(d) ==
    /\ Runtime = "celery"
    /\ At(d, "unsent") /\ \E e \in Deliveries : At(e, "queued")
    /\ Goto(d, "queued")
    /\ UNCHANGED <<row, file, requestVars, revoked, jobVars, told, historyVars>>

WorkerCrash(d) ==
    /\ Runtime = "celery" /\ "crash" \in Faults
    /\ run[d].step \notin {"unsent", "queued", "over", "lost"}
    /\ Goto(d, "lost")
    /\ UNCHANGED <<row, file, requestVars, revoked, jobVars, told, historyVars>>

\* The API process dies, in background mode with the run it serves.
ApiCrash ==
    /\ "crash" \in Faults
    /\ request' = IF request \in {"saving", "created", "failing"} THEN "crashed" ELSE request
    /\ canceller' = "idle"
    /\ run' = IF Runtime = "background"
              THEN [d \in Deliveries |-> IF At(d, "unsent") \/ At(d, "over") THEN run[d]
                                         ELSE [run[d] EXCEPT !.step = "lost"]]
              ELSE run
    /\ UNCHANGED <<row, file, saved, revoked, jobVars, told, historyVars>>

-----------------------------------------------------------------------------
(* process_multi_analysis *)

Done(d)   == run[d].done
Bad(d)    == run[d].failed
Good(d)   == 1..Done(d) \ Bad(d)
Outcome(d) == IF Bad(d) = Periods THEN "failed" ELSE "completed"

\* One transaction of the run: it commits and the run goes on, or it raises and
\* the run ends.  There is no handler: the finally clause removes the files.
Transaction(d, r, next) ==
    \/ row' = r /\ Goto(d, next)
    \/ Raises(r) /\ Goto(d, "cleanup")

\* broadcast_task_event.  In background mode its exceptions reach the caller,
\* after some clients may have got the event; over Redis the event is lost.
Broadcast(d, event, next) ==
    \/ told' = event /\ Goto(d, next)
    \/ /\ "broadcast" \in Faults
       /\ IF Runtime = "celery"
          THEN UNCHANGED told /\ Goto(d, next)
          ELSE (UNCHANGED told \/ told' = event) /\ Goto(d, "cleanup")

\* Whatever the row says, the run sets it to processing, with no period done.
StartSession(d) ==
    /\ At(d, "start")
    /\ Transaction(d, UpdateSession(row, "processing", 0, {}, {}), "touchStart")
    /\ UNCHANGED <<file, requestVars, revoked, jobVars, told, historyVars>>

AfterTouch == [touchStart |-> "checkStart", touchRecorded |-> "emitProgress",
               touchCollect |-> "touchCollected", touchCollected |-> "commit"]

\* The heartbeats between the steps.  The comparative computation, which reads
\* and writes no shared state, runs before the last of them.
TouchRuntime(d) ==
    /\ run[d].step \in DOMAIN AfterTouch
    /\ Transaction(d, TouchSession(row), AfterTouch[run[d].step])
    /\ UNCHANGED <<file, requestVars, revoked, jobVars, told, historyVars>>

\* Mutant: a cancellation is looked for at the start only.
CheckCancelOnce(d) ==
    LET next == IF At(d, "checkStart")
                THEN IF IsSessionCancelPending(row) THEN "cancel" ELSE "check"
                ELSE IF Done(d) < Total THEN "extract" ELSE "touchCollect"
    IN  /\ run[d].step \in {"checkStart", "check"}
        /\ Goto(d, next)
        /\ overrun' = IF next = "extract" /\ asked /\ overrun < 2
                      THEN overrun + 1 ELSE overrun
        /\ UNCHANGED <<row, file, requestVars, revoked, jobVars, told, asked>>

\* _maybe_cancel_multi_analysis: once before the loop, before each period, and
\* after the last one.
CheckCancel(d) ==
    LET next == IF IsSessionCancelPending(row) THEN "cancel"
                ELSE IF At(d, "checkStart") THEN "check"
                ELSE IF Done(d) < Total THEN "extract" ELSE "touchCollect"
    IN  /\ run[d].step \in {"checkStart", "check"}
        /\ \/ /\ Goto(d, next)
              /\ overrun' = IF next = "extract" /\ asked /\ overrun < 2
                            THEN overrun + 1 ELSE overrun
           \/ "db" \in Faults /\ Goto(d, "cleanup") /\ UNCHANGED overrun
        /\ UNCHANGED <<row, file, requestVars, revoked, jobVars, told, asked>>

\* The clock is read before each period only, and nothing is announced.
TimeOut(d) ==
    /\ "timeout" \in Faults
    /\ At(d, "check") /\ Done(d) < Total
    /\ Transaction(d, UpdateSession(row, "failed", Done(d), {}, {}), "cleanup")
    /\ UNCHANGED <<file, requestVars, revoked, jobVars, told, historyVars>>

\* Mutant: the progress is announced and not stored.
CountPeriodUnstored(d, failed) ==
    /\ run' = [run EXCEPT ![d] = [step   |-> "emitProgress",
                                  done   |-> @.done + 1,
                                  failed |-> @.failed \cup failed]]
    /\ file' = [file EXCEPT ![Done(d) + 1] = FALSE]

\* The file of the period is removed, and the period counted as good or bad.
CountPeriod(d, failed) ==
    /\ run' = [run EXCEPT ![d] = [step   |-> "record",
                                  done   |-> @.done + 1,
                                  failed |-> @.failed \cup failed]]
    /\ file' = [file EXCEPT ![Done(d) + 1] = FALSE]

\* _process_single_period: the extraction of the next document; one that is gone is
\* read as an empty one.
ExtractPeriod(d) ==
    LET next == Done(d) + 1
    IN  /\ At(d, "extract")
        /\ \/ Goto(d, "touchPeriod") /\ UNCHANGED file
           \/ "parse" \in Faults /\ CountPeriod(d, {next})
        /\ UNCHANGED <<row, requestVars, revoked, jobVars, told, historyVars>>

\* Its heartbeat is inside the try: a database error makes the period a bad one.
TouchPeriod(d) ==
    LET next == Done(d) + 1
    IN  /\ At(d, "touchPeriod")
        /\ \/ row' = TouchSession(row) /\ CountPeriod(d, {})
           \/ Raises(TouchSession(row)) /\ CountPeriod(d, {next})
        /\ UNCHANGED <<requestVars, revoked, jobVars, told, historyVars>>

\* Mutant: the index of the loop is stored instead of the count.
RecordProgressIndex(d) ==
    /\ At(d, "record")
    /\ Transaction(d, UpdateSession(row, row.status, Done(d) - 1, {}, {}), "touchRecorded")
    /\ UNCHANGED <<file, requestVars, revoked, jobVars, told, historyVars>>

\* The progress is stored first, announced afterwards.
RecordProgress(d) ==
    /\ At(d, "record")
    /\ Transaction(d, UpdateSession(row, row.status, Done(d), {}, {}), "touchRecorded")
    /\ UNCHANGED <<file, requestVars, revoked, jobVars, told, historyVars>>

AnnounceProgress(d) ==
    /\ At(d, "emitProgress")
    /\ Broadcast(d, [status |-> "processing", completed |-> Done(d)], "check")
    /\ UNCHANGED <<row, file, requestVars, revoked, jobVars, historyVars>>

\* The status is failed only if every period failed.
CommitOutcome(d) ==
    /\ At(d, "commit")
    /\ Transaction(d, UpdateSession(row, Outcome(d), Total, Good(d), Bad(d)), "emitOutcome")
    /\ UNCHANGED <<file, requestVars, revoked, jobVars, told, historyVars>>

\* Mutant: a session whose periods all failed is announced as completed.
AnnounceOutcomeCompleted(d) ==
    /\ At(d, "emitOutcome")
    /\ Broadcast(d, [status |-> "completed", completed |-> Total], "cleanup")
    /\ UNCHANGED <<row, file, requestVars, revoked, jobVars, historyVars>>

AnnounceOutcome(d) ==
    /\ At(d, "emitOutcome")
    /\ Broadcast(d, [status |-> Outcome(d), completed |-> Total], "cleanup")
    /\ UNCHANGED <<row, file, requestVars, revoked, jobVars, historyVars>>

\* _finalize_multi_analysis_cancellation: what is done so far is kept.
CommitCancellation(d) ==
    /\ At(d, "cancel")
    /\ Transaction(d, MarkSessionCancelled(row, Done(d), Good(d), Bad(d)), "emitCancelled")
    /\ UNCHANGED <<file, requestVars, revoked, jobVars, told, historyVars>>

AnnounceCancelled(d) ==
    /\ At(d, "emitCancelled")
    /\ Broadcast(d, [status |-> "cancelled", completed |-> Done(d)], "cleanup")
    /\ UNCHANGED <<row, file, requestVars, revoked, jobVars, historyVars>>

\* Mutant: the files of the periods that were reached.
CleanupTempFilesReached(d) ==
    /\ At(d, "cleanup")
    /\ file' = [i \in Periods |-> file[i] /\ i > Done(d)]
    /\ Goto(d, "over")
    /\ UNCHANGED <<row, requestVars, revoked, jobVars, told, historyVars>>

\* finally: the files of the periods that were not reached.
CleanupTempFiles(d) ==
    /\ At(d, "cleanup")
    /\ file' = [i \in Periods |-> file[i] /\ i <= Done(d)]
    /\ Goto(d, "over")
    /\ UNCHANGED <<row, requestVars, revoked, jobVars, told, historyVars>>

RunStep(d) ==
    \/ StartSession(d)
    \/ TouchRuntime(d)
    \/ CheckCancel(d)
    \/ TimeOut(d)
    \/ ExtractPeriod(d)
    \/ TouchPeriod(d)
    \/ RecordProgress(d)
    \/ AnnounceProgress(d)
    \/ CommitOutcome(d)
    \/ AnnounceOutcome(d)
    \/ CommitCancellation(d)
    \/ AnnounceCancelled(d)
    \/ CleanupTempFiles(d)

-----------------------------------------------------------------------------
(* Maintenance jobs, run from the command line *)

\* The row passes the age limit of the recovery job, or of the cleanup job.
HeartbeatExpires ==
    /\ "recovery" \in Jobs
    /\ InProgress(row) /\ ~row.stale
    /\ row' = [row EXCEPT !.stale = TRUE]
    /\ UNCHANGED <<file, requestVars, revoked, run, jobVars, told, historyVars>>

RowAges ==
    /\ "cleanup" \in Jobs
    /\ Exists(row) /\ ~row.old
    /\ row' = [row EXCEPT !.old = TRUE]
    /\ UNCHANGED <<file, requestVars, revoked, run, jobVars, told, historyVars>>

\* mark_stale_multi_sessions_failed, first transaction.
RecoveryFind ==
    /\ "recovery" \in Jobs /\ recovery.step = "idle"
    /\ IsSessionStale(row)
    /\ recovery' = [IdleRecovery EXCEPT !.step = "found"]
    /\ UNCHANGED <<row, file, requestVars, revoked, run, cleaner, told, historyVars>>

\* Second transaction: SELECT with the same filter ...
RecoverySelect ==
    /\ recovery.step = "found"
    /\ recovery' = IF IsSessionStale(row)
                   THEN [step |-> "selected", good |-> row.good, bad |-> row.bad]
                   ELSE IdleRecovery
    /\ UNCHANGED <<row, file, requestVars, revoked, run, cleaner, told, historyVars>>

\* ... then UPDATE by primary key and COMMIT.
RecoveryCommit ==
    /\ recovery.step = "selected"
    /\ IF Exists(row)
       THEN /\ row' = MarkStaleSessionFailed(row, recovery)
            /\ recovery' = [IdleRecovery EXCEPT !.step = "announcing"]
       ELSE recovery' = IdleRecovery /\ UNCHANGED row
    /\ UNCHANGED <<file, requestVars, revoked, run, cleaner, told, historyVars>>

\* The job is a process of its own: only the Redis bridge carries its events.
RecoveryAnnounce ==
    /\ recovery.step = "announcing"
    /\ recovery' = IdleRecovery
    /\ \/ Runtime = "celery" /\ told' = [told EXCEPT !.status = "failed"]
       \/ Runtime = "background" /\ UNCHANGED told
       \/ Runtime = "celery" /\ "broadcast" \in Faults /\ UNCHANGED told
    /\ UNCHANGED <<row, file, requestVars, revoked, run, cleaner, historyVars>>

RecoveryAborts ==
    /\ "jobdb" \in Faults /\ recovery.step \in {"found", "selected"}
    /\ recovery' = IdleRecovery
    /\ UNCHANGED <<row, file, requestVars, revoked, run, cleaner, told, historyVars>>

RecoveryStep ==
    \/ RecoveryFind
    \/ RecoverySelect
    \/ RecoveryCommit
    \/ RecoveryAnnounce

\* cleanup_multi_sessions: candidates, then a DELETE that repeats the filter.
CleanerFind ==
    /\ "cleanup" \in Jobs /\ cleaner = "idle"
    /\ IsSessionCleanupCandidate(row)
    /\ cleaner' = "found"
    /\ UNCHANGED <<row, file, requestVars, revoked, run, recovery, told, historyVars>>

\* Mutant: the DELETE does not repeat the filter.
CleanerDeleteUnfiltered ==
    /\ cleaner = "found"
    /\ row' = NoSession
    /\ cleaner' = "idle"
    /\ UNCHANGED <<file, requestVars, revoked, run, recovery, told, historyVars>>

CleanerDelete ==
    /\ cleaner = "found"
    /\ row' = IF IsSessionCleanupCandidate(row) THEN NoSession ELSE row
    /\ cleaner' = "idle"
    /\ UNCHANGED <<file, requestVars, revoked, run, recovery, told, historyVars>>

-----------------------------------------------------------------------------
Next ==
    \/ RequestStep
    \/ RequestCancel
    \/ CancelStep
    \/ \E d \in Deliveries :
          StartRun(d) \/ DiscardRevoked(d) \/ Redeliver(d) \/ RunStep(d) \/ WorkerCrash(d)
    \/ ApiCrash
    \/ HeartbeatExpires
    \/ RowAges
    \/ RecoveryStep
    \/ RecoveryAborts
    \/ CleanerFind
    \/ CleanerDelete

Spec == Init /\ [][Next]_vars

\* Handlers, runs and jobs go on; clients, the clock of a run and the faults
\* need not.  A job is run again and again, so an outage does not abort every
\* attempt.
Fairness ==
    /\ WF_vars(RequestStep)
    /\ WF_vars(CancelStep)
    /\ \A d \in Deliveries : WF_vars(StartRun(d) \/ DiscardRevoked(d)) /\ WF_vars(RunStep(d))
    /\ WF_vars(HeartbeatExpires)
    /\ WF_vars(RecoveryStep) /\ SF_vars(RecoverySelect) /\ SF_vars(RecoveryCommit)

FairSpec == Spec /\ Fairness

-----------------------------------------------------------------------------
(* Properties *)

TypeOK ==
    /\ row \in SessionType
    /\ file \in [Periods -> BOOLEAN]
    /\ request \in RequestSteps
    /\ saved \in 0..Total
    /\ canceller \in CancelSteps
    /\ revoked \in BOOLEAN
    /\ run \in [Deliveries -> RunType]
    /\ \A d \in Deliveries :
          /\ Bad(d) \subseteq 1..Done(d)
          /\ run[d].step \in {"extract", "touchPeriod"} => Done(d) < Total
          /\ run[d].step = "record" => Done(d) > 0
    /\ recovery \in RecoveryType
    /\ cleaner \in {"idle", "found"}
    /\ told \in ToldType
    /\ asked \in BOOLEAN
    /\ overrun \in 0..2

\* What the row reports is what the run did: a completed session lists every
\* period and at least one with figures, a cancelled one the periods its
\* progress counts, a failed one no figures at all.
OutcomeFitsPeriods ==
    /\ row.good \cap row.bad = {}
    /\ row.status = "completed" => row.completed = Total /\ Listed(row) = Periods /\ row.good # {}
    /\ row.status = "cancelled" => Listed(row) = 1..row.completed
    /\ row.status = "failed"    => row.good = {}

\* Progress is neither invented nor lost: the count stored lags the periods the
\* run has done by one at most, and only until it is recorded.
ProgressIsHonest ==
    \A d \in Deliveries :
       run[d].step \notin {"unsent", "queued", "start", "cleanup", "over", "lost"} =>
          row.completed = IF At(d, "record") THEN Done(d) - 1 ELSE Done(d)

\* The progress a client was told of is stored.
ToldIsStored == told.completed <= row.completed

\* A client is never told of more progress, or of another outcome, than the row
\* it can read holds (the event follows the transaction).
ToldMatchesRow ==
    /\ ToldIsStored
    /\ told.status \in Terminal => row.status = told.status

\* A cancelled run stops within the period it is in: it begins none whose
\* checkpoint comes after the cancellation was recorded.
CancelStopsWithinOnePeriod == overrun = 0

\* When the request and every run are over no temporary file is left, whichever
\* period the run ended in (a run that crashed, or whose message was dropped as
\* revoked, is lost and leaves its files).
NoFileIsLeft ==
    request \in {"accepted", "rejected"} /\ (\A d \in Deliveries : run[d].step \in {"unsent", "over"})
       => \A i \in Periods : ~file[i]

\* The run finds the document of the period it extracts, and nothing stays behind.
FilesLiveWithRun ==
    /\ \A d \in Deliveries : At(d, "extract") => file[Done(d) + 1]
    /\ NoFileIsLeft

\* The cleanup job deletes no session that had a heartbeat within the age limit,
\* and none that is finished, however old, though it picks its rows in one
\* transaction and deletes them in another, and runs go on in between.
FreshRowsKept ==
    [][Exists(row) /\ (~row.old \/ ~InProgress(row)) => Exists(row')]_vars

\* A session does not stay in progress for ever.
EventuallySettled == InProgress(row) ~> ~InProgress(row)

-----------------------------------------------------------------------------
(* Refinement *)

\* The session of this module, as the one task of AnalysisContract.
Session == "session"

ClientStatus(r) == IF Exists(r) THEN r.status ELSE "none"
ClientHeard(event) == IF event.status \in Terminal THEN event.status ELSE "none"

Contract == INSTANCE AnalysisContract WITH
    Tasks  <- {Session},
    status <- [s \in {Session} |-> ClientStatus(row)],
    wanted <- [s \in {Session} |-> row.cancelRequested],
    heard  <- [s \in {Session} |-> ClientHeard(told)]

\* A multi-period session keeps the same contract as a single analysis.
KeepsContract == Contract!Spec
=============================================================================
