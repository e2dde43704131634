----------------------- MODULE AnalysisLifecycle_proofs -----------------------
(* Theorems about AnalysisLifecycle for every value of its constants. *)
EXTENDS AnalysisLifecycle, TLAPS

\* What the functions of crud.py leave in a row is a row.
LEMMA RowOperations ==
    ASSUME NEW r \in RowType
    PROVE  /\ NoRow \in RowType
           /\ \A result \in SUBSET ResultKeys : CreateAnalysis(result) \in RowType
           /\ \A s \in InProgress \cup Terminal, result \in SUBSET ResultKeys :
                 UpdateAnalysis(r, s, result) \in RowType
           /\ RequestAnalysisCancel(r) \in RowType
           /\ MarkAnalysisCancelled(r) \in RowType
           /\ TouchHeartbeat(r) \in RowType
           /\ \A loaded \in SUBSET ResultKeys : MarkStaleFailed(r, loaded) \in RowType
  BY DEF RowType, NoRow, CreateAnalysis, UpdateAnalysis, ApplySummary, Exists,
         RequestAnalysisCancel, MarkAnalysisCancelled, TouchHeartbeat, MarkStaleFailed,
         InProgress, Terminal, ResultKeys, CancelledPayload, ExpiredPayload

LEMMA InitTypeOK == Init => TypeOK
  BY RuntimeAssumption, JobsAssumption, BoundAssumption
  DEF Init, TypeOK, RowType, NoRow, InProgress, Terminal, ResultKeys, UploadSteps,
      CancelSteps, IdleWorker, WorkerType, WorkerSteps, Phases, IdleRecovery, RecoveryType,
      NothingLoaded, IdleCleaner, CleanerType, Events

\* The part of TypeOK about the executions, which most steps of a worker move.
WorkersOK ==
    /\ worker \in [Workers -> WorkerType]
    /\ \A w \in Workers :
          /\ worker[w].step # "idle" => Task(w) \in Tasks
          /\ worker[w].step \in {"emitPhase", "work"} => worker[w].phase # "finalizing"

LEMMA GotoOK ==
    ASSUME WorkersOK, NEW w \in Workers, worker[w].step # "idle",
           NEW step \in WorkerSteps, Goto(w, step),
           step \in {"emitPhase", "work"} => worker[w].phase # "finalizing"
    PROVE  WorkersOK'
  BY DEF WorkersOK, Goto, WorkerType, Task

LEMMA SetRowOK ==
    ASSUME row \in [Tasks -> RowType], NEW t \in Tasks, NEW r \in RowType,
           SetRow(t, r) \/ Raises(t, r)
    PROVE  row' \in [Tasks -> RowType]
  BY DEF SetRow, Raises

LEMMA TransactionOK ==
    ASSUME TypeOK, NEW w \in Workers, worker[w].step # "idle", NEW r \in RowType,
           NEW next \in WorkerSteps, NEW handler \in WorkerSteps,
           {next, handler} \cap {"emitPhase", "work"} = {},
           Transaction(w, r, next, handler)
    PROVE  row' \in [Tasks -> RowType] /\ WorkersOK'
  BY GotoOK, SetRowOK DEF Transaction, TypeOK, WorkersOK

LEMMA BroadcastOK ==
    ASSUME TypeOK, NEW w \in Workers, worker[w].step # "idle", NEW event \in Events,
           NEW next \in WorkerSteps, NEW handler \in WorkerSteps,
           {next, handler} \cap {"emitPhase", "work"} # {} => worker[w].phase # "finalizing",
           Broadcast(w, event, next, handler)
    PROVE  told' \in [Tasks -> Events \cup {"none"}] /\ WorkersOK'
  BY GotoOK DEF Broadcast, TypeOK, WorkersOK

\* A step of a worker keeps the types.
LEMMA WorkerStepTypeOK ==
    ASSUME TypeOK, NEW w \in Workers, WorkerStep(w)
    PROVE  TypeOK'
<1> DEFINE t == Task(w)
<1>1. worker[w].step # "idle" /\ t \in Tasks /\ row[t] \in RowType
  BY DEF TypeOK, WorkerStep, EnsureExists, CreateMissing, AdoptExisting, TouchRuntime, CheckCancel,
         BeginPhase, FinishPhase, CommitResult, AnnounceCompleted, CommitCancellation,
         AnnounceCancelled, CommitFailure, AnnounceFailed, CleanupTempFile, At
<1>2. WorkersOK /\ worker[w] \in WorkerType /\ row[t].result \in SUBSET ResultKeys
  BY <1>1 DEF TypeOK, WorkersOK, RowType
<1>3. /\ {"ensure", "create", "adopt", "touch", "check", "emitPhase", "work", "commit",
          "emitCompleted", "markCancelled", "emitCancelled", "markFailed", "emitFailed",
          "cleanup"} \subseteq WorkerSteps
      /\ {"completed", "cancelled", "failed"} \subseteq Events
      /\ {"processing", "completed", "failed"} \subseteq InProgress \cup Terminal
  BY DEF WorkerSteps, Events, Terminal, InProgress
<1>4. ASSUME WorkersOK', UNCHANGED <<row, file, told, requestVars, queueVars, jobVars, historyVars>>
      PROVE  TypeOK'
  BY <1>4 DEF TypeOK, WorkersOK, requestVars, queueVars, jobVars, historyVars, Task
<1> USE DEF requestVars, queueVars, jobVars, historyVars
<1>5. CASE EnsureExists(w)
  BY <1>1, <1>2, <1>3, <1>4, <1>5, GotoOK DEF EnsureExists
<1>6. CASE CreateMissing(w)
  <2>1. CreateAnalysis({}) \in RowType
    BY <1>1, RowOperations
  <2>2. row' \in [Tasks -> RowType] /\ WorkersOK'
    BY <1>1, <1>2, <1>3, <1>6, <2>1, GotoOK, TransactionOK DEF CreateMissing, TypeOK
  <2>3. QED BY <1>6, <2>2 DEF CreateMissing, TypeOK, WorkersOK, Task
<1>7. CASE AdoptExisting(w)
  <2>1. UpdateAnalysis(row[t], "processing", row[t].result) \in RowType
    BY <1>1, <1>2, <1>3, RowOperations
  <2>2. row' \in [Tasks -> RowType] /\ WorkersOK'
    BY <1>1, <1>2, <1>3, <1>7, <2>1, TransactionOK DEF AdoptExisting
  <2>3. QED BY <1>7, <2>2 DEF AdoptExisting, TypeOK, WorkersOK, Task
<1>8. CASE TouchRuntime(w)
  <2>1. row' \in [Tasks -> RowType] /\ WorkersOK'
    BY <1>1, <1>2, <1>3, <1>8, RowOperations, TransactionOK DEF TouchRuntime
  <2>2. QED BY <1>8, <2>1 DEF TouchRuntime, TypeOK, WorkersOK, Task
<1>9. CASE CheckCancel(w)
  BY <1>1, <1>2, <1>3, <1>4, <1>9, GotoOK DEF CheckCancel
<1>10. CASE BeginPhase(w)
  <2>1. worker[w].phase \in Events /\ worker[w].phase # "finalizing"
    BY <1>1, <1>10 DEF TypeOK, BeginPhase, At, WorkerType, Phases, Events
  <2>2. told' \in [Tasks -> Events \cup {"none"}] /\ WorkersOK'
    BY <1>1, <1>3, <1>10, <2>1, BroadcastOK DEF BeginPhase
  <2>3. overrun' \in [Tasks -> 0..2]
    BY <1>1, <1>10 DEF BeginPhase, TypeOK
  <2>4. QED BY <1>10, <2>2, <2>3 DEF BeginPhase, TypeOK, WorkersOK, Task
<1>11. CASE FinishPhase(w)
  <2>1. NextPhase[worker[w].phase] \in Phases
    BY <1>2 DEF NextPhase, WorkerType, Phases
  <2>2. WorkersOK'
    <3>1. CASE Goto(w, "markFailed")
      BY <1>1, <1>2, <1>3, <3>1, GotoOK
    <3>2. CASE ~Goto(w, "markFailed")
      BY <1>1, <1>2, <1>3, <1>11, <2>1, <3>2 DEF FinishPhase, WorkersOK, WorkerType, Task
    <3>3. QED BY <3>1, <3>2
  <2>3. QED BY <1>11, <2>2 DEF FinishPhase, TypeOK, WorkersOK, Task
<1>12. CASE CommitResult(w)
  <2>1. UpdateAnalysis(row[t], "completed", {"data"} \cup worker[w].filename) \in RowType
    BY <1>1, <1>2, <1>3, RowOperations DEF WorkerType, ResultKeys
  <2>2. row' \in [Tasks -> RowType] /\ WorkersOK'
    BY <1>1, <1>2, <1>3, <1>12, <2>1, TransactionOK DEF CommitResult
  <2>3. QED BY <1>12, <2>2 DEF CommitResult, TypeOK, WorkersOK, Task
<1>13. CASE AnnounceCompleted(w)
  <2>1. told' \in [Tasks -> Events \cup {"none"}] /\ WorkersOK'
    BY <1>1, <1>3, <1>13, BroadcastOK DEF AnnounceCompleted
  <2>2. QED BY <1>13, <2>1 DEF AnnounceCompleted, TypeOK, WorkersOK, Task
<1>14. CASE CommitCancellation(w)
  <2>1. row' \in [Tasks -> RowType] /\ WorkersOK'
    BY <1>1, <1>2, <1>3, <1>14, RowOperations, TransactionOK DEF CommitCancellation
  <2>2. QED BY <1>14, <2>1 DEF CommitCancellation, TypeOK, WorkersOK, Task
<1>15. CASE AnnounceCancelled(w)
  <2>1. told' \in [Tasks -> Events \cup {"none"}] /\ WorkersOK'
    BY <1>1, <1>3, <1>15, BroadcastOK DEF AnnounceCancelled
  <2>2. QED BY <1>15, <2>1 DEF AnnounceCancelled, TypeOK, WorkersOK, Task
<1>16. CASE CommitFailure(w)
  <2>1. UpdateAnalysis(row[t], "failed", FailedPayload) \in RowType
    BY <1>1, <1>3, RowOperations DEF FailedPayload, ResultKeys
  <2>2. row' \in [Tasks -> RowType] /\ WorkersOK'
    BY <1>1, <1>2, <1>3, <1>16, <2>1, TransactionOK DEF CommitFailure
  <2>3. QED BY <1>16, <2>2 DEF CommitFailure, TypeOK, WorkersOK, Task
<1>17. CASE AnnounceFailed(w)
  <2>1. told' \in [Tasks -> Events \cup {"none"}] /\ WorkersOK'
    BY <1>1, <1>3, <1>17, BroadcastOK DEF AnnounceFailed
  <2>2. QED BY <1>17, <2>1 DEF AnnounceFailed, TypeOK, WorkersOK, Task
<1>18. CASE CleanupTempFile(w)
  BY <1>1, <1>2, <1>18 DEF CleanupTempFile, TypeOK, WorkersOK, IdleWorker, WorkerType,
     WorkerSteps, Phases, Task
<1>19. QED
  BY <1>5, <1>6, <1>7, <1>8, <1>9, <1>10, <1>11, <1>12, <1>13, <1>14, <1>15, <1>16, <1>17,
     <1>18 DEF WorkerStep

\* Every step keeps the types.
LEMMA NextTypeOK ==
    ASSUME TypeOK, [Next]_vars
    PROVE  TypeOK'
<1> USE DEF requestVars, queueVars, jobVars, historyVars
<1>1. ASSUME NEW t \in Tasks, SaveUpload(t) \/ UploadStep(t)
      PROVE  TypeOK'
  <2>1. CreateAnalysis({"filename"}) \in RowType
    BY <1>1, RowOperations DEF TypeOK, ResultKeys
  <2>2. UpdateAnalysis(row[t], "failed", FailedPayload) \in RowType
    BY <1>1, RowOperations DEF TypeOK, ResultKeys, FailedPayload, InProgress, Terminal
  <2>3. row' \in [Tasks -> RowType]
    BY <1>1, <2>1, <2>2, SetRowOK DEF TypeOK, SaveUpload, UploadStep, CreateRecord, RejectUpload,
       Dispatch, DispatchFails, RecordDispatchFailure
  <2>4. file' \in [Tasks -> BOOLEAN]
    BY <1>1 DEF TypeOK, SaveUpload, UploadStep, CreateRecord, RejectUpload, Dispatch,
       DispatchFails, RecordDispatchFailure
  <2>5. upload' \in [Tasks -> UploadSteps]
    BY <1>1 DEF TypeOK, SaveUpload, UploadStep, CreateRecord, RejectUpload, Dispatch,
       DispatchFails, RecordDispatchFailure, UploadSteps
  <2>6. inbox' \in [Tasks -> Nat] /\ deliveries' \in [Tasks -> Nat]
    BY <1>1 DEF TypeOK, SaveUpload, UploadStep, CreateRecord, RejectUpload, Dispatch,
       DispatchFails, RecordDispatchFailure
  <2>7. UNCHANGED <<canceller, revoked, worker, recovery, cleaner, told, asked, overrun>>
    BY <1>1 DEF SaveUpload, UploadStep, CreateRecord, RejectUpload, Dispatch, DispatchFails,
       RecordDispatchFailure
  <2>8. QED BY <2>3, <2>4, <2>5, <2>6, <2>7 DEF TypeOK, Task
<1>2. ASSUME NEW t \in Tasks, RequestCancel(t) \/ CancelStep(t)
      PROVE  TypeOK'
  <2>1. RequestAnalysisCancel(row[t]) \in RowType
    BY <1>2, RowOperations DEF TypeOK
  <2>2. row' \in [Tasks -> RowType]
    BY <1>2, <2>1, SetRowOK DEF TypeOK, RequestCancel, CancelStep, RecordCancel, RevokeTask
  <2>3. row'[t].cancelRequested \in BOOLEAN
    BY <1>2, <2>2 DEF RowType
  <2>4. /\ canceller' \in [Tasks -> CancelSteps]
        /\ revoked' \in [Tasks -> BOOLEAN]
        /\ asked' \in [Tasks -> BOOLEAN]
    BY <1>2, <2>3 DEF TypeOK, RequestCancel, CancelStep, RecordCancel, RevokeTask, CancelSteps
  <2>5. UNCHANGED <<file, upload, inbox, deliveries, worker, recovery, cleaner, told, overrun>>
    BY <1>2 DEF RequestCancel, CancelStep, RecordCancel, RevokeTask
  <2>6. QED BY <2>2, <2>4, <2>5 DEF TypeOK, Task
<1>3. ASSUME NEW t \in Tasks, Redeliver(t) \/ HeartbeatExpires(t) \/ RowAges(t)
      PROVE  TypeOK'
  <2>1. /\ [row[t] EXCEPT !.stale = TRUE] \in RowType
        /\ [row[t] EXCEPT !.old = TRUE] \in RowType
    BY <1>3 DEF TypeOK, RowType
  <2>2. row' \in [Tasks -> RowType]
    BY <1>3, <2>1 DEF Redeliver, HeartbeatExpires, RowAges, SetRow, TypeOK
  <2>3. QED BY <1>3, <2>2 DEF TypeOK, Redeliver, HeartbeatExpires, RowAges, Task
<1>4. ASSUME NEW w \in Workers, NEW t \in Tasks, StartWork(w, t) \/ DiscardRevoked(w, t)
      PROVE  TypeOK'
  <2>1. FreshRun(t) \in WorkerType
    BY DEF FreshRun, WorkerType, WorkerSteps, Phases
  <2>3. WorkersOK'
    <3>1. CASE StartWork(w, t)
      <4>1. worker' = [worker EXCEPT ![w] = FreshRun(t)]
        BY <3>1 DEF StartWork
      <4>2. FreshRun(t).task = t /\ FreshRun(t).step = "ensure"
        BY DEF FreshRun
      <4>3. QED BY <2>1, <4>1, <4>2 DEF TypeOK, WorkersOK, Task
    <3>2. CASE DiscardRevoked(w, t)
      BY <3>2 DEF TypeOK, WorkersOK, DiscardRevoked, Task
    <3>3. QED BY <1>4, <3>1, <3>2
  <2>4. inbox' \in [Tasks -> Nat]
    BY <1>4 DEF TypeOK, StartWork, DiscardRevoked
  <2>5. QED BY <1>4, <2>3, <2>4 DEF TypeOK, WorkersOK, StartWork, DiscardRevoked, Task
<1>5. ASSUME NEW w \in Workers, WorkerCrash(w)
      PROVE  TypeOK'
  BY <1>5 DEF TypeOK, WorkerCrash, IdleWorker, WorkerType, WorkerSteps, Phases, Task
<1>6. CASE ApiCrash
  <2>1. IdleWorker \in WorkerType
    BY DEF IdleWorker, WorkerType, WorkerSteps, Phases
  <2>2. WorkersOK'
    <3>1. CASE UNCHANGED worker
      BY <3>1 DEF TypeOK, WorkersOK, Task
    <3>2. CASE worker' = [w \in Workers |-> IdleWorker]
      BY <2>1, <3>2 DEF WorkersOK, IdleWorker
    <3>3. QED BY <1>6, <3>1, <3>2 DEF ApiCrash
  <2>3. /\ upload' \in [Tasks -> UploadSteps]
        /\ canceller' \in [Tasks -> CancelSteps]
        /\ inbox' \in [Tasks -> Nat]
    BY <1>6 DEF ApiCrash, TypeOK, UploadSteps, CancelSteps
  <2>4. QED BY <1>6, <2>2, <2>3 DEF ApiCrash, TypeOK, WorkersOK, Task
<1>7. CASE RecoveryStep \/ RecoveryAborts
  <2>1. IdleRecovery \in RecoveryType /\ NothingLoaded \in [Tasks -> SUBSET ResultKeys]
    BY DEF IdleRecovery, RecoveryType, NothingLoaded
  <2>2. row' \in [Tasks -> RowType] /\ recovery' \in RecoveryType
    <3>1. CASE RecoveryFind
      BY <1>7, <2>1, <3>1 DEF RecoveryFind, TypeOK, RecoveryType
    <3>2. CASE RecoverySelect
      <4>1. [t \in Tasks |-> IF t \in {u \in recovery.batch : IsRuntimeStale(row[u])}
                             THEN row[t].result ELSE {}] \in [Tasks -> SUBSET ResultKeys]
        BY DEF TypeOK, RowType
      <4>2. QED BY <2>1, <3>2, <4>1 DEF RecoverySelect, TypeOK, RecoveryType
    <3>3. CASE RecoveryCommit
      <4>1. \A t \in Tasks : MarkStaleFailed(row[t], recovery.loaded[t]) \in RowType
        BY RowOperations DEF TypeOK, RecoveryType
      <4>2. row' \in [Tasks -> RowType]
        BY <3>3, <4>1 DEF RecoveryCommit, TypeOK
      <4>3. [recovery EXCEPT !.step = "announcing", !.loaded = NothingLoaded] \in RecoveryType
        BY <2>1 DEF TypeOK, RecoveryType
      <4>4. QED BY <2>1, <3>3, <4>2, <4>3 DEF RecoveryCommit
    <3>4. ASSUME NEW t \in Tasks, RecoveryAnnounce(t)
          PROVE  row' \in [Tasks -> RowType] /\ recovery' \in RecoveryType
      BY <2>1, <3>4 DEF RecoveryAnnounce, TypeOK, RecoveryType
    <3>5. CASE RecoveryAborts
      BY <2>1, <3>5 DEF RecoveryAborts, TypeOK
    <3>6. QED BY <1>7, <3>1, <3>2, <3>3, <3>4, <3>5 DEF RecoveryStep
  <2>3. told' \in [Tasks -> Events \cup {"none"}]
    BY <1>7 DEF RecoveryStep, RecoveryFind, RecoverySelect, RecoveryCommit, RecoveryAnnounce,
       RecoveryAborts, TypeOK, Events, Terminal
  <2>4. UNCHANGED <<file, upload, canceller, inbox, deliveries, revoked, worker, cleaner,
                    asked, overrun>>
    BY <1>7 DEF RecoveryStep, RecoveryFind, RecoverySelect, RecoveryCommit, RecoveryAnnounce,
       RecoveryAborts
  <2>5. QED BY <2>2, <2>3, <2>4 DEF TypeOK, Task
<1>8. CASE CleanerFind \/ CleanerDelete
  <2>1. row' \in [Tasks -> RowType]
    BY <1>8, RowOperations DEF CleanerFind, CleanerDelete, TypeOK
  <2>2. cleaner' \in CleanerType
    BY <1>8 DEF CleanerFind, CleanerDelete, TypeOK, CleanerType, IdleCleaner
  <2>3. QED BY <1>8, <2>1, <2>2 DEF CleanerFind, CleanerDelete, TypeOK, Task
<1>9. CASE UNCHANGED vars
  BY <1>9 DEF TypeOK, vars, Task
<1>10. QED
  BY <1>1, <1>2, <1>3, <1>4, <1>5, <1>6, <1>7, <1>8, <1>9, WorkerStepTypeOK DEF Next

\* The variables keep their types, whatever faults occur and jobs run.
THEOREM TypeCorrect == Spec => []TypeOK
BY InitTypeOK, NextTypeOK, PTL DEF Spec

-----------------------------------------------------------------------------
(* A run is cancelled only on request *)

\* The inductive invariant behind CancelledOnlyIfAsked: what a run reads at a
\* checkpoint stays true until it acts on it, because cancel_requested_at is
\* never cleared while the row exists.
RequestRecorded ==
    /\ \A t \in Tasks : row[t].cancelRequested \/ row[t].status = "cancelled" => asked[t]
    /\ \A w \in Workers : worker[w].step = "markCancelled" => asked[Task(w)]

\* A transaction or an exception leaves the row as it was or as intended.
LEMMA RowAfter ==
    ASSUME row \in [Tasks -> RowType], NEW t \in Tasks, NEW r,
           SetRow(t, r) \/ Raises(t, r)
    PROVE  \/ UNCHANGED row
           \/ row' = [row EXCEPT ![t] = r]
  BY DEF SetRow, Raises

\* A step that writes at most one row, and there no request nobody made, that
\* sends no run to "markCancelled" and forgets no request, keeps the invariant.
LEMMA OneRowRecorded ==
    ASSUME TypeOK, RequestRecorded, NEW t \in Tasks, NEW r,
           r.cancelRequested \/ r.status = "cancelled" => asked[t],
           UNCHANGED row \/ row' = [row EXCEPT ![t] = r],
           UNCHANGED asked,
           \A w \in Workers : worker'[w].step = "markCancelled" =>
               worker[w].step = "markCancelled" /\ worker'[w].task = worker[w].task
    PROVE  RequestRecorded'
  BY DEF RequestRecorded, TypeOK, Task

\* Of the functions of crud.py, only request_analysis_cancel and
\* mark_analysis_cancelled record a cancellation.
LEMMA RecordsNothing ==
    ASSUME NEW r \in RowType
    PROVE  /\ \A result : LET new == CreateAnalysis(result)
                          IN  ~new.cancelRequested /\ new.status # "cancelled"
           /\ \A result : \A s \in InProgress \cup Terminal :
                 LET new == UpdateAnalysis(r, s, result)
                 IN  /\ new.cancelRequested = r.cancelRequested
                     /\ new.status = "cancelled" => s = "cancelled"
           /\ TouchHeartbeat(r).cancelRequested = r.cancelRequested
           /\ TouchHeartbeat(r).status = r.status
           /\ RequestAnalysisCancel(r).status = r.status
           /\ \A loaded : /\ MarkStaleFailed(r, loaded).cancelRequested = r.cancelRequested
                          /\ MarkStaleFailed(r, loaded).status = "failed"
  BY DEF RowType, NoRow, CreateAnalysis, UpdateAnalysis, ApplySummary, Exists, TouchHeartbeat,
         RequestAnalysisCancel, MarkStaleFailed

LEMMA WorkerStepRecorded ==
    ASSUME TypeOK, RequestRecorded, NEW w \in Workers, WorkerStep(w)
    PROVE  RequestRecorded'
<1> DEFINE t == Task(w)
<1>1. worker[w].step # "idle" /\ t \in Tasks /\ row[t] \in RowType
  BY DEF TypeOK, WorkerStep, EnsureExists, CreateMissing, AdoptExisting, TouchRuntime, CheckCancel,
         BeginPhase, FinishPhase, CommitResult, AnnounceCompleted, CommitCancellation,
         AnnounceCancelled, CommitFailure, AnnounceFailed, CleanupTempFile, At
<1>2. UNCHANGED asked
  BY DEF WorkerStep, EnsureExists, CreateMissing, AdoptExisting, TouchRuntime, CheckCancel,
         BeginPhase, FinishPhase, CommitResult, AnnounceCompleted, CommitCancellation,
         AnnounceCancelled, CommitFailure, AnnounceFailed, CleanupTempFile, historyVars
<1>3. row[t].cancelRequested \/ row[t].status = "cancelled" => asked[t]
  BY <1>1 DEF RequestRecorded
<1>4. CASE CheckCancel(w)
  <2>1. asked[t] \/ ~IsCancellationPending(row[t])
    BY <1>3 DEF IsCancellationPending
  <2>2. UNCHANGED row
    BY <1>4 DEF CheckCancel
  <2>3. ASSUME NEW v \in Workers, worker'[v].step = "markCancelled"
        PROVE  asked[worker'[v].task]
    <3>1. PICK step : /\ worker' = [worker EXCEPT ![w].step = step]
                      /\ step = "markCancelled" => IsCancellationPending(row[t])
      BY <1>4 DEF CheckCancel, Goto
    <3>2. worker \in [Workers -> WorkerType]
      BY DEF TypeOK
    <3>3. CASE v = w
      BY <2>1, <2>3, <3>1, <3>2, <3>3 DEF Task, WorkerType
    <3>4. CASE v # w
      BY <2>3, <3>1, <3>2, <3>4 DEF RequestRecorded, Task
    <3>5. QED BY <3>3, <3>4
  <2>4. QED BY <1>2, <2>2, <2>3 DEF RequestRecorded, Task
<1>5. CASE ~CheckCancel(w)
  <2>1. \A v \in Workers : worker'[v].step = "markCancelled" =>
            worker[v].step = "markCancelled" /\ worker'[v].task = worker[v].task
    <3>1. /\ \A v \in Workers : v # w => worker'[v] = worker[v]
          /\ worker'[w].step # "markCancelled"
      <4>1. worker \in [Workers -> WorkerType]
        BY DEF TypeOK
      <4>2. ASSUME NEW step, step # "markCancelled", Goto(w, step)
            PROVE  /\ \A v \in Workers : v # w => worker'[v] = worker[v]
                   /\ worker'[w].step # "markCancelled"
        BY <4>1, <4>2 DEF Goto, WorkerType
      <4>3. CASE FinishPhase(w)
        BY <4>1, <4>2, <4>3 DEF FinishPhase, WorkerType
      <4>4. CASE CleanupTempFile(w)
        BY <4>1, <4>4 DEF CleanupTempFile, IdleWorker
      <4>5. CASE ~FinishPhase(w) /\ ~CleanupTempFile(w)
        BY <1>5, <4>2, <4>5 DEF WorkerStep, EnsureExists, CreateMissing, AdoptExisting,
           TouchRuntime, BeginPhase, CommitResult, AnnounceCompleted, CommitCancellation,
           AnnounceCancelled, CommitFailure, AnnounceFailed, Transaction, Broadcast
      <4>6. QED BY <4>3, <4>4, <4>5
    <3>2. QED BY <3>1
  <2>2. PICK r : /\ r.cancelRequested \/ r.status = "cancelled" => asked[t]
                 /\ UNCHANGED row \/ row' = [row EXCEPT ![t] = r]
    <3>1. CASE UNCHANGED row
      BY <1>3, <3>1
    <3>2. CASE CreateMissing(w)
      BY <1>1, <1>3, <3>2, RecordsNothing, RowAfter DEF CreateMissing, Transaction, TypeOK
    <3>3. CASE AdoptExisting(w)
      BY <1>1, <1>3, <3>3, RecordsNothing, RowAfter
      DEF AdoptExisting, Transaction, TypeOK, InProgress, Terminal
    <3>4. CASE TouchRuntime(w)
      BY <1>1, <1>3, <3>4, RecordsNothing, RowAfter DEF TouchRuntime, Transaction, TypeOK
    <3>5. CASE CommitResult(w)
      BY <1>1, <1>3, <3>5, RecordsNothing, RowAfter
      DEF CommitResult, Transaction, TypeOK, InProgress, Terminal
    <3>6. CASE CommitFailure(w)
      BY <1>1, <1>3, <3>6, RecordsNothing, RowAfter
      DEF CommitFailure, Transaction, TypeOK, InProgress, Terminal
    <3>7. CASE CommitCancellation(w)
      <4>1. asked[t]
        BY <3>7 DEF CommitCancellation, At, RequestRecorded
      <4>2. QED BY <1>1, <3>7, <4>1, RowAfter DEF CommitCancellation, Transaction, TypeOK
    <3>8. QED
      BY <1>5, <3>1, <3>2, <3>3, <3>4, <3>5, <3>6, <3>7
      DEF WorkerStep, EnsureExists, BeginPhase, FinishPhase, AnnounceCompleted,
          AnnounceCancelled, AnnounceFailed, CleanupTempFile
  <2>3. QED BY <1>1, <1>2, <2>1, <2>2, OneRowRecorded
<1>6. QED BY <1>4, <1>5

LEMMA NextRecorded ==
    ASSUME TypeOK, RequestRecorded, [Next]_vars
    PROVE  RequestRecorded'
<1> USE DEF requestVars, queueVars, jobVars, historyVars
<1>1. ASSUME NEW t \in Tasks, SaveUpload(t) \/ UploadStep(t)
      PROVE  RequestRecorded'
  <2>1. /\ row[t] \in RowType
        /\ row[t].cancelRequested \/ row[t].status = "cancelled" => asked[t]
    BY DEF TypeOK, RequestRecorded
  <2>2. UNCHANGED <<worker, asked>>
    BY <1>1 DEF SaveUpload, UploadStep, CreateRecord, RejectUpload, Dispatch, DispatchFails,
       RecordDispatchFailure
  <2>3. PICK r : /\ r.cancelRequested \/ r.status = "cancelled" => asked[t]
                 /\ UNCHANGED row \/ row' = [row EXCEPT ![t] = r]
    <3>1. CASE UNCHANGED row
      BY <2>1, <3>1
    <3>2. CASE CreateRecord(t) \/ RejectUpload(t)
      <4>1. LET new == CreateAnalysis({"filename"})
            IN  ~new.cancelRequested /\ new.status # "cancelled"
        BY <2>1, RecordsNothing
      <4>2. UNCHANGED row \/ row' = [row EXCEPT ![t] = CreateAnalysis({"filename"})]
        BY <3>2, RowAfter DEF CreateRecord, RejectUpload, TypeOK
      <4>3. QED BY <2>1, <4>1, <4>2
    <3>3. CASE RecordDispatchFailure(t)
      BY <2>1, <3>3, RecordsNothing, RowAfter
      DEF RecordDispatchFailure, TypeOK, InProgress, Terminal
    <3>4. QED BY <1>1, <3>1, <3>2, <3>3 DEF SaveUpload, UploadStep, Dispatch, DispatchFails
  <2>4. QED BY <2>2, <2>3, OneRowRecorded
<1>2. ASSUME NEW t \in Tasks, RecordCancel(t)
      PROVE  RequestRecorded'
  <2>1. /\ row[t] \in RowType
        /\ row[t].cancelRequested \/ row[t].status = "cancelled" => asked[t]
    BY DEF TypeOK, RequestRecorded
  <2>2. /\ UNCHANGED worker
        /\ asked' = [asked EXCEPT ![t] = @ \/ row'[t].cancelRequested]
        /\ \/ UNCHANGED row
           \/ row' = [row EXCEPT ![t] = RequestAnalysisCancel(row[t])]
    BY <1>2, <2>1, RowAfter DEF RecordCancel, TypeOK
  <2>3. RequestAnalysisCancel(row[t]).status = row[t].status
    BY <2>1, RecordsNothing
  <2>4. QED BY <2>1, <2>2, <2>3 DEF RequestRecorded, TypeOK, Task
<1>3. ASSUME NEW t \in Tasks, HeartbeatExpires(t) \/ RowAges(t)
      PROVE  RequestRecorded'
  <2>1. /\ row[t] \in RowType
        /\ row[t].cancelRequested \/ row[t].status = "cancelled" => asked[t]
    BY DEF TypeOK, RequestRecorded
  <2>2. /\ UNCHANGED <<worker, asked>>
        /\ \/ row' = [row EXCEPT ![t] = [row[t] EXCEPT !.stale = TRUE]]
           \/ row' = [row EXCEPT ![t] = [row[t] EXCEPT !.old = TRUE]]
    BY <1>3 DEF HeartbeatExpires, RowAges, SetRow
  <2>3. QED BY <2>1, <2>2, OneRowRecorded DEF RowType
<1>4. ASSUME UNCHANGED <<row, asked>>,
             \A w \in Workers : worker'[w] # worker[w] => worker'[w].step # "markCancelled"
      PROVE  RequestRecorded'
  BY <1>4 DEF RequestRecorded, Task
<1>5. ASSUME NEW t \in Tasks, RequestCancel(t) \/ RevokeTask(t) \/ Redeliver(t)
      PROVE  RequestRecorded'
  BY <1>4, <1>5 DEF RequestCancel, RevokeTask, Redeliver
<1>6. ASSUME NEW w \in Workers, NEW t \in Tasks, StartWork(w, t) \/ DiscardRevoked(w, t)
      PROVE  RequestRecorded'
  BY <1>4, <1>6 DEF StartWork, DiscardRevoked, FreshRun, TypeOK
<1>7. ASSUME NEW w \in Workers, WorkerCrash(w)
      PROVE  RequestRecorded'
  BY <1>4, <1>7 DEF WorkerCrash, IdleWorker, TypeOK
<1>8. CASE ApiCrash
  BY <1>4, <1>8 DEF ApiCrash, IdleWorker, TypeOK
<1>9. CASE RecoveryStep \/ RecoveryAborts
  <2>1. UNCHANGED <<worker, asked>>
    BY <1>9 DEF RecoveryStep, RecoveryFind, RecoverySelect, RecoveryCommit, RecoveryAnnounce,
       RecoveryAborts
  <2>2. CASE RecoveryCommit
    <3>1. ASSUME NEW u \in Tasks
          PROVE  row'[u] = row[u] \/ row'[u] = MarkStaleFailed(row[u], recovery.loaded[u])
      BY <2>2 DEF RecoveryCommit, TypeOK
    <3>2. QED BY <2>1, <3>1, RecordsNothing DEF RequestRecorded, TypeOK, Task
  <2>3. CASE ~RecoveryCommit
    <3>1. UNCHANGED row
      BY <1>9, <2>3 DEF RecoveryStep, RecoveryFind, RecoverySelect, RecoveryAnnounce,
         RecoveryAborts
    <3>2. QED BY <1>4, <2>1, <3>1
  <2>4. QED BY <2>2, <2>3
<1>10. CASE CleanerFind \/ CleanerDelete
  <2>1. ASSUME NEW u \in Tasks
        PROVE  row'[u] = row[u] \/ row'[u] = NoRow
    BY <1>10 DEF CleanerFind, CleanerDelete, TypeOK
  <2>2. QED BY <1>10, <2>1 DEF CleanerFind, CleanerDelete, RequestRecorded, NoRow, Task
<1>11. CASE UNCHANGED vars
  BY <1>4, <1>11 DEF vars
<1>12. QED
  BY <1>1, <1>2, <1>3, <1>5, <1>6, <1>7, <1>8, <1>9, <1>10, <1>11, WorkerStepRecorded
  DEF Next, CancelStep

\* Whatever faults occur, however often a message is delivered, and whichever
\* maintenance jobs run: no analysis is cancelled that no client cancelled.
THEOREM NoUnaskedCancellation == Spec => []CancelledOnlyIfAsked
<1>1. Init => RequestRecorded
  BY DEF Init, RequestRecorded, NoRow, IdleWorker, Task
<1>2. RequestRecorded => CancelledOnlyIfAsked
  BY DEF RequestRecorded, CancelledOnlyIfAsked
<1>3. QED BY <1>1, <1>2, NextRecorded, TypeCorrect, PTL DEF Spec

-----------------------------------------------------------------------------
(* In an undisturbed system one party at a time decides *)

\* What one step may do, as clients of t see it: nothing, or a step of the
\* contract.  Other tasks are left alone.
ClientStep(t) ==
    /\ \A u \in Tasks : u # t => /\ ClientStatus(row'[u]) = ClientStatus(row[u])
                                 /\ row'[u].cancelRequested = row[u].cancelRequested
                                 /\ ClientHeard(told'[u]) = ClientHeard(told[u])
    /\ \/ /\ ClientStatus(row'[t]) = ClientStatus(row[t])
          /\ row'[t].cancelRequested = row[t].cancelRequested
          /\ ClientHeard(told'[t]) = ClientHeard(told[t])
       \/ /\ ClientStatus(row[t]) = "none" /\ ClientStatus(row'[t]) = "processing"
          /\ row'[t].cancelRequested = row[t].cancelRequested
          /\ ClientHeard(told'[t]) = ClientHeard(told[t])
       \/ /\ ClientStatus(row[t]) = "processing" /\ ClientStatus(row'[t]) = "processing"
          /\ row'[t].cancelRequested = TRUE
          /\ ClientHeard(told'[t]) = ClientHeard(told[t])
       \/ /\ ClientStatus(row[t]) = "processing" /\ ClientStatus(row'[t]) \in Terminal
          /\ ClientStatus(row'[t]) = "cancelled" => row[t].cancelRequested
          /\ row'[t].cancelRequested = row[t].cancelRequested
          /\ ClientHeard(told'[t]) = ClientHeard(told[t])
       \/ /\ ClientStatus(row[t]) \in Terminal /\ ClientStatus(row'[t]) = ClientStatus(row[t])
          /\ row'[t].cancelRequested = row[t].cancelRequested
          /\ ClientHeard(told[t]) = "none" /\ ClientHeard(told'[t]) = ClientStatus(row[t])

LEMMA ContractAllows ==
    ASSUME NEW t \in Tasks, ClientStep(t)
    PROVE  [Contract!Next]_(Contract!vars)
<1> DEFINE status == [u \in Tasks |-> ClientStatus(row[u])]
           wanted == [u \in Tasks |-> row[u].cancelRequested]
           heard  == [u \in Tasks |-> ClientHeard(told[u])]
<1>1. /\ status' = [status EXCEPT ![t] = ClientStatus(row'[t])]
      /\ wanted' = [wanted EXCEPT ![t] = row'[t].cancelRequested]
      /\ heard' = [heard EXCEPT ![t] = ClientHeard(told'[t])]
  BY DEF ClientStep
<1>2. /\ status[t] = ClientStatus(row[t]) /\ wanted[t] = row[t].cancelRequested
      /\ heard[t] = ClientHeard(told[t])
  OBVIOUS
<1>3. /\ (ClientStatus(row'[t]) = ClientStatus(row[t])) => status' = status
      /\ (row'[t].cancelRequested = row[t].cancelRequested) => wanted' = wanted
      /\ (ClientHeard(told'[t]) = ClientHeard(told[t])) => heard' = heard
  BY DEF ClientStep
<1>4. CASE UNCHANGED <<status, wanted, heard>>
  BY <1>4 DEF Contract!vars
<1>5. CASE ClientStatus(row[t]) = "none" /\ ClientStatus(row'[t]) = "processing"
  BY <1>1, <1>2, <1>3, <1>5 DEF ClientStep, Contract!Next, Contract!Accept, Terminal
<1>6. CASE ClientStatus(row[t]) = "processing" /\ ClientStatus(row'[t]) = "processing"
  BY <1>1, <1>2, <1>3, <1>6 DEF ClientStep, Contract!Next, Contract!Cancel, Contract!vars, Terminal
<1>7. CASE ClientStatus(row[t]) = "processing" /\ ClientStatus(row'[t]) \in Terminal
  BY <1>1, <1>2, <1>3, <1>7 DEF ClientStep, Contract!Next, Contract!Settle, Contract!Outcomes, Terminal
<1>8. CASE /\ ClientStatus(row[t]) \in Terminal /\ ClientHeard(told[t]) = "none"
           /\ ClientHeard(told'[t]) = ClientStatus(row[t])
  BY <1>1, <1>2, <1>3, <1>8 DEF ClientStep, Contract!Next, Contract!Tell, Contract!Outcomes,
     Contract!vars, Terminal
<1>9. QED
  BY <1>3, <1>4, <1>5, <1>6, <1>7, <1>8 DEF ClientStep

\* What a step of the run in w does to the row, the events and the run itself.
RunStep(w) ==
    /\ \A v \in Workers : v # w => worker'[v] = worker[v]
    /\ worker'[w].step = "idle" \/ worker'[w].task = Task(w)
    /\ \A u \in Tasks : u # Task(w) => row'[u] = row[u] /\ told'[u] = told[u]
    /\ Exists(row'[Task(w)]) /\ row'[Task(w)].status # "uploading"
    /\ told'[Task(w)] \in Terminal => row'[Task(w)].status = told'[Task(w)]
    /\ RunDecides(w)'
    /\ ClientStep(Task(w))

LEMMA RunStepKeepsOneDecides ==
    ASSUME TypeOK, OneDecides, NEW w \in Workers, worker[w].step # "idle", RunStep(w),
           UNCHANGED <<upload, inbox, deliveries, recovery, cleaner>>
    PROVE  OneDecides'
<1> DEFINE t == Task(w)
<1>1. t \in Tasks /\ Executing(t)
  BY DEF TypeOK, Executing
<1>2. inbox[t] = 0 /\ upload[t] = "accepted"
  BY <1>1 DEF OneDecides, UploadDecides, DeliveryDecides
<1>3. ASSUME NEW u \in Tasks, Executing(u)'
      PROVE  Executing(u)
  <2>1. PICK v \in Workers : worker'[v].step # "idle" /\ worker'[v].task = u
    BY <1>3 DEF Executing, Task
  <2>2. QED BY <2>1 DEF RunStep, Executing, Task
<1>4. ASSUME NEW u \in Tasks
      PROVE  UploadDecides(u)' /\ DeliveryDecides(u)'
  <2>1. UploadDecides(u) /\ DeliveryDecides(u)
    BY DEF OneDecides
  <2>2. CASE u = t
    BY <1>2, <2>1, <2>2 DEF RunStep, UploadDecides, DeliveryDecides
  <2>3. CASE u # t
    BY <1>3, <2>1, <2>3 DEF RunStep, UploadDecides, DeliveryDecides
  <2>4. QED BY <2>2, <2>3
<1>5. ASSUME NEW v \in Workers
      PROVE  RunDecides(v)'
  <2>1. CASE v = w
    BY <2>1 DEF RunStep
  <2>2. CASE v # w
    <3>1. worker'[v] = worker[v] /\ RunDecides(v)
      BY <2>2 DEF RunStep, OneDecides
    <3>2. CASE worker[v].step = "idle"
      BY <3>1, <3>2 DEF RunDecides, BeforeOutcome, OutcomeAt, Task
    <3>3. CASE worker[v].step # "idle"
      <4>1. Task(v) \in Tasks /\ Task(v) # t
        BY <2>2, <3>3 DEF TypeOK, OneDecides, OneRunPerTask
      <4>2. QED BY <3>1, <4>1 DEF RunStep, RunDecides, Task
    <3>4. QED BY <3>2, <3>3
  <2>3. QED BY <2>1, <2>2
<1>6. OneRunPerTask'
  <2>1. SUFFICES ASSUME NEW v \in Workers, NEW x \in Workers,
                        worker'[v].step # "idle", worker'[x].step # "idle",
                        worker'[v].task = worker'[x].task
                 PROVE  v = x
    BY DEF OneRunPerTask, Task
  <2>2. \A y \in Workers : worker'[y].step # "idle" =>
            worker[y].step # "idle" /\ worker'[y].task = worker[y].task
    BY DEF RunStep, Task
  <2>3. QED BY <2>1, <2>2 DEF OneDecides, OneRunPerTask, Task
<1>7. ToldMatchesRow'
  BY DEF OneDecides, ToldMatchesRow, RunStep
<1>8. QED BY <1>4, <1>5, <1>6, <1>7 DEF OneDecides

\* Undisturbed, a transaction that raises has no effect, and an event that
\* cannot be sent does not stop the run.
LEMMA UndisturbedTransaction ==
    ASSUME Undisturbed, row \in [Tasks -> RowType], NEW t \in Tasks, NEW r, Raises(t, r)
    PROVE  UNCHANGED row
  BY DEF Undisturbed, Raises

LEMMA UndisturbedBroadcast ==
    ASSUME Undisturbed, TypeOK, NEW w \in Workers, Task(w) \in Tasks,
           NEW event, NEW next, NEW handler, Broadcast(w, event, next, handler)
    PROVE  /\ Goto(w, next)
           /\ UNCHANGED told \/ told' = [told EXCEPT ![Task(w)] = event]
  BY RuntimeAssumption DEF Undisturbed, Broadcast

\* A step of a run that leaves row and events alone.
LEMMA SilentRunStep ==
    ASSUME TypeOK, OneDecides, NEW w \in Workers, worker[w].step # "idle",
           UNCHANGED <<row, told>>,
           \A v \in Workers : v # w => worker'[v] = worker[v],
           worker'[w].step = "idle" \/ worker'[w].task = Task(w),
           RunDecides(w)'
    PROVE  RunStep(w)
<1>1. Task(w) \in Tasks /\ Executing(Task(w))
  BY DEF TypeOK, Executing
<1>2. Exists(row[Task(w)]) /\ row[Task(w)].status # "uploading"
  BY <1>1 DEF OneDecides, UploadDecides
<1>3. told[Task(w)] \in Terminal => row[Task(w)].status = told[Task(w)]
  BY <1>1 DEF OneDecides, ToldMatchesRow
<1>4. ClientStep(Task(w))
  BY DEF ClientStep, ClientStatus, ClientHeard, Exists
<1>5. QED BY <1>2, <1>3, <1>4 DEF RunStep

\* A step of a run that commits its row, still without an outcome, as r.
LEMMA CommitRunStep ==
    ASSUME TypeOK, OneDecides, NEW w \in Workers, worker[w].step \in BeforeOutcome,
           NEW r, NEW step \in BeforeOutcome \cup DOMAIN OutcomeAt,
           SetRow(Task(w), r), Goto(w, step), UNCHANGED told,
           r.status \in {"processing"} \cup Terminal,
           r.cancelRequested = row[Task(w)].cancelRequested,
           r.status = "cancelled" => r.cancelRequested,
           step \in BeforeOutcome => r.status = "processing",
           step # "markCancelled",
           step \in DOMAIN OutcomeAt => r.status = OutcomeAt[step]
    PROVE  RunStep(w)
<1> DEFINE t == Task(w)
<1>1. t \in Tasks /\ row[t].status = "processing" /\ told[t] \notin Terminal
  BY DEF TypeOK, OneDecides, RunDecides, BeforeOutcome
<1>2. /\ row' = [row EXCEPT ![t] = r] /\ row'[t] = r
      /\ \A u \in Tasks : u # t => row'[u] = row[u]
  BY <1>1 DEF SetRow, TypeOK
<1>3. /\ \A v \in Workers : v # w => worker'[v] = worker[v]
      /\ worker'[w].step = step /\ worker'[w].task = t
  BY DEF Goto, TypeOK, WorkerType, Task
<1>4. RunDecides(w)'
  BY <1>1, <1>2, <1>3 DEF RunDecides, Task
<1>5. ClientStep(t)
  BY <1>1, <1>2 DEF ClientStep, ClientStatus, ClientHeard, Exists, Terminal
<1>6. QED BY <1>1, <1>2, <1>3, <1>4, <1>5 DEF RunStep, Exists, Terminal

\* A step of a run that sends an event, or fails to.
LEMMA TellRunStep ==
    ASSUME TypeOK, OneDecides, NEW w \in Workers,
           NEW event, NEW step \in BeforeOutcome \cup {"cleanup"},
           UNCHANGED told \/ told' = [told EXCEPT ![Task(w)] = event],
           UNCHANGED row, Goto(w, step), step # "markCancelled",
           \/ worker[w].step \in BeforeOutcome /\ event \notin Terminal
           \/ /\ worker[w].step \in DOMAIN OutcomeAt
              /\ event = OutcomeAt[worker[w].step] /\ step = "cleanup"
    PROVE  RunStep(w)
<1> DEFINE t == Task(w)
<1>1. t \in Tasks /\ told[t] \notin Terminal
  BY DEF TypeOK, OneDecides, RunDecides, BeforeOutcome, OutcomeAt
<1>2. Exists(row[t]) /\ row[t].status # "uploading"
  BY <1>1 DEF OneDecides, RunDecides, BeforeOutcome, OutcomeAt, Exists
<1>3. /\ \A v \in Workers : v # w => worker'[v] = worker[v]
      /\ worker'[w].step = step /\ worker'[w].task = t
  BY DEF Goto, TypeOK, WorkerType, Task
<1>4. /\ worker[w].step \in BeforeOutcome => row[t].status = "processing"
      /\ worker[w].step \in DOMAIN OutcomeAt =>
             row[t].status = OutcomeAt[worker[w].step] /\ row[t].status \in Terminal
  BY DEF OneDecides, RunDecides, OutcomeAt, Terminal
<1>5. \A u \in Tasks : u # t => told'[u] = told[u]
  BY <1>1 DEF TypeOK
<1>6. told'[t] \in Terminal => told'[t] = row[t].status /\ row[t].status \in Terminal
  BY <1>1, <1>4 DEF TypeOK
<1>7. RunDecides(w)'
  BY <1>1, <1>3, <1>4 DEF RunDecides, Task, TypeOK, BeforeOutcome, OutcomeAt
<1>8. ClientStep(t)
  BY <1>1, <1>2, <1>5, <1>6 DEF ClientStep, ClientStatus, ClientHeard, Exists
<1>9. QED BY <1>1, <1>2, <1>3, <1>5, <1>6, <1>7, <1>8 DEF RunStep

LEMMA WorkerStepRunStep ==
    ASSUME Undisturbed, TypeOK, OneDecides, NEW w \in Workers, WorkerStep(w)
    PROVE  /\ RunStep(w)
           /\ UNCHANGED <<upload, inbox, deliveries, recovery, cleaner>>
<1> DEFINE t == Task(w)
<1>1. worker[w].step # "idle" /\ t \in Tasks /\ row[t] \in RowType
  BY DEF TypeOK, WorkerStep, EnsureExists, CreateMissing, AdoptExisting, TouchRuntime, CheckCancel,
         BeginPhase, FinishPhase, CommitResult, AnnounceCompleted, CommitCancellation,
         AnnounceCancelled, CommitFailure, AnnounceFailed, CleanupTempFile, At
<1>2. UNCHANGED <<upload, inbox, deliveries, recovery, cleaner>>
  BY DEF WorkerStep, EnsureExists, CreateMissing, AdoptExisting, TouchRuntime, CheckCancel,
         BeginPhase, FinishPhase, CommitResult, AnnounceCompleted, CommitCancellation,
         AnnounceCancelled, CommitFailure, AnnounceFailed, CleanupTempFile,
         requestVars, queueVars, jobVars
<1>3. SUFFICES RunStep(w)
  BY <1>2
<1>4. RunDecides(w) /\ worker \in [Workers -> WorkerType] /\ row \in [Tasks -> RowType]
  BY DEF OneDecides, TypeOK
<1>5. /\ worker[w].step \in BeforeOutcome =>
             row[t].status = "processing" /\ told[t] \notin Terminal
      /\ worker[w].step = "markCancelled" => row[t].cancelRequested
  BY <1>4 DEF RunDecides
\* Steps that write neither the row nor an event.
<1>6. ASSUME NEW step \in BeforeOutcome \cup {"cleanup"}, Goto(w, step), UNCHANGED <<row, told>>,
             step \in BeforeOutcome => worker[w].step \in BeforeOutcome,
             step = "markCancelled" => row[t].cancelRequested
      PROVE  RunStep(w)
  <2>1. /\ \A v \in Workers : v # w => worker'[v] = worker[v]
        /\ worker'[w].step = step /\ worker'[w].task = t
    BY <1>4, <1>6 DEF Goto, WorkerType, Task
  <2>2. RunDecides(w)'
    BY <1>5, <1>6, <2>1 DEF RunDecides, Task, BeforeOutcome, OutcomeAt
  <2>3. QED BY <1>1, <1>6, <2>1, <2>2, SilentRunStep
<1>7. CASE EnsureExists(w)
  <2>1. row[t].status = "processing"
    BY <1>5, <1>7 DEF EnsureExists, At, BeforeOutcome
  <2>2. QED BY <1>6, <1>7, <2>1 DEF EnsureExists, At, BeforeOutcome, Exists
<1>8. CASE CreateMissing(w) \/ AdoptExisting(w)
  BY <1>4, <1>8 DEF CreateMissing, AdoptExisting, At, RunDecides, BeforeOutcome, OutcomeAt
<1>9. CASE TouchRuntime(w)
  <2>1. worker[w].step \in BeforeOutcome /\ row[t].status = "processing"
    BY <1>5, <1>9 DEF TouchRuntime, At, BeforeOutcome
  <2>2. /\ TouchHeartbeat(row[t]).status = "processing"
        /\ TouchHeartbeat(row[t]).cancelRequested = row[t].cancelRequested
    BY <1>1, <2>1 DEF TouchHeartbeat, RowType
  <2>3. CASE SetRow(t, TouchHeartbeat(row[t])) /\ Goto(w, "check")
    BY <1>9, <2>1, <2>2, <2>3, CommitRunStep DEF TouchRuntime, BeforeOutcome, OutcomeAt
  <2>4. CASE UNCHANGED row /\ Goto(w, "markFailed")
    BY <1>6, <1>9, <2>1, <2>4 DEF TouchRuntime, BeforeOutcome
  <2>5. QED BY <1>1, <1>4, <1>9, <2>3, <2>4, UndisturbedTransaction DEF TouchRuntime, Transaction
<1>10. CASE CheckCancel(w)
  <2>1. worker[w].step \in BeforeOutcome
    BY <1>10 DEF CheckCancel, At, BeforeOutcome
  <2>2. IsCancellationPending(row[t]) => row[t].cancelRequested
    BY DEF IsCancellationPending
  <2>3. QED BY <1>6, <1>10, <2>1, <2>2 DEF CheckCancel, BeforeOutcome
<1>11. CASE BeginPhase(w)
  <2>1. worker[w].step \in BeforeOutcome /\ worker[w].phase \notin Terminal
    BY <1>4, <1>11 DEF BeginPhase, At, BeforeOutcome, WorkerType, Phases, Terminal
  <2>2. /\ Goto(w, "work") /\ UNCHANGED row
        /\ UNCHANGED told \/ told' = [told EXCEPT ![t] = worker[w].phase]
    BY <1>1, <1>11, UndisturbedBroadcast DEF BeginPhase
  <2>3. QED BY <2>1, <2>2, TellRunStep DEF BeforeOutcome
<1>12. CASE FinishPhase(w)
  <2>1. worker[w].step \in BeforeOutcome /\ UNCHANGED <<row, told>>
    BY <1>12 DEF FinishPhase, At, BeforeOutcome
  <2>2. CASE Goto(w, "markFailed")
    BY <1>6, <2>1, <2>2 DEF BeforeOutcome
  <2>3. CASE ~Goto(w, "markFailed")
    <3>1. /\ \A v \in Workers : v # w => worker'[v] = worker[v]
          /\ worker'[w].step = "touch" /\ worker'[w].task = t
      BY <1>4, <1>12, <2>3 DEF FinishPhase, WorkerType, Task
    <3>2. RunDecides(w)'
      BY <1>5, <2>1, <3>1 DEF RunDecides, Task, BeforeOutcome, OutcomeAt
    <3>3. QED BY <1>1, <2>1, <3>1, <3>2, SilentRunStep
  <2>4. QED BY <2>2, <2>3
\* Steps that commit an outcome, or hand the run to its exception handler.
<1>13. ASSUME NEW r, NEW next \in DOMAIN OutcomeAt,
              NEW handler \in {"markFailed", "cleanup"}, UNCHANGED told,
              worker[w].step \in BeforeOutcome, Transaction(w, r, next, handler),
              r.status = OutcomeAt[next], r.cancelRequested = row[t].cancelRequested,
              r.status = "cancelled" => r.cancelRequested
       PROVE  RunStep(w)
  <2>1. CASE SetRow(t, r) /\ Goto(w, next)
    BY <1>13, <2>1, CommitRunStep DEF BeforeOutcome, OutcomeAt, Terminal
  <2>2. CASE Raises(t, r) /\ Goto(w, handler)
    BY <1>1, <1>4, <1>6, <1>13, <2>2, UndisturbedTransaction DEF BeforeOutcome
  <2>3. QED BY <1>13, <2>1, <2>2 DEF Transaction
<1>14. CASE CommitResult(w)
  <2>1. worker[w].step \in BeforeOutcome /\ row[t].status = "processing"
    BY <1>5, <1>14 DEF CommitResult, At, BeforeOutcome
  <2>2. LET r == UpdateAnalysis(row[t], "completed", {"data"} \cup worker[w].filename)
        IN  r.status = "completed" /\ r.cancelRequested = row[t].cancelRequested
    BY <1>1, <2>1 DEF UpdateAnalysis, ApplySummary, Exists, RowType
  <2>3. QED BY <1>13, <1>14, <2>1, <2>2 DEF CommitResult, OutcomeAt
<1>15. CASE CommitFailure(w)
  <2>1. worker[w].step \in BeforeOutcome /\ row[t].status = "processing"
    BY <1>5, <1>15 DEF CommitFailure, At, BeforeOutcome
  <2>2. LET r == UpdateAnalysis(row[t], "failed", FailedPayload)
        IN  r.status = "failed" /\ r.cancelRequested = row[t].cancelRequested
    BY <1>1, <2>1 DEF UpdateAnalysis, ApplySummary, Exists, RowType
  <2>3. QED BY <1>13, <1>15, <2>1, <2>2 DEF CommitFailure, OutcomeAt
<1>16. CASE CommitCancellation(w)
  <2>1. /\ worker[w].step \in BeforeOutcome /\ row[t].status = "processing"
        /\ row[t].cancelRequested = TRUE
    BY <1>1, <1>5, <1>16 DEF CommitCancellation, At, BeforeOutcome, RowType
  <2>2. LET r == MarkAnalysisCancelled(row[t])
        IN  r.status = "cancelled" /\ r.cancelRequested = TRUE
    BY <1>1, <2>1 DEF MarkAnalysisCancelled, ApplySummary, Exists, RowType
  <2>3. QED BY <1>13, <1>16, <2>1, <2>2 DEF CommitCancellation, OutcomeAt
\* Steps that announce it.
<1>17. ASSUME NEW handler, worker[w].step \in DOMAIN OutcomeAt, UNCHANGED row,
              Broadcast(w, OutcomeAt[worker[w].step], "cleanup", handler)
       PROVE  RunStep(w)
  <2>1. /\ Goto(w, "cleanup")
        /\ UNCHANGED told \/ told' = [told EXCEPT ![t] = OutcomeAt[worker[w].step]]
    BY <1>1, <1>17, UndisturbedBroadcast
  <2>2. QED BY <1>17, <2>1, TellRunStep
<1>18. CASE AnnounceCompleted(w)
  BY <1>17, <1>18 DEF AnnounceCompleted, At, OutcomeAt
<1>19. CASE AnnounceCancelled(w)
  BY <1>17, <1>19 DEF AnnounceCancelled, At, OutcomeAt
<1>20. CASE AnnounceFailed(w)
  BY <1>17, <1>20 DEF AnnounceFailed, At, OutcomeAt
<1>21. CASE CleanupTempFile(w)
  <2>1. /\ \A v \in Workers : v # w => worker'[v] = worker[v]
        /\ worker'[w].step = "idle" /\ UNCHANGED <<row, told>>
    BY <1>4, <1>21 DEF CleanupTempFile, IdleWorker
  <2>2. RunDecides(w)'
    BY <2>1 DEF RunDecides, BeforeOutcome, OutcomeAt
  <2>3. QED BY <1>1, <2>1, <2>2, SilentRunStep
<1>22. QED
  BY <1>7, <1>8, <1>9, <1>10, <1>11, <1>12, <1>14, <1>15, <1>16, <1>18, <1>19, <1>20, <1>21
  DEF WorkerStep

\* A step of a request or of the queue about t, which no run takes.
LEMMA OutsideStep ==
    ASSUME TypeOK, OneDecides, NEW t \in Tasks,
           UNCHANGED <<worker, told, recovery, cleaner>>,
           \A u \in Tasks : u # t => /\ row'[u] = row[u] /\ upload'[u] = upload[u]
                                     /\ inbox'[u] = inbox[u] /\ deliveries'[u] = deliveries[u],
           UploadDecides(t)', DeliveryDecides(t)',
           Executing(t) \/ told[t] \in Terminal =>
               /\ row'[t].status = row[t].status
               /\ row[t].cancelRequested => row'[t].cancelRequested
    PROVE  OneDecides'
<1>1. \A u \in Tasks : Executing(u)' <=> Executing(u)
  BY DEF Executing, Task
<1>2. \A u \in Tasks : UploadDecides(u)' /\ DeliveryDecides(u)'
  <2>1. SUFFICES ASSUME NEW u \in Tasks, u # t
                 PROVE  UploadDecides(u)' /\ DeliveryDecides(u)'
    OBVIOUS
  <2>2. UploadDecides(u) /\ DeliveryDecides(u)
    BY DEF OneDecides
  <2>3. QED BY <1>1, <2>1, <2>2 DEF UploadDecides, DeliveryDecides
<1>3. ASSUME NEW w \in Workers
      PROVE  RunDecides(w)'
  <2>1. RunDecides(w)
    BY DEF OneDecides
  <2>2. CASE worker[w].step = "idle"
    BY <2>1, <2>2 DEF RunDecides, BeforeOutcome, OutcomeAt, Task
  <2>3. CASE worker[w].step # "idle"
    <3>1. Task(w) \in Tasks /\ Executing(Task(w))
      BY <2>3 DEF TypeOK, Executing
    <3>2. /\ row'[Task(w)].status = row[Task(w)].status
          /\ row[Task(w)].cancelRequested => row'[Task(w)].cancelRequested
      BY <3>1
    <3>3. QED BY <2>1, <3>2 DEF RunDecides, Task
  <2>4. QED BY <2>2, <2>3
<1>4. OneRunPerTask' /\ ToldMatchesRow'
  BY DEF OneDecides, OneRunPerTask, ToldMatchesRow, Task
<1>5. QED BY <1>2, <1>3, <1>4 DEF OneDecides

\* Executions that end or begin, with nothing else about them changed.
LEMMA QuietStep ==
    ASSUME UNCHANGED <<row, told>>
    PROVE  /\ [Contract!Next]_(Contract!vars)
           /\ \A t \in Tasks : ClientStep(t)
<1>1. \A t \in Tasks : ClientStep(t)
  BY DEF ClientStep
<1>2. UNCHANGED Contract!vars
  BY DEF Contract!vars
<1>3. QED BY <1>1, <1>2

LEMMA UploadStepDecides ==
    ASSUME Undisturbed, TypeOK, OneDecides, NEW t \in Tasks, SaveUpload(t) \/ UploadStep(t)
    PROVE  OneDecides' /\ ClientStep(t)
<1> DEFINE r == row[t]
<1>1. r \in RowType /\ row \in [Tasks -> RowType] /\ upload[t] # "accepted"
  BY DEF TypeOK, SaveUpload, UploadStep, CreateRecord, RejectUpload, Dispatch, DispatchFails,
         RecordDispatchFailure
<1>2. /\ UploadDecides(t) /\ DeliveryDecides(t)
      /\ ~Executing(t) /\ told[t] = "none" /\ inbox[t] = 0 /\ deliveries[t] = 0
  BY <1>1 DEF OneDecides, UploadDecides
<1>3. UNCHANGED <<worker, told, recovery, cleaner>>
  BY DEF SaveUpload, UploadStep, CreateRecord, RejectUpload, Dispatch, DispatchFails,
         RecordDispatchFailure, jobVars
<1>4. /\ upload' = [upload EXCEPT ![t] = upload'[t]]
      /\ inbox' = [inbox EXCEPT ![t] = inbox'[t]]
      /\ deliveries' = [deliveries EXCEPT ![t] = deliveries'[t]]
  BY DEF TypeOK, SaveUpload, UploadStep, CreateRecord, RejectUpload, Dispatch, DispatchFails,
         RecordDispatchFailure, queueVars
<1>5. ~Executing(t)' /\ told[t] \notin Terminal
  BY <1>2, <1>3 DEF Executing, Task, Terminal
<1>6. ASSUME UNCHANGED row, UploadDecides(t)', DeliveryDecides(t)'
      PROVE  OneDecides' /\ ClientStep(t)
  BY <1>2, <1>3, <1>4, <1>5, <1>6, OutsideStep, QuietStep DEF TypeOK
<1>7. ASSUME NEW new, row' = [row EXCEPT ![t] = new], UploadDecides(t)', DeliveryDecides(t)'
      PROVE  OneDecides'
  BY <1>2, <1>3, <1>4, <1>5, <1>7, OutsideStep DEF TypeOK
<1>8. CASE SaveUpload(t)
  BY <1>2, <1>3, <1>5, <1>6, <1>8 DEF SaveUpload, queueVars, UploadDecides, DeliveryDecides, TypeOK
<1>9. CASE CreateRecord(t)
  <2>1. r = NoRow /\ upload[t] = "saved" /\ upload'[t] = "created"
    BY <1>2, <1>9 DEF CreateRecord, UploadDecides, TypeOK
  <2>2. LET new == CreateAnalysis({"filename"})
        IN  /\ row' = [row EXCEPT ![t] = new] /\ row'[t] = new
            /\ new.status = "processing" /\ new.cancelRequested = FALSE
    BY <1>1, <1>9 DEF CreateRecord, SetRow, CreateAnalysis, NoRow
  <2>3. NoRow.cancelRequested = FALSE /\ NoRow.status = "absent"
    BY DEF NoRow
  <2>4. UploadDecides(t)' /\ DeliveryDecides(t)'
    BY <1>2, <1>3, <1>5, <1>9, <2>1, <2>2 DEF CreateRecord, queueVars, UploadDecides, DeliveryDecides
  <2>5. ClientStep(t)
    <3>1. /\ r.status = "absent" /\ row'[t].status = "processing"
          /\ row'[t].cancelRequested = r.cancelRequested
          /\ \A u \in Tasks : u # t => row'[u] = row[u]
      BY <1>1, <2>1, <2>2, <2>3
    <3>2. QED BY <1>3, <3>1 DEF ClientStep, ClientStatus, Exists
  <2>6. QED BY <1>7, <2>2, <2>4, <2>5
<1>10. CASE RejectUpload(t)
  <2>1. UNCHANGED row
    BY <1>1, <1>10, UndisturbedTransaction DEF RejectUpload
  <2>2. QED BY <1>2, <1>3, <1>5, <1>6, <1>10, <2>1
        DEF RejectUpload, queueVars, UploadDecides, DeliveryDecides, TypeOK
<1>11. CASE Dispatch(t)
  <2>1. r.status = "processing"
    BY <1>2, <1>11 DEF Dispatch, UploadDecides
  <2>2. /\ UNCHANGED row /\ upload'[t] = "accepted"
        /\ inbox'[t] = 1 /\ deliveries'[t] = 1
    BY <1>2, <1>11 DEF Dispatch, TypeOK
  <2>3. QED BY <1>2, <1>3, <1>5, <1>6, <2>1, <2>2 DEF UploadDecides, DeliveryDecides, Exists
<1>12. CASE DispatchFails(t)
  BY <1>2, <1>3, <1>5, <1>6, <1>12
  DEF DispatchFails, queueVars, UploadDecides, DeliveryDecides, TypeOK
<1>13. CASE RecordDispatchFailure(t)
  <2>1. /\ r.status = "processing" /\ upload'[t] = "rejected"
        /\ inbox'[t] = 0 /\ deliveries'[t] = 0
    BY <1>2, <1>13 DEF RecordDispatchFailure, UploadDecides, TypeOK, queueVars
  <2>2. CASE UNCHANGED row
    BY <1>2, <1>3, <1>5, <1>6, <2>1, <2>2 DEF UploadDecides, DeliveryDecides
  <2>3. CASE SetRow(t, UpdateAnalysis(r, "failed", FailedPayload))
    <3>1. LET new == UpdateAnalysis(r, "failed", FailedPayload)
          IN  /\ row' = [row EXCEPT ![t] = new] /\ row'[t] = new
              /\ new.status = "failed" /\ new.cancelRequested = r.cancelRequested
      BY <1>1, <2>1, <2>3 DEF SetRow, UpdateAnalysis, ApplySummary, Exists, RowType
    <3>2. UploadDecides(t)' /\ DeliveryDecides(t)'
      BY <1>2, <1>3, <1>5, <2>1, <3>1 DEF UploadDecides, DeliveryDecides
    <3>3. ClientStep(t)
      BY <1>1, <1>3, <2>1, <3>1 DEF ClientStep, ClientStatus, Exists, Terminal
    <3>4. QED BY <1>7, <3>1, <3>2, <3>3
  <2>4. QED BY <1>1, <1>13, <2>2, <2>3, UndisturbedTransaction DEF RecordDispatchFailure
<1>14. QED BY <1>8, <1>9, <1>10, <1>11, <1>12, <1>13 DEF UploadStep

LEMMA CancelStepDecides ==
    ASSUME Undisturbed, TypeOK, OneDecides, NEW t \in Tasks, RequestCancel(t) \/ CancelStep(t)
    PROVE  OneDecides' /\ ClientStep(t)
<1> DEFINE r == row[t]
<1>1. r \in RowType /\ row \in [Tasks -> RowType] /\ UploadDecides(t) /\ DeliveryDecides(t)
  BY DEF TypeOK, OneDecides
<1>2. UNCHANGED <<upload, inbox, deliveries, worker, told, recovery, cleaner>>
  BY DEF RequestCancel, CancelStep, RecordCancel, RevokeTask, requestVars, queueVars, jobVars
<1>3. Executing(t)' <=> Executing(t)
  BY <1>2 DEF Executing, Task
<1>4. CASE UNCHANGED row
  <2>1. UploadDecides(t)' /\ DeliveryDecides(t)'
    BY <1>1, <1>2, <1>3, <1>4 DEF UploadDecides, DeliveryDecides
  <2>2. QED BY <1>2, <1>4, <2>1, OutsideStep, QuietStep
<1>5. CASE row' = [row EXCEPT ![t] = RequestAnalysisCancel(r)] /\ row' # row
  <2>1. /\ r.status = "processing" /\ row'[t].status = "processing"
        /\ row'[t].cancelRequested = TRUE
        /\ \A u \in Tasks : u # t => row'[u] = row[u]
    <3>1. row'[t] = RequestAnalysisCancel(r) /\ RequestAnalysisCancel(r) # r
      BY <1>1, <1>5
    <3>2. r.status \in InProgress /\ row'[t] = [r EXCEPT !.cancelRequested = TRUE]
      BY <3>1 DEF RequestAnalysisCancel
    <3>3. r.status = "processing"
      BY <1>1, <3>2 DEF UploadDecides, InProgress
    <3>4. QED BY <1>1, <1>5, <3>2, <3>3 DEF RowType
  <2>2. UploadDecides(t)' /\ DeliveryDecides(t)'
    BY <1>1, <1>2, <1>3, <2>1 DEF UploadDecides, DeliveryDecides, NoRow, Exists
  <2>3. OneDecides'
    BY <1>2, <2>1, <2>2, OutsideStep
  <2>4. ClientStep(t)
    BY <1>2, <2>1 DEF ClientStep, ClientStatus, Exists
  <2>5. QED BY <2>3, <2>4
<1>6. QED
  BY <1>1, <1>4, <1>5, UndisturbedTransaction
  DEF RequestCancel, CancelStep, RecordCancel, RevokeTask, SetRow

\* Taking, dropping or losing a delivery, and a crash, decide nothing.
LEMMA DeliveryStepDecides ==
    ASSUME TypeOK, OneDecides, NEW w \in Workers, NEW t \in Tasks,
           StartWork(w, t) \/ DiscardRevoked(w, t)
    PROVE  OneDecides'
<1>1. /\ UploadDecides(t) /\ DeliveryDecides(t) /\ inbox[t] = 1
      /\ ~Executing(t) /\ row[t].status = "processing" /\ told[t] = "none"
  BY DEF OneDecides, DeliveryDecides, StartWork, DiscardRevoked
<1>2. /\ UNCHANGED <<row, upload, deliveries, told, recovery, cleaner>>
      /\ inbox' = [inbox EXCEPT ![t] = 0]
  BY <1>1 DEF StartWork, DiscardRevoked, requestVars, jobVars
<1>3. CASE DiscardRevoked(w, t)
  <2>1. UNCHANGED worker /\ (Executing(t)' <=> Executing(t))
    BY <1>3 DEF DiscardRevoked, Executing, Task
  <2>2. /\ inbox'[t] = 0
        /\ \A u \in Tasks : u # t => inbox'[u] = inbox[u]
    BY <1>2 DEF TypeOK
  <2>3. UploadDecides(t)' /\ DeliveryDecides(t)'
    BY <1>1, <1>2, <2>1, <2>2 DEF UploadDecides, DeliveryDecides
  <2>4. QED BY <1>2, <2>1, <2>2, <2>3, OutsideStep
<1>4. CASE StartWork(w, t)
  <2>1. /\ worker'[w].step = "ensure" /\ worker'[w].task = t
        /\ \A v \in Workers : v # w => worker'[v] = worker[v]
        /\ worker[w].step = "idle"
    BY <1>4 DEF StartWork, FreshRun, TypeOK
  <2>2. /\ inbox'[t] = 0
        /\ \A u \in Tasks : u # t => inbox'[u] = inbox[u]
    BY <1>2 DEF TypeOK
  <2>3. \A u \in Tasks : u # t => (Executing(u)' <=> Executing(u))
    BY <2>1 DEF Executing, Task
  <2>4. \A u \in Tasks : UploadDecides(u)' /\ DeliveryDecides(u)'
    <3>1. upload[t] = "accepted"
      BY <1>1 DEF UploadDecides
    <3>2. UploadDecides(t)' /\ DeliveryDecides(t)'
      BY <1>1, <1>2, <2>2, <3>1 DEF UploadDecides, DeliveryDecides
    <3>3. ASSUME NEW u \in Tasks, u # t
          PROVE  UploadDecides(u)' /\ DeliveryDecides(u)'
      BY <1>2, <2>2, <2>3, <3>3 DEF OneDecides, UploadDecides, DeliveryDecides
    <3>4. QED BY <3>2, <3>3
  <2>5. ASSUME NEW v \in Workers
        PROVE  RunDecides(v)'
    <3>1. CASE v = w
      BY <1>1, <1>2, <2>1, <3>1 DEF RunDecides, Task, BeforeOutcome, OutcomeAt, Terminal
    <3>2. CASE v # w
      BY <1>2, <2>1, <3>2 DEF OneDecides, RunDecides, Task
    <3>3. QED BY <3>1, <3>2
  <2>6. OneRunPerTask'
    <3>1. \A v \in Workers : v # w /\ worker'[v].step # "idle" => worker'[v].task # t
      BY <1>1, <2>1 DEF Executing, Task
    <3>2. QED BY <2>1, <3>1 DEF OneDecides, OneRunPerTask, Task
  <2>7. ToldMatchesRow'
    BY <1>2 DEF OneDecides, ToldMatchesRow
  <2>8. QED BY <1>2, <2>4, <2>5, <2>6, <2>7 DEF OneDecides
<1>5. QED BY <1>3, <1>4

LEMMA CrashDecides ==
    ASSUME TypeOK, OneDecides, ApiCrash \/ (\E w \in Workers : WorkerCrash(w))
    PROVE  OneDecides'
<1>1. /\ UNCHANGED <<row, deliveries, told, recovery, cleaner>>
      /\ \A w \in Workers : worker'[w] = worker[w] \/ worker'[w] = IdleWorker
      /\ \A t \in Tasks : inbox'[t] \in {inbox[t], 0}
      /\ \A t \in Tasks : upload'[t] = upload[t] \/ (upload[t] # "accepted" /\ upload'[t] = "crashed")
  <2>1. CASE ApiCrash
    <3>1. \A w \in Workers : worker'[w] = worker[w] \/ worker'[w] = IdleWorker
      BY <2>1 DEF ApiCrash
    <3>2. \A t \in Tasks : inbox'[t] \in {inbox[t], 0}
      BY <2>1 DEF ApiCrash
    <3>3. UNCHANGED <<row, deliveries, told, recovery, cleaner>>
      BY <2>1 DEF ApiCrash, jobVars
    <3>4. ASSUME NEW t \in Tasks
          PROVE  upload'[t] = upload[t] \/ (upload[t] # "accepted" /\ upload'[t] = "crashed")
      BY <2>1 DEF ApiCrash
    <3>5. QED BY <3>1, <3>2, <3>3, <3>4
  <2>2. ASSUME NEW w \in Workers, WorkerCrash(w)
        PROVE  /\ UNCHANGED <<row, deliveries, told, recovery, cleaner, inbox, upload>>
               /\ \A v \in Workers : worker'[v] = worker[v] \/ worker'[v] = IdleWorker
    BY <2>2 DEF WorkerCrash, jobVars, requestVars, queueVars, TypeOK
  <2>3. CASE \E w \in Workers : WorkerCrash(w)
    BY <2>2, <2>3
  <2>4. QED BY <2>1, <2>3
<1>2. \A w \in Workers : worker'[w].step # "idle" => worker'[w] = worker[w]
  BY <1>1 DEF IdleWorker
<1>3. \A t \in Tasks : Executing(t)' => Executing(t)
  BY <1>2 DEF Executing, Task
<1>4. ASSUME NEW t \in Tasks
      PROVE  UploadDecides(t)' /\ DeliveryDecides(t)'
  <2>1. UploadDecides(t) /\ DeliveryDecides(t)
    BY DEF OneDecides
  <2>2. QED BY <1>1, <1>3, <2>1 DEF UploadDecides, DeliveryDecides
<1>5. ASSUME NEW w \in Workers
      PROVE  RunDecides(w)'
  BY <1>1, <1>2 DEF OneDecides, RunDecides, Task, BeforeOutcome, OutcomeAt
<1>6. OneRunPerTask' /\ ToldMatchesRow'
  BY <1>1, <1>2 DEF OneDecides, OneRunPerTask, ToldMatchesRow, Task
<1>7. QED BY <1>1, <1>4, <1>5, <1>6 DEF OneDecides

\* Every step of an undisturbed system keeps the invariant and is, for its
\* clients, a step of the contract or none.
LEMMA NextDecides ==
    ASSUME Undisturbed, TypeOK, OneDecides, [Next]_vars
    PROVE  OneDecides' /\ [Contract!Next]_(Contract!vars)
<1>1. ASSUME NEW t \in Tasks, SaveUpload(t) \/ UploadStep(t) \/ RequestCancel(t) \/ CancelStep(t)
      PROVE  OneDecides' /\ [Contract!Next]_(Contract!vars)
  BY <1>1, UploadStepDecides, CancelStepDecides, ContractAllows
<1>2. ASSUME NEW t \in Tasks, Redeliver(t)
      PROVE  FALSE
  <2>1. inbox[t] \in {0, 1} /\ deliveries[t] \in {0, 1} /\ inbox[t] > 0 /\ deliveries[t] < 1
    BY <1>2 DEF Redeliver, Undisturbed, OneDecides, UploadDecides, DeliveryDecides
  <2>2. upload[t] = "accepted"
    BY <2>1 DEF OneDecides, UploadDecides
  <2>3. QED BY <2>1, <2>2 DEF OneDecides, UploadDecides
<1>3. ASSUME NEW t \in Tasks, HeartbeatExpires(t) \/ RowAges(t)
      PROVE  FALSE
  BY <1>3 DEF HeartbeatExpires, RowAges, Undisturbed
<1>4. CASE RecoveryStep \/ RecoveryAborts \/ CleanerFind \/ CleanerDelete
  BY <1>4 DEF RecoveryStep, RecoveryFind, RecoverySelect, RecoveryCommit, RecoveryAnnounce,
     RecoveryAborts, CleanerFind, CleanerDelete, Undisturbed, OneDecides
<1>5. ASSUME NEW w \in Workers, NEW t \in Tasks, StartWork(w, t) \/ DiscardRevoked(w, t)
      PROVE  OneDecides' /\ [Contract!Next]_(Contract!vars)
  <2>1. UNCHANGED <<row, told>>
    BY <1>5 DEF StartWork, DiscardRevoked
  <2>2. QED BY <1>5, <2>1, DeliveryStepDecides, QuietStep
<1>6. ASSUME NEW w \in Workers, WorkerStep(w)
      PROVE  OneDecides' /\ [Contract!Next]_(Contract!vars)
  <2>1. worker[w].step # "idle" /\ Task(w) \in Tasks
    BY <1>6 DEF TypeOK, WorkerStep, EnsureExists, CreateMissing, AdoptExisting, TouchRuntime,
       CheckCancel, BeginPhase, FinishPhase, CommitResult, AnnounceCompleted,
       CommitCancellation, AnnounceCancelled, CommitFailure, AnnounceFailed, CleanupTempFile, At
  <2>2. RunStep(w) /\ UNCHANGED <<upload, inbox, deliveries, recovery, cleaner>>
    BY <1>6, WorkerStepRunStep
  <2>3. OneDecides'
    BY <2>1, <2>2, RunStepKeepsOneDecides
  <2>4. [Contract!Next]_(Contract!vars)
    BY <2>1, <2>2, ContractAllows DEF RunStep
  <2>5. QED BY <2>3, <2>4
<1>7. CASE ApiCrash \/ (\E w \in Workers : WorkerCrash(w))
  <2>1. UNCHANGED <<row, told>>
    BY <1>7 DEF ApiCrash, WorkerCrash
  <2>2. QED BY <1>7, <2>1, CrashDecides, QuietStep
<1>8. CASE UNCHANGED vars
  <2>1. UNCHANGED <<row, upload, inbox, deliveries, worker, recovery, cleaner, told>>
    BY <1>8 DEF vars
  <2>2. OneDecides'
    BY <2>1 DEF OneDecides, UploadDecides, DeliveryDecides, RunDecides, OneRunPerTask,
       ToldMatchesRow, Executing, Task
  <2>3. QED BY <2>1, <2>2, QuietStep
<1>9. QED BY <1>1, <1>2, <1>3, <1>4, <1>5, <1>6, <1>7, <1>8 DEF Next

LEMMA InitDecides == Init => OneDecides /\ Contract!Init
<1> SUFFICES ASSUME Init PROVE OneDecides /\ Contract!Init
  OBVIOUS
<1>1. \A t \in Tasks : UploadDecides(t) /\ DeliveryDecides(t)
  BY DEF Init, UploadDecides, DeliveryDecides, NoRow, Executing, IdleWorker
<1>2. \A w \in Workers : RunDecides(w)
  BY DEF Init, RunDecides, BeforeOutcome, OutcomeAt, IdleWorker
<1>3. OneRunPerTask /\ ToldMatchesRow
  BY DEF Init, OneRunPerTask, ToldMatchesRow, IdleWorker, Terminal
<1>4. recovery.step = "idle" /\ cleaner.step = "idle"
  BY DEF Init, IdleRecovery, IdleCleaner
<1>5. Contract!Init
  BY DEF Init, Contract!Init, ClientStatus, ClientHeard, Exists, NoRow, Terminal
<1>6. QED BY <1>1, <1>2, <1>3, <1>4, <1>5 DEF OneDecides

\* Without maintenance jobs, redelivery and errors after a commit: whatever is
\* cancelled, crashes or is lost, one party at a time can decide the outcome of
\* a task (process_pdf, dispatch_pdf_task, upload_pdf).
THEOREM OutcomeDecidedOnce == ASSUME Undisturbed PROVE Spec => []OneDecides
<1>1. TypeOK /\ OneDecides /\ [Next]_vars => OneDecides'
  BY NextDecides
<1>2. QED BY <1>1, InitDecides, TypeCorrect, PTL DEF Spec

\* Under the same conditions the implementation keeps the client's contract: one
\* final outcome, a cancellation only on request, and clients told only of what
\* the row holds.
THEOREM ContractKept == ASSUME Undisturbed PROVE Spec => KeepsContract
<1>1. TypeOK /\ OneDecides /\ [Next]_vars => [Contract!Next]_(Contract!vars)
  BY NextDecides
<1>2. QED
  BY <1>1, InitDecides, OutcomeDecidedOnce, TypeCorrect, PTL DEF Spec, KeepsContract, Contract!Spec

\* So a completed, failed or cancelled row keeps its status: update_analysis
\* itself would overwrite it.
THEOREM OutcomeIsFinal == ASSUME Undisturbed PROVE Spec => TerminalIsFinal
<1> DEFINE Final == \A t \in Tasks : row[t].status \in Terminal => row'[t].status = row[t].status
<1>1. ASSUME [Contract!Next]_(Contract!vars)
      PROVE  Final
  <2>1. SUFFICES ASSUME NEW t \in Tasks, row[t].status \in Terminal
                 PROVE  row'[t].status = row[t].status
    OBVIOUS
  <2>2. ClientStatus(row[t]) = row[t].status
    BY <2>1 DEF ClientStatus, Exists, Terminal
  <2>3. [u \in Tasks |-> ClientStatus(row'[u])][t] = ClientStatus(row[t])
    <3>1. CASE UNCHANGED Contract!vars
      BY <3>1 DEF Contract!vars
    <3>2. ASSUME NEW u \in Tasks, Contract!Accept(u) \/ Contract!Settle(u)
          PROVE  [x \in Tasks |-> ClientStatus(row'[x])][t] = ClientStatus(row[t])
      BY <2>1, <2>2, <3>2 DEF Contract!Accept, Contract!Settle, Terminal
    <3>3. ASSUME NEW u \in Tasks, Contract!Cancel(u) \/ Contract!Tell(u)
          PROVE  [x \in Tasks |-> ClientStatus(row'[x])][t] = ClientStatus(row[t])
      BY <3>3 DEF Contract!Cancel, Contract!Tell
    <3>4. QED BY <1>1, <3>1, <3>2, <3>3 DEF Contract!Next
  <2>4. QED BY <2>1, <2>2, <2>3 DEF ClientStatus, Exists, Terminal
<1>2. TypeOK /\ OneDecides /\ [Next]_vars => [Final]_vars
  BY <1>1, NextDecides
<1>3. QED
  BY <1>2, OutcomeDecidedOnce, TypeCorrect, PTL DEF Spec, TerminalIsFinal

-----------------------------------------------------------------------------
(* Finished analyses are kept *)

\* What the functions of crud.py leave of a row that exists, exists.
LEMMA StillExists ==
    ASSUME NEW r \in RowType
    PROVE  /\ \A result : Exists(CreateAnalysis(result))
           /\ \A loaded : Exists(MarkStaleFailed(r, loaded))
           /\ Exists(r) => /\ \A s \in InProgress \cup Terminal : \A result :
                                 Exists(UpdateAnalysis(r, s, result))
                           /\ Exists(RequestAnalysisCancel(r))
                           /\ Exists(MarkAnalysisCancelled(r))
                           /\ Exists(TouchHeartbeat(r))
  BY DEF RowType, Exists, CreateAnalysis, NoRow, MarkStaleFailed, UpdateAnalysis, ApplySummary,
     RequestAnalysisCancel, MarkAnalysisCancelled, TouchHeartbeat, InProgress, Terminal

LEMMA WorkerStepKeepsRows ==
    ASSUME TypeOK, NEW w \in Workers, WorkerStep(w), NEW t \in Tasks, Exists(row[t])
    PROVE  Exists(row'[t])
<1>1. worker[w].step # "idle" /\ Task(w) \in Tasks /\ row \in [Tasks -> RowType]
  BY DEF TypeOK, WorkerStep, EnsureExists, CreateMissing, AdoptExisting, TouchRuntime, CheckCancel,
         BeginPhase, FinishPhase, CommitResult, AnnounceCompleted, CommitCancellation,
         AnnounceCancelled, CommitFailure, AnnounceFailed, CleanupTempFile, At
<1>2. ASSUME NEW r, Exists(row[Task(w)]) => Exists(r), NEW next, NEW handler,
             Transaction(w, r, next, handler)
      PROVE  Exists(row'[t])
  <2>1. UNCHANGED row \/ row' = [row EXCEPT ![Task(w)] = r]
    BY <1>1, <1>2, RowAfter DEF Transaction
  <2> QED
    BY <1>1, <1>2, <2>1
<1>3. row[Task(w)] \in RowType /\ {"processing", "completed", "failed"} \subseteq InProgress \cup Terminal
  BY <1>1 DEF InProgress, Terminal
<1>4. CASE CreateMissing(w)
  BY <1>2, <1>3, <1>4, StillExists DEF CreateMissing
<1>5. CASE AdoptExisting(w)
  BY <1>2, <1>3, <1>5, StillExists DEF AdoptExisting
<1>6. CASE TouchRuntime(w)
  BY <1>2, <1>3, <1>6, StillExists DEF TouchRuntime
<1>7. CASE CommitResult(w)
  BY <1>2, <1>3, <1>7, StillExists DEF CommitResult
<1>8. CASE CommitCancellation(w)
  BY <1>2, <1>3, <1>8, StillExists DEF CommitCancellation
<1>9. CASE CommitFailure(w)
  BY <1>2, <1>3, <1>9, StillExists DEF CommitFailure
<1>10. CASE ~(CreateMissing(w) \/ AdoptExisting(w) \/ TouchRuntime(w) \/ CommitResult(w)
              \/ CommitCancellation(w) \/ CommitFailure(w))
  <2>1. UNCHANGED row
    BY <1>10 DEF WorkerStep, EnsureExists, CheckCancel, BeginPhase, FinishPhase, AnnounceCompleted,
       AnnounceCancelled, AnnounceFailed, CleanupTempFile
  <2> QED
    BY <2>1
<1> QED
  BY <1>4, <1>5, <1>6, <1>7, <1>8, <1>9, <1>10

\* No step but the DELETE of the cleanup job, which repeats the filter, removes a row.
LEMMA RowsKept ==
    ASSUME TypeOK, Next, NEW t \in Tasks, Exists(row[t])
    PROVE  Exists(row'[t]) \/ (CleanerDelete /\ IsCleanupCandidate(row[t]))
<1> USE DEF requestVars, queueVars, jobVars, historyVars
<1>1. row \in [Tasks -> RowType] /\ Exists(row[t]) /\ "failed" \in InProgress \cup Terminal
  BY DEF TypeOK, Terminal
<1>2. ASSUME UNCHANGED row PROVE Exists(row'[t])
  BY <1>1, <1>2
<1>3. ASSUME NEW u \in Tasks, NEW r, Exists(row[u]) => Exists(r), SetRow(u, r) \/ Raises(u, r)
      PROVE  Exists(row'[t])
  <2>1. UNCHANGED row \/ row' = [row EXCEPT ![u] = r]
    BY <1>1, <1>3, RowAfter
  <2> QED
    BY <1>1, <1>3, <2>1
<1>4. ASSUME NEW u \in Tasks, SaveUpload(u) \/ UploadStep(u)
      PROVE  Exists(row'[t])
  <2>1. CASE SaveUpload(u) \/ Dispatch(u) \/ DispatchFails(u)
    BY <1>2, <2>1 DEF SaveUpload, Dispatch, DispatchFails
  <2>2. CASE CreateRecord(u) \/ RejectUpload(u)
    BY <1>1, <1>2, <1>3, <2>2, StillExists DEF CreateRecord, RejectUpload
  <2>3. CASE RecordDispatchFailure(u)
    BY <1>1, <1>2, <1>3, <2>3, StillExists DEF RecordDispatchFailure
  <2> QED
    BY <1>4, <2>1, <2>2, <2>3 DEF UploadStep
<1>5. ASSUME NEW u \in Tasks, RequestCancel(u) \/ CancelStep(u) \/ Redeliver(u)
      PROVE  Exists(row'[t])
  BY <1>1, <1>2, <1>3, <1>5, StillExists
  DEF RequestCancel, CancelStep, RecordCancel, RevokeTask, Redeliver
<1>6. ASSUME NEW u \in Tasks, HeartbeatExpires(u) \/ RowAges(u)
      PROVE  Exists(row'[t])
  <2>1. row'[t].status = row[t].status
    BY <1>1, <1>6 DEF HeartbeatExpires, RowAges, SetRow, RowType
  <2> QED
    BY <1>1, <2>1 DEF Exists
<1>7. ASSUME NEW w \in Workers, WorkerStep(w)
      PROVE  Exists(row'[t])
  BY <1>1, <1>7, WorkerStepKeepsRows
<1>8. ASSUME NEW w \in Workers,
             (\E u \in Tasks : StartWork(w, u) \/ DiscardRevoked(w, u)) \/ WorkerCrash(w)
      PROVE  Exists(row'[t])
  BY <1>2, <1>8 DEF StartWork, DiscardRevoked, WorkerCrash
<1>9. CASE ApiCrash
  BY <1>2, <1>9 DEF ApiCrash
<1>10. CASE RecoveryStep \/ RecoveryAborts
  <2>1. row'[t] = row[t] \/ row'[t] = MarkStaleFailed(row[t], recovery.loaded[t])
    <3>1. CASE RecoveryCommit
      BY <1>1, <3>1 DEF RecoveryCommit
    <3>2. CASE RecoveryFind \/ RecoverySelect \/ RecoveryAborts
      <4>1. CASE RecoveryFind
        BY <4>1 DEF RecoveryFind
      <4>2. CASE RecoverySelect
        BY <4>2 DEF RecoverySelect
      <4>3. CASE RecoveryAborts
        BY <4>3 DEF RecoveryAborts
      <4> QED
        BY <3>2, <4>1, <4>2, <4>3
    <3>3. ASSUME NEW u \in Tasks, RecoveryAnnounce(u)
          PROVE  row'[t] = row[t]
      BY <3>3 DEF RecoveryAnnounce
    <3> QED
      BY <1>10, <3>1, <3>2, <3>3 DEF RecoveryStep
  <2> QED
    BY <1>1, <2>1, StillExists
<1>11. CASE CleanerFind
  BY <1>2, <1>11 DEF CleanerFind
<1>12. CASE CleanerDelete
  BY <1>1, <1>12 DEF CleanerDelete
<1> QED
  BY <1>4, <1>5, <1>6, <1>7, <1>8, <1>9, <1>10, <1>11, <1>12 DEF Next

\* The DELETE of the cleanup job repeats the filter, and nothing else removes a row
\* (cleanup_analyses): whatever runs and fails, a finished analysis stays.
THEOREM FinishedRowsKept == Spec => HistoryKept
<1> DEFINE Kept == \A t \in Tasks : row[t].status \in Terminal => Exists(row'[t])
<1>1. ASSUME TypeOK, Next PROVE Kept
  BY <1>1, RowsKept DEF Exists, Terminal, InProgress, IsCleanupCandidate
<1>2. TypeOK /\ [Next]_vars => [Kept]_vars
  BY <1>1
<1> QED
  BY <1>2, TypeCorrect, PTL DEF Spec, HistoryKept

-----------------------------------------------------------------------------
(* However often a message is delivered: what is left of the file *)

\* A step of a run ends it, or it goes on with its task: it never goes back to the
\* first phase, and only its end touches the file.
LEMMA WorkerStepGoesOn ==
    ASSUME TypeOK, NEW w \in Workers, WorkerStep(w)
    PROVE  /\ worker[w].step # "idle" /\ Task(w) \in Tasks
           /\ UNCHANGED <<upload, inbox, deliveries, recovery, cleaner, asked>>
           /\ \A v \in Workers : v # w => worker'[v] = worker[v]
           /\ worker'[w].step = "idle" => file' = [file EXCEPT ![Task(w)] = FALSE]
           /\ worker'[w].step # "idle" =>
                 /\ worker'[w].task = Task(w) /\ UNCHANGED file
                 /\ worker'[w].phase = "extracting" => worker[w].phase = "extracting"
<1> USE DEF requestVars, queueVars, jobVars, historyVars
<1>1. worker[w].step # "idle" /\ Task(w) \in Tasks
  BY DEF TypeOK, WorkerStep, EnsureExists, CreateMissing, AdoptExisting, TouchRuntime, CheckCancel,
         BeginPhase, FinishPhase, CommitResult, AnnounceCompleted, CommitCancellation,
         AnnounceCancelled, CommitFailure, AnnounceFailed, CleanupTempFile, At
<1>2. worker \in [Workers -> WorkerType]
  BY DEF TypeOK
<1>3. UNCHANGED <<upload, inbox, deliveries, recovery, cleaner, asked>>
  BY DEF WorkerStep, EnsureExists, CreateMissing, AdoptExisting, TouchRuntime, CheckCancel,
         BeginPhase, FinishPhase, CommitResult, AnnounceCompleted, CommitCancellation,
         AnnounceCancelled, CommitFailure, AnnounceFailed, CleanupTempFile
<1> DEFINE GoesOn == /\ \A v \in Workers : v # w => worker'[v] = worker[v]
                     /\ worker'[w].step # "idle" /\ worker'[w].task = Task(w)
                     /\ worker'[w].phase = "extracting" => worker[w].phase = "extracting"
<1>4. ASSUME NEW step, step # "idle", Goto(w, step)
      PROVE  GoesOn
  BY <1>2, <1>4 DEF Goto, WorkerType, Task
<1>5. ASSUME NEW r, NEW next, NEW handler, next # "idle", handler # "idle",
             Transaction(w, r, next, handler)
      PROVE  GoesOn
  BY <1>4, <1>5 DEF Transaction
<1>6. ASSUME NEW event, NEW next, NEW handler, next # "idle", handler # "idle",
             Broadcast(w, event, next, handler)
      PROVE  GoesOn
  BY <1>4, <1>6 DEF Broadcast
<1>7. CASE EnsureExists(w) \/ CheckCancel(w)
  BY <1>1, <1>3, <1>4, <1>7 DEF EnsureExists, CheckCancel
<1>8. CASE CreateMissing(w) \/ AdoptExisting(w)
  BY <1>1, <1>3, <1>4, <1>5, <1>8 DEF CreateMissing, AdoptExisting
<1>9. CASE TouchRuntime(w) \/ CommitResult(w) \/ CommitCancellation(w) \/ CommitFailure(w)
  BY <1>1, <1>3, <1>5, <1>9 DEF TouchRuntime, CommitResult, CommitCancellation, CommitFailure
<1>10. CASE BeginPhase(w) \/ AnnounceCompleted(w) \/ AnnounceCancelled(w) \/ AnnounceFailed(w)
  BY <1>1, <1>3, <1>6, <1>10 DEF BeginPhase, AnnounceCompleted, AnnounceCancelled, AnnounceFailed
<1>11. CASE FinishPhase(w)
  <2>1. CASE Goto(w, "markFailed")
    BY <1>1, <1>3, <1>4, <1>11, <2>1 DEF FinishPhase
  <2>2. CASE ~Goto(w, "markFailed")
    <3>1. PICK filename : worker' = [worker EXCEPT ![w].step = "touch",
                                                   ![w].phase = NextPhase[worker[w].phase],
                                                   ![w].filename = filename]
      BY <1>11, <2>2 DEF FinishPhase
    <3>2. NextPhase[worker[w].phase] # "extracting"
      BY <1>2 DEF NextPhase, WorkerType, Phases
    <3>3. GoesOn
      BY <1>2, <3>1, <3>2 DEF WorkerType, Task
    <3> QED
      BY <1>1, <1>3, <1>11, <3>3 DEF FinishPhase
  <2> QED
    BY <2>1, <2>2
<1>12. CASE CleanupTempFile(w)
  BY <1>1, <1>2, <1>3, <1>12 DEF CleanupTempFile, IdleWorker
<1> QED
  BY <1>7, <1>8, <1>9, <1>10, <1>11, <1>12 DEF WorkerStep

\* The jobs leave requests, queue, runs and files alone.
LEMMA JobsLeave ==
    ASSUME RecoveryStep \/ RecoveryAborts \/ CleanerFind \/ CleanerDelete
    PROVE  UNCHANGED <<file, upload, canceller, inbox, deliveries, revoked, worker, asked, overrun>>
<1> USE DEF requestVars, queueVars, historyVars
<1>1. CASE RecoveryFind
  BY <1>1 DEF RecoveryFind
<1>2. CASE RecoverySelect
  BY <1>2 DEF RecoverySelect
<1>3. CASE RecoveryCommit
  BY <1>3 DEF RecoveryCommit
<1>4. ASSUME NEW t \in Tasks, RecoveryAnnounce(t)
      PROVE  UNCHANGED <<file, upload, canceller, inbox, deliveries, revoked, worker, asked, overrun>>
  BY <1>4 DEF RecoveryAnnounce
<1>5. CASE RecoveryAborts
  BY <1>5 DEF RecoveryAborts
<1>6. CASE CleanerFind
  BY <1>6 DEF CleanerFind
<1>7. CASE CleanerDelete
  BY <1>7 DEF CleanerDelete
<1> QED
  BY <1>1, <1>2, <1>3, <1>4, <1>5, <1>6, <1>7 DEF RecoveryStep

\* A rejected request has removed its file, however often its message is delivered.
RejectedHasNoFile == \A t \in Tasks : upload[t] \in {"failing", "rejected"} => ~file[t]

LEMMA NextLeavesNoFile ==
    ASSUME TypeOK, RejectedHasNoFile, [Next]_vars
    PROVE  RejectedHasNoFile' /\ LeavesNoFile
<1> USE DEF requestVars, queueVars, jobVars, historyVars
<1> DEFINE Removed == \A w \in Workers : worker[w].step # "idle" /\ worker'[w].step = "idle"
                         => ~file'[Task(w)] \/ WorkerCrash(w) \/ ApiCrash
<1>1. /\ worker \in [Workers -> WorkerType] /\ upload \in [Tasks -> UploadSteps]
      /\ file \in [Tasks -> BOOLEAN]
  BY DEF TypeOK
<1>2. SUFFICES RejectedHasNoFile' /\ Removed
  BY DEF RejectedHasNoFile, LeavesNoFile
<1>3. ASSUME \A t \in Tasks : file'[t] => file[t],
             \A t \in Tasks : upload'[t] = upload[t] \/ upload'[t] \notin {"failing", "rejected"}
      PROVE  RejectedHasNoFile'
  BY <1>3 DEF RejectedHasNoFile
<1>4. ASSUME UNCHANGED <<file, upload, worker>>
      PROVE  RejectedHasNoFile' /\ Removed
  BY <1>3, <1>4
<1>5. ASSUME NEW t \in Tasks, SaveUpload(t) \/ UploadStep(t)
      PROVE  RejectedHasNoFile' /\ Removed
  <2>1. /\ UNCHANGED worker
        /\ \A u \in Tasks : u # t => upload'[u] = upload[u] /\ file'[u] = file[u]
    BY <1>1, <1>5 DEF SaveUpload, UploadStep, CreateRecord, RejectUpload, Dispatch, DispatchFails,
       RecordDispatchFailure
  <2>2. upload'[t] \in {"failing", "rejected"} => ~file'[t]
    BY <1>1, <1>5 DEF SaveUpload, UploadStep, CreateRecord, RejectUpload, Dispatch, DispatchFails,
       RecordDispatchFailure, RejectedHasNoFile
  <2> QED
    BY <2>1, <2>2 DEF RejectedHasNoFile
<1>6. ASSUME NEW t \in Tasks, RequestCancel(t) \/ CancelStep(t) \/ Redeliver(t) \/ HeartbeatExpires(t)
                              \/ RowAges(t)
      PROVE  RejectedHasNoFile' /\ Removed
  BY <1>4, <1>6 DEF RequestCancel, CancelStep, RecordCancel, RevokeTask, Redeliver, HeartbeatExpires,
     RowAges
\* A run that starts was idle, and another run's message starts none.
<1>7. ASSUME NEW w \in Workers, NEW t \in Tasks, StartWork(w, t) \/ DiscardRevoked(w, t)
      PROVE  RejectedHasNoFile' /\ Removed
  <2>1. /\ worker[w].step = "idle" /\ UNCHANGED <<file, upload>>
        /\ \A v \in Workers : v # w => worker'[v] = worker[v]
    BY <1>1, <1>7 DEF StartWork, DiscardRevoked
  <2> QED
    BY <1>3, <2>1
\* Only the finally clause ends a run by itself.
<1>8. ASSUME NEW w \in Workers, WorkerStep(w)
      PROVE  RejectedHasNoFile' /\ Removed
  <2>1. /\ Task(w) \in Tasks /\ UNCHANGED upload
        /\ \A v \in Workers : v # w => worker'[v] = worker[v]
        /\ worker'[w].step = "idle" => file' = [file EXCEPT ![Task(w)] = FALSE]
        /\ worker'[w].step # "idle" => UNCHANGED file
    BY <1>8, WorkerStepGoesOn
  <2>2. \A t \in Tasks : file'[t] => file[t]
    BY <1>1, <2>1
  <2>3. Removed
    BY <1>1, <2>1
  <2> QED
    BY <1>3, <2>1, <2>2, <2>3
<1>9. ASSUME NEW w \in Workers, WorkerCrash(w)
      PROVE  RejectedHasNoFile' /\ Removed
  <2>1. /\ UNCHANGED <<file, upload>> /\ \A v \in Workers : v # w => worker'[v] = worker[v]
    BY <1>1, <1>9 DEF WorkerCrash
  <2> QED
    BY <1>3, <1>9, <2>1
<1>10. CASE ApiCrash
  BY <1>3, <1>10 DEF ApiCrash
<1>11. CASE RecoveryStep \/ RecoveryAborts \/ CleanerFind \/ CleanerDelete
  BY <1>4, <1>11, JobsLeave
<1>12. CASE UNCHANGED vars
  BY <1>4, <1>12 DEF vars
<1> QED
  BY <1>5, <1>6, <1>7, <1>8, <1>9, <1>10, <1>11, <1>12 DEF Next

\* However often a message is delivered, whatever fails and whichever jobs run: the
\* step that rejects a request or ends a run leaves no temporary file, unless it is
\* a crash (upload_pdf, the finally clause of process_pdf).
THEOREM EndsLeaveNoFile == Spec => [][LeavesNoFile]_vars
<1>1. Init => RejectedHasNoFile
  BY DEF Init, RejectedHasNoFile
<1>2. TypeOK /\ RejectedHasNoFile /\ [Next]_vars => RejectedHasNoFile'
  BY NextLeavesNoFile
<1>3. TypeOK /\ RejectedHasNoFile /\ [Next]_vars => [LeavesNoFile]_vars
  BY NextLeavesNoFile
<1> QED
  BY <1>1, <1>2, <1>3, TypeCorrect, PTL DEF Spec

-----------------------------------------------------------------------------
(* One delivery: one run per task, and its file *)

\* The broker hands a message out once.  Jobs and faults may be any.
OneDelivery == MaxDeliveries = 1

\* The request, then the one message, then the one run.
HandedOver ==
    /\ \A t \in Tasks :
          /\ upload[t] # "accepted" => deliveries[t] = 0 /\ inbox[t] = 0 /\ ~Executing(t)
          /\ upload[t] = "accepted" => deliveries[t] = 1
          /\ inbox[t] \in {0, 1}
          /\ inbox[t] = 1 => ~Executing(t)
    /\ OneRunPerTask

LEMMA NextHandedOver ==
    ASSUME OneDelivery, TypeOK, HandedOver, [Next]_vars
    PROVE  HandedOver'
<1> USE DEF requestVars, queueVars, jobVars, historyVars
<1>1. worker \in [Workers -> WorkerType] /\ upload \in [Tasks -> UploadSteps]
      /\ inbox \in [Tasks -> Nat] /\ deliveries \in [Tasks -> Nat]
  BY DEF TypeOK
<1>2. ASSUME \A w \in Workers : worker'[w].step # "idle" =>
                 worker[w].step # "idle" /\ worker'[w].task = worker[w].task,
             UNCHANGED deliveries,
             \A t \in Tasks : upload'[t] = upload[t] \/ (upload[t] # "accepted" /\ upload'[t] # "accepted"),
             \A t \in Tasks : inbox'[t] \in {inbox[t], 0}
      PROVE  HandedOver'
  <2>1. \A t \in Tasks : Executing(t)' => Executing(t)
    BY <1>2 DEF Executing, Task
  <2>2. OneRunPerTask'
    BY <1>2 DEF HandedOver, OneRunPerTask, Task
  <2>3. ASSUME NEW t \in Tasks
        PROVE  /\ upload'[t] # "accepted" => deliveries'[t] = 0 /\ inbox'[t] = 0 /\ ~Executing(t)'
               /\ upload'[t] = "accepted" => deliveries'[t] = 1
               /\ inbox'[t] \in {0, 1}
               /\ inbox'[t] = 1 => ~Executing(t)'
    BY <1>2, <2>1 DEF HandedOver
  <2> QED
    BY <2>2, <2>3 DEF HandedOver
<1>3. ASSUME UNCHANGED <<worker, deliveries, upload, inbox>> PROVE HandedOver'
  BY <1>2, <1>3
<1>4. ASSUME NEW t \in Tasks, SaveUpload(t) \/ UploadStep(t)
      PROVE  HandedOver'
  <2>1. CASE Dispatch(t)
    <3>1. deliveries[t] = 0 /\ inbox[t] = 0 /\ ~Executing(t)
      BY <2>1 DEF Dispatch, HandedOver
    <3>2. /\ deliveries' = [deliveries EXCEPT ![t] = 1] /\ inbox' = [inbox EXCEPT ![t] = 1]
          /\ upload' = [upload EXCEPT ![t] = "accepted"] /\ UNCHANGED worker
      BY <1>1, <2>1, <3>1 DEF Dispatch
    <3>3. \A u \in Tasks : Executing(u)' <=> Executing(u)
      BY <3>2 DEF Executing, Task
    <3> QED
      BY <1>1, <3>1, <3>2, <3>3 DEF HandedOver, OneRunPerTask, Task
  <2>2. CASE SaveUpload(t) \/ CreateRecord(t) \/ RejectUpload(t) \/ DispatchFails(t)
             \/ RecordDispatchFailure(t)
    <3>1. /\ UNCHANGED <<deliveries, inbox, worker>> /\ upload[t] # "accepted"
          /\ \E step \in {"saved", "created", "rejected", "failing"} : upload' = [upload EXCEPT ![t] = step]
      BY <2>2 DEF SaveUpload, CreateRecord, RejectUpload, DispatchFails, RecordDispatchFailure
    <3> QED
      BY <1>1, <1>2, <3>1
  <2> QED
    BY <1>4, <2>1, <2>2 DEF UploadStep
<1>5. ASSUME NEW t \in Tasks, RequestCancel(t) \/ CancelStep(t) \/ HeartbeatExpires(t) \/ RowAges(t)
      PROVE  HandedOver'
  BY <1>3, <1>5 DEF RequestCancel, CancelStep, RecordCancel, RevokeTask, HeartbeatExpires, RowAges
<1>6. ASSUME NEW t \in Tasks, Redeliver(t)
      PROVE  FALSE
  BY <1>1, <1>6 DEF Redeliver, OneDelivery, HandedOver
<1>7. ASSUME NEW w \in Workers, NEW t \in Tasks, StartWork(w, t) \/ DiscardRevoked(w, t)
      PROVE  HandedOver'
  <2>1. /\ inbox[t] = 1 /\ ~Executing(t) /\ upload[t] = "accepted"
        /\ UNCHANGED <<upload, deliveries>> /\ inbox' = [inbox EXCEPT ![t] = 0]
    BY <1>1, <1>7 DEF StartWork, DiscardRevoked, HandedOver
  <2>2. CASE DiscardRevoked(w, t)
    BY <1>1, <1>2, <2>1, <2>2 DEF DiscardRevoked
  <2>3. CASE StartWork(w, t)
    <3>1. worker[w].step = "idle" /\ worker' = [worker EXCEPT ![w] = FreshRun(t)]
      BY <2>3 DEF StartWork
    <3>2. \A u \in Tasks : u # t => (Executing(u)' => Executing(u))
      BY <1>1, <3>1 DEF Executing, Task, FreshRun
    <3>3. OneRunPerTask'
      <4> SUFFICES ASSUME NEW v \in Workers, NEW x \in Workers, worker'[v].step # "idle",
                          worker'[x].step # "idle", worker'[v].task = worker'[x].task
                   PROVE  v = x
        BY DEF OneRunPerTask, Task
      <4>1. CASE v = w \/ x = w
        <5>1. \A y \in Workers : y # w => worker'[y] = worker[y]
          BY <1>1, <3>1
        <5>2. worker'[w].task = t
          BY <1>1, <3>1 DEF FreshRun
        <5> QED
          BY <2>1, <4>1, <5>1, <5>2 DEF Executing, Task
      <4>2. CASE v # w /\ x # w
        BY <1>1, <3>1, <4>2 DEF HandedOver, OneRunPerTask, Task
      <4> QED
        BY <4>1, <4>2
    <3> QED
      BY <1>1, <2>1, <3>2, <3>3 DEF HandedOver
  <2> QED
    BY <1>7, <2>2, <2>3
<1>8. ASSUME NEW w \in Workers, WorkerStep(w)
      PROVE  HandedOver'
  <2>1. /\ UNCHANGED <<upload, inbox, deliveries>>
        /\ \A v \in Workers : v # w => worker'[v] = worker[v]
        /\ worker[w].step # "idle"
        /\ worker'[w].step # "idle" => worker'[w].task = worker[w].task
    BY <1>8, WorkerStepGoesOn DEF Task
  <2> QED
    BY <1>2, <2>1
<1>9. ASSUME NEW w \in Workers, WorkerCrash(w)
      PROVE  HandedOver'
  BY <1>1, <1>2, <1>9 DEF WorkerCrash, IdleWorker
<1>10. CASE ApiCrash
  <2>1. \A t \in Tasks : upload'[t] = upload[t] \/ (upload[t] # "accepted" /\ upload'[t] # "accepted")
    BY <1>10 DEF ApiCrash
  <2>2. /\ \A t \in Tasks : inbox'[t] \in {inbox[t], 0}
        /\ \A w \in Workers : worker'[w] = worker[w] \/ worker'[w] = IdleWorker
        /\ UNCHANGED deliveries
    BY <1>10 DEF ApiCrash
  <2> QED
    BY <1>2, <2>1, <2>2 DEF IdleWorker
<1>11. CASE RecoveryStep \/ RecoveryAborts \/ CleanerFind \/ CleanerDelete
  BY <1>3, <1>11, JobsLeave
<1>12. CASE UNCHANGED vars
  BY <1>3, <1>12 DEF vars
<1> QED
  BY <1>4, <1>5, <1>6, <1>7, <1>8, <1>9, <1>10, <1>11, <1>12 DEF Next

LEMMA AlwaysHandedOver == ASSUME OneDelivery PROVE Spec => [](TypeOK /\ HandedOver)
<1>1. Init => HandedOver
  BY DEF Init, HandedOver, Executing, OneRunPerTask, IdleWorker
<1>2. TypeOK /\ HandedOver /\ [Next]_vars => HandedOver'
  BY NextHandedOver
<1> QED
  BY <1>1, <1>2, TypeCorrect, PTL DEF Spec

\* The inductive invariant behind FileLivesWithRun: the file passes from the
\* request to the message to the run, and each removes it where it ends.
FileFollows ==
    /\ \A t \in Tasks :
          /\ upload[t] \in {"saved", "created"} \/ inbox[t] = 1 => file[t]
          /\ upload[t] \in {"failing", "rejected"} => ~file[t]
    /\ \A w \in Workers : worker[w].step # "idle" /\ worker[w].phase = "extracting" => file[Task(w)]

LEMMA NextFile ==
    ASSUME OneDelivery, TypeOK, HandedOver, FileFollows, [Next]_vars
    PROVE  FileFollows'
<1> USE DEF requestVars, queueVars, jobVars, historyVars
<1>1. /\ worker \in [Workers -> WorkerType] /\ upload \in [Tasks -> UploadSteps]
      /\ inbox \in [Tasks -> Nat] /\ file \in [Tasks -> BOOLEAN]
  BY DEF TypeOK
\* No run starts, no file is touched.
<1>2. ASSUME UNCHANGED file,
             \A w \in Workers : worker'[w] = worker[w] \/ worker'[w].step = "idle",
             \A t \in Tasks : upload'[t] = upload[t] \/ upload'[t] = "crashed",
             \A t \in Tasks : inbox'[t] \in {inbox[t], 0}
      PROVE  FileFollows'
  BY <1>2 DEF FileFollows, Task
<1>3. ASSUME UNCHANGED <<file, worker, upload, inbox>>
      PROVE  FileFollows'
  BY <1>2, <1>3
\* A request touches the file of its own task, which no run works on.
<1>4. ASSUME NEW t \in Tasks, SaveUpload(t) \/ UploadStep(t)
      PROVE  FileFollows'
  <2>1. /\ upload[t] # "accepted" /\ ~Executing(t) /\ inbox[t] = 0
        /\ UNCHANGED worker /\ \A w \in Workers : worker[w].step # "idle" => Task(w) # t
        /\ \A u \in Tasks : u # t => /\ upload'[u] = upload[u] /\ inbox'[u] = inbox[u]
                                     /\ file'[u] = file[u]
    BY <1>1, <1>4 DEF SaveUpload, UploadStep, CreateRecord, RejectUpload, Dispatch, DispatchFails,
       RecordDispatchFailure, HandedOver, Executing
  <2>2. /\ upload'[t] \in {"saved", "created"} \/ inbox'[t] = 1 => file'[t]
        /\ upload'[t] \in {"failing", "rejected"} => ~file'[t]
    BY <1>1, <1>4, <2>1 DEF SaveUpload, UploadStep, CreateRecord, RejectUpload, Dispatch, DispatchFails,
       RecordDispatchFailure, FileFollows
  <2>3. \A w \in Workers : worker'[w].step # "idle" /\ worker'[w].phase = "extracting" => file'[Task(w)']
    BY <2>1 DEF FileFollows, TypeOK, Task
  <2> QED
    BY <2>1, <2>2, <2>3 DEF FileFollows, Task
<1>5. ASSUME NEW t \in Tasks, RequestCancel(t) \/ CancelStep(t) \/ HeartbeatExpires(t) \/ RowAges(t)
      PROVE  FileFollows'
  BY <1>3, <1>5 DEF RequestCancel, CancelStep, RecordCancel, RevokeTask, HeartbeatExpires, RowAges
<1>6. ASSUME NEW t \in Tasks, Redeliver(t)
      PROVE  FALSE
  BY <1>1, <1>6 DEF Redeliver, OneDelivery, HandedOver, TypeOK
<1>7. ASSUME NEW w \in Workers, NEW t \in Tasks, StartWork(w, t) \/ DiscardRevoked(w, t)
      PROVE  FileFollows'
  <2>1. inbox[t] = 1 /\ file[t] /\ UNCHANGED <<file, upload>> /\ inbox' = [inbox EXCEPT ![t] = 0]
    BY <1>1, <1>7 DEF StartWork, DiscardRevoked, HandedOver, FileFollows
  <2>2. CASE DiscardRevoked(w, t)
    BY <1>1, <1>2, <2>1, <2>2 DEF DiscardRevoked
  <2>3. CASE StartWork(w, t)
    BY <1>1, <2>1, <2>3 DEF StartWork, FreshRun, FileFollows, Task
  <2> QED
    BY <1>7, <2>2, <2>3
<1>8. ASSUME NEW w \in Workers, WorkerStep(w)
      PROVE  FileFollows'
  <2>1. /\ worker[w].step # "idle" /\ Task(w) \in Tasks /\ UNCHANGED <<upload, inbox>>
        /\ \A v \in Workers : v # w => worker'[v] = worker[v]
        /\ worker'[w].step = "idle" => file' = [file EXCEPT ![Task(w)] = FALSE]
        /\ worker'[w].step # "idle" =>
              /\ worker'[w].task = Task(w) /\ UNCHANGED file
              /\ worker'[w].phase = "extracting" => worker[w].phase = "extracting"
    BY <1>8, WorkerStepGoesOn
  <2>2. inbox[Task(w)] # 1 /\ upload[Task(w)] = "accepted"
    BY <2>1 DEF HandedOver, Executing
  <2>3. CASE worker'[w].step # "idle"
    BY <2>1, <2>3 DEF FileFollows, Task
  <2>4. CASE worker'[w].step = "idle"
    <3>1. \A v \in Workers : v # w /\ worker[v].step # "idle" => Task(v) \in Tasks /\ Task(v) # Task(w)
      BY <2>1 DEF HandedOver, OneRunPerTask, TypeOK
    <3>2. file' = [file EXCEPT ![Task(w)] = FALSE]
      BY <2>1, <2>4
    <3>3. \A v \in Workers : worker'[v].step # "idle" /\ worker'[v].phase = "extracting"
             => file'[worker'[v].task]
      BY <1>1, <2>1, <2>4, <3>1, <3>2 DEF FileFollows, Task
    <3>4. \A t \in Tasks : /\ upload'[t] \in {"saved", "created"} \/ inbox'[t] = 1 => file'[t]
                           /\ upload'[t] \in {"failing", "rejected"} => ~file'[t]
      BY <1>1, <2>1, <2>2, <3>2 DEF FileFollows
    <3> QED
      BY <3>3, <3>4 DEF FileFollows, Task
  <2> QED
    BY <2>3, <2>4
<1>9. ASSUME NEW w \in Workers, WorkerCrash(w)
      PROVE  FileFollows'
  <2>1. UNCHANGED <<file, upload, inbox>> /\ worker' = [worker EXCEPT ![w] = IdleWorker]
    BY <1>9 DEF WorkerCrash
  <2> QED
    BY <1>1, <1>2, <2>1 DEF IdleWorker
<1>10. CASE ApiCrash
  <2>1. \A t \in Tasks : upload'[t] = upload[t] \/ upload'[t] = "crashed"
    BY <1>10 DEF ApiCrash
  <2>2. /\ \A t \in Tasks : inbox'[t] \in {inbox[t], 0}
        /\ \A w \in Workers : worker'[w] = worker[w] \/ worker'[w] = IdleWorker
        /\ UNCHANGED file
    BY <1>10 DEF ApiCrash
  <2> QED
    BY <1>2, <2>1, <2>2 DEF IdleWorker
<1>11. CASE RecoveryStep \/ RecoveryAborts \/ CleanerFind \/ CleanerDelete
  BY <1>3, <1>11, JobsLeave
<1>12. CASE UNCHANGED vars
  BY <1>3, <1>12 DEF vars
<1> QED
  BY <1>4, <1>5, <1>6, <1>7, <1>8, <1>9, <1>10, <1>11, <1>12 DEF Next

\* Whatever fails, crashes or is cancelled, and whichever jobs run: if a message is
\* delivered once, its run finds the file, and every exit of the request and of the
\* run removes it (upload_pdf, the finally clause of process_pdf).
THEOREM FileAccountedFor == ASSUME OneDelivery PROVE Spec => FileLivesWithRun
<1> DEFINE Lives ==
       /\ \A w \in Workers :
            worker[w].step # "idle" /\ worker[w].phase = "extracting" => file[Task(w)]
       /\ LeavesNoFile
<1>1. Init => FileFollows
  BY DEF Init, FileFollows, IdleWorker
<1>2. TypeOK /\ HandedOver /\ FileFollows /\ [Next]_vars => FileFollows'
  BY NextFile
<1>3. TypeOK /\ HandedOver /\ FileFollows /\ [Next]_vars => [Lives]_vars
  BY NextLeavesNoFile DEF FileFollows, RejectedHasNoFile
<1> QED
  BY <1>1, <1>2, <1>3, AlwaysHandedOver, PTL DEF Spec, FileLivesWithRun

-----------------------------------------------------------------------------
(* One delivery and no cleanup job: the run finds the row of the request *)

\* The row is written before the message and nobody deletes it, so no run takes the
\* path that creates one (_ensure_analysis_exists).
RowStays ==
    /\ cleaner.step = "idle"
    /\ \A t \in Tasks :
          /\ upload[t] \in {"idle", "saved"} => row[t] = NoRow
          /\ upload[t] \in {"created", "failing", "accepted"} => Exists(row[t])
    /\ \A w \in Workers : worker[w].step \notin {"create", "adopt"}

LEMMA NextRowStays ==
    ASSUME OneDelivery, "cleanup" \notin Jobs, TypeOK, HandedOver, RowStays, [Next]_vars
    PROVE  RowStays'
<1> USE DEF requestVars, queueVars, jobVars, historyVars
<1>1. /\ worker \in [Workers -> WorkerType] /\ upload \in [Tasks -> UploadSteps]
      /\ row \in [Tasks -> RowType]
  BY DEF TypeOK
<1>2. ~CleanerFind /\ ~CleanerDelete
  BY DEF CleanerFind, CleanerDelete, RowStays
<1>3. cleaner' = cleaner
  <2>1. ASSUME NEW t \in Tasks,
               SaveUpload(t) \/ UploadStep(t) \/ RequestCancel(t) \/ CancelStep(t) \/ Redeliver(t)
               \/ HeartbeatExpires(t) \/ RowAges(t)
        PROVE  cleaner' = cleaner
    BY <2>1 DEF SaveUpload, UploadStep, CreateRecord, RejectUpload, Dispatch, DispatchFails,
       RecordDispatchFailure, RequestCancel, CancelStep, RecordCancel, RevokeTask, Redeliver,
       HeartbeatExpires, RowAges
  <2>2. ASSUME NEW w \in Workers, WorkerStep(w) \/ WorkerCrash(w)
        PROVE  cleaner' = cleaner
    BY <2>2, WorkerStepGoesOn DEF WorkerCrash
  <2>3. ASSUME NEW w \in Workers, NEW t \in Tasks, StartWork(w, t) \/ DiscardRevoked(w, t)
        PROVE  cleaner' = cleaner
    BY <2>3 DEF StartWork, DiscardRevoked
  <2>4. CASE ApiCrash
    BY <2>4 DEF ApiCrash
  <2>5. CASE RecoveryFind
    BY <2>5 DEF RecoveryFind
  <2>6. CASE RecoverySelect
    BY <2>6 DEF RecoverySelect
  <2>7. CASE RecoveryCommit
    BY <2>7 DEF RecoveryCommit
  <2>8. ASSUME NEW t \in Tasks, RecoveryAnnounce(t)
        PROVE  cleaner' = cleaner
    BY <2>8 DEF RecoveryAnnounce
  <2>9. CASE RecoveryAborts
    BY <2>9 DEF RecoveryAborts
  <2>10. CASE UNCHANGED vars
    BY <2>10 DEF vars
  <2> QED
    BY <1>2, <2>1, <2>2, <2>3, <2>4, <2>5, <2>6, <2>7, <2>8, <2>9, <2>10 DEF Next, RecoveryStep
<1>4. \A t \in Tasks : Exists(row[t]) => Exists(row'[t])
  BY <1>2, RowsKept DEF vars
\* Nobody but the request of a task goes on to "created", and none from "saved".
<1>5. ASSUME \A t \in Tasks : upload'[t] \in {"idle", "saved"} => row'[t] = NoRow,
             \A t \in Tasks : upload'[t] = upload[t] \/ upload'[t] \in {"saved", "crashed", "rejected"}
                              \/ Exists(row[t]) \/ Exists(row'[t]),
             \A w \in Workers : worker'[w].step \notin {"create", "adopt"}
      PROVE  RowStays'
  BY <1>3, <1>4, <1>5 DEF RowStays
<1>6. ASSUME UNCHANGED upload, \A t \in Tasks : row[t] = NoRow => row'[t] = NoRow,
             \A w \in Workers : worker'[w].step \notin {"create", "adopt"}
      PROVE  RowStays'
  BY <1>5, <1>6 DEF RowStays
<1>7. NoRow \in RowType /\ ~Exists(NoRow) /\ NoRow.status \notin InProgress
      /\ RequestAnalysisCancel(NoRow) = NoRow
  BY DEF NoRow, Exists, InProgress, RequestAnalysisCancel, Terminal, RowType
<1>8. ASSUME NEW t \in Tasks, SaveUpload(t) \/ UploadStep(t)
      PROVE  RowStays'
  <2>1. UNCHANGED worker /\ \A u \in Tasks : u # t => row'[u] = row[u] /\ upload'[u] = upload[u]
    BY <1>1, <1>8 DEF SaveUpload, UploadStep, CreateRecord, RejectUpload, Dispatch, DispatchFails,
       RecordDispatchFailure, SetRow, Raises
  <2>2. upload'[t] \in {"idle", "saved"} => row'[t] = NoRow
    BY <1>1, <1>8 DEF SaveUpload, UploadStep, CreateRecord, RejectUpload, Dispatch, DispatchFails,
       RecordDispatchFailure, RowStays
  <2>3. \/ upload'[t] = upload[t] \/ upload'[t] \in {"saved", "crashed", "rejected"}
        \/ Exists(row[t]) \/ Exists(row'[t])
    BY <1>1, <1>8, StillExists DEF SaveUpload, UploadStep, CreateRecord, RejectUpload, Dispatch,
       DispatchFails, RecordDispatchFailure, RowStays, SetRow
  <2> QED
    BY <1>5, <2>1, <2>2, <2>3 DEF RowStays
<1>9. ASSUME NEW t \in Tasks, RequestCancel(t) \/ CancelStep(t) \/ HeartbeatExpires(t) \/ RowAges(t)
      PROVE  RowStays'
  <2>1. UNCHANGED <<worker, upload>>
    BY <1>9 DEF RequestCancel, CancelStep, RecordCancel, RevokeTask, HeartbeatExpires, RowAges
  <2>2. \A u \in Tasks : row[u] = NoRow => row'[u] = NoRow
    BY <1>1, <1>7, <1>9 DEF RequestCancel, CancelStep, RecordCancel, RevokeTask, HeartbeatExpires,
       RowAges, SetRow, Raises
  <2> QED
    BY <1>6, <2>1, <2>2 DEF RowStays
<1>10. ASSUME NEW t \in Tasks, Redeliver(t)
      PROVE  FALSE
  BY <1>10 DEF Redeliver, OneDelivery, HandedOver, TypeOK
<1>11. ASSUME NEW w \in Workers, NEW t \in Tasks, StartWork(w, t) \/ DiscardRevoked(w, t)
      PROVE  RowStays'
  BY <1>1, <1>6, <1>11 DEF StartWork, DiscardRevoked, FreshRun, RowStays
<1>12. ASSUME NEW w \in Workers, WorkerStep(w)
      PROVE  RowStays'
  <2>1. /\ worker[w].step # "idle" /\ Task(w) \in Tasks /\ UNCHANGED upload
        /\ \A v \in Workers : v # w => worker'[v] = worker[v]
    BY <1>12, WorkerStepGoesOn
  <2>2. Exists(row[Task(w)]) /\ ~CreateMissing(w) /\ ~AdoptExisting(w)
    BY <2>1 DEF RowStays, HandedOver, Executing, CreateMissing, AdoptExisting, At
  <2>3. worker'[w].step \notin {"create", "adopt"}
    BY <1>1, <1>12, <2>2 DEF WorkerStep, EnsureExists, TouchRuntime, CheckCancel, BeginPhase,
       FinishPhase, CommitResult, AnnounceCompleted, CommitCancellation, AnnounceCancelled,
       CommitFailure, AnnounceFailed, CleanupTempFile, Transaction, Broadcast, Goto, IdleWorker,
       WorkerType
  <2>4. \A t \in Tasks : t # Task(w) => row'[t] = row[t]
    BY <1>1, <1>12, <2>1 DEF WorkerStep, EnsureExists, CreateMissing, AdoptExisting, TouchRuntime,
       CheckCancel, BeginPhase, FinishPhase, CommitResult, AnnounceCompleted, CommitCancellation,
       AnnounceCancelled, CommitFailure, AnnounceFailed, CleanupTempFile, Transaction, SetRow, Raises
  <2> QED
    BY <1>6, <1>7, <2>1, <2>2, <2>3, <2>4 DEF RowStays
<1>13. ASSUME NEW w \in Workers, WorkerCrash(w)
      PROVE  RowStays'
  BY <1>1, <1>6, <1>13 DEF WorkerCrash, IdleWorker, RowStays
<1>14. CASE ApiCrash
  <2>1. \A t \in Tasks : upload'[t] = upload[t] \/ upload'[t] = "crashed"
    BY <1>14 DEF ApiCrash
  <2>2. (\A w \in Workers : worker'[w] = worker[w] \/ worker'[w] = IdleWorker) /\ UNCHANGED row
    BY <1>14 DEF ApiCrash
  <2> QED
    BY <1>5, <2>1, <2>2 DEF IdleWorker, RowStays
<1>15. CASE RecoveryStep \/ RecoveryAborts
  <2>1. \A t \in Tasks : row[t] = NoRow => row'[t] = NoRow
    <3>1. CASE RecoveryFind
      BY <3>1 DEF RecoveryFind
    <3>2. CASE RecoverySelect
      BY <3>2 DEF RecoverySelect
    <3>3. CASE RecoveryCommit
      BY <1>7, <3>3 DEF RecoveryCommit
    <3>4. ASSUME NEW t \in Tasks, RecoveryAnnounce(t)
          PROVE  UNCHANGED row
      BY <3>4 DEF RecoveryAnnounce
    <3>5. CASE RecoveryAborts
      BY <3>5 DEF RecoveryAborts
    <3> QED
      BY <1>15, <3>1, <3>2, <3>3, <3>4, <3>5 DEF RecoveryStep
  <2> QED
    BY <1>6, <1>15, <2>1, JobsLeave DEF RowStays
<1>16. CASE UNCHANGED vars
  BY <1>6, <1>16 DEF vars, RowStays
<1> QED
  BY <1>2, <1>8, <1>9, <1>10, <1>11, <1>12, <1>13, <1>14, <1>15, <1>16 DEF Next

LEMMA AlwaysRowStays ==
    ASSUME OneDelivery, "cleanup" \notin Jobs
    PROVE  Spec => [](TypeOK /\ HandedOver /\ RowStays)
<1>1. Init => RowStays
  BY DEF Init, RowStays, IdleCleaner, IdleWorker
<1>2. TypeOK /\ HandedOver /\ RowStays /\ [Next]_vars => RowStays'
  BY NextRowStays
<1> QED
  BY <1>1, <1>2, AlwaysHandedOver, PTL DEF Spec

-----------------------------------------------------------------------------
(* One delivery and no job: a run stops when it is cancelled *)

Early == {"ensure", "touch", "check", "emitPhase", "work", "commit", "markCancelled"}

\* The inductive invariant behind CancelStopsWithinOnePhase.  A row that the recovery
\* job fails is no longer "cancellation pending": the jobs must not run.
CancelSeen ==
    /\ recovery.step = "idle"
    /\ \A t \in Tasks :
          /\ asked[t] => row[t].cancelRequested
          /\ ~asked[t] \/ upload[t] # "accepted" \/ inbox[t] = 1 => overrun[t] = 0
          /\ upload[t] = "created" \/ inbox[t] = 1 => row[t].status = "processing"
          /\ overrun[t] < 2
    /\ \A w \in Workers :
          /\ worker[w].step \in Early => row[Task(w)].status = "processing"
          /\ worker[w].step \in {"ensure", "emitPhase"} => overrun[Task(w)] = 0

LEMMA WorkerStepSeen ==
    ASSUME TypeOK, HandedOver, RowStays, CancelSeen, NEW w \in Workers, WorkerStep(w)
    PROVE  CancelSeen'
<1> USE DEF requestVars, queueVars, jobVars, historyVars
<1> DEFINE t == Task(w)
<1>1. /\ worker \in [Workers -> WorkerType] /\ row \in [Tasks -> RowType]
      /\ overrun \in [Tasks -> 0..2]
      /\ worker[w].step # "idle" /\ t \in Tasks /\ UNCHANGED <<upload, inbox, recovery, asked>>
      /\ \A v \in Workers : v # w => worker'[v] = worker[v]
      /\ worker'[w].step # "idle" => worker'[w].task = t
  BY WorkerStepGoesOn DEF TypeOK
<1>2. Exists(row[t]) /\ inbox[t] # 1 /\ upload[t] = "accepted" /\ row[t] \in RowType
  BY <1>1 DEF HandedOver, Executing, RowStays
<1>3. \A v \in Workers : v # w /\ worker[v].step # "idle" => Task(v) # t
  BY <1>1 DEF HandedOver, OneRunPerTask
\* The step writes no other row, and the run goes on only while its row is in progress.
<1>4. ASSUME \A u \in Tasks : u # t => row'[u] = row[u] /\ overrun'[u] = overrun[u],
             row[t].cancelRequested => row'[t].cancelRequested,
             overrun'[t] < 2, ~asked[t] => overrun'[t] = 0,
             worker'[w].step \in Early => row'[t].status = "processing",
             worker'[w].step \in {"ensure", "emitPhase"} => overrun'[t] = 0
      PROVE  CancelSeen'
  <2>1. \A u \in Tasks :
          /\ asked'[u] => row'[u].cancelRequested
          /\ ~asked'[u] \/ upload'[u] # "accepted" \/ inbox'[u] = 1 => overrun'[u] = 0
          /\ upload'[u] = "created" \/ inbox'[u] = 1 => row'[u].status = "processing"
          /\ overrun'[u] < 2
    BY <1>1, <1>2, <1>4 DEF CancelSeen
  <2>2. ASSUME NEW v \in Workers
        PROVE  /\ worker'[v].step \in Early => row'[worker'[v].task].status = "processing"
               /\ worker'[v].step \in {"ensure", "emitPhase"} => overrun'[worker'[v].task] = 0
    <3>1. CASE v = w
      BY <1>1, <1>4, <3>1 DEF Early
    <3>2. CASE v # w
      <4>1. worker[v].step \in Early => Task(v) \in Tasks /\ Task(v) # t
        BY <1>3, <3>2 DEF TypeOK, Early
      <4>2. "emitPhase" \in Early /\ "ensure" \in Early
        BY DEF Early
      <4> QED
        BY <1>1, <1>4, <3>2, <4>1, <4>2 DEF CancelSeen, Task
    <3> QED
      BY <3>1, <3>2
  <2> QED
    BY <1>1, <2>1, <2>2 DEF CancelSeen, Task
<1>5. /\ asked[t] => row[t].cancelRequested
      /\ ~asked[t] => overrun[t] = 0
      /\ overrun[t] < 2
      /\ worker[w].step \in Early => row[t].status = "processing"
      /\ worker[w].step = "emitPhase" => overrun[t] = 0
  BY <1>1 DEF CancelSeen
<1>6. ASSUME NEW step, Goto(w, step)
      PROVE  worker'[w].step = step
  BY <1>1, <1>6 DEF Goto, WorkerType
<1>7. ASSUME NEW step, Goto(w, step), UNCHANGED <<row, overrun>>, step # "ensure",
             step \in Early => row[t].status = "processing",
             step = "emitPhase" => overrun[t] = 0
      PROVE  CancelSeen'
  BY <1>4, <1>5, <1>6, <1>7
<1>8. ASSUME NEW r, NEW next, NEW handler, Transaction(w, r, next, handler), UNCHANGED overrun,
             row[t].cancelRequested => r.cancelRequested,
             next \notin {"ensure", "emitPhase"}, handler \notin Early,
             next \in Early => r.status = "processing"
      PROVE  CancelSeen'
  <2>1. UNCHANGED row \/ row' = [row EXCEPT ![t] = r]
    BY <1>1, <1>8, RowAfter DEF Transaction
  <2>2. \/ row' = [row EXCEPT ![t] = r] /\ worker'[w].step = next
        \/ worker'[w].step = handler
    BY <1>6, <1>8 DEF Transaction, SetRow
  <2>3. "ensure" \in Early /\ "emitPhase" \in Early
    BY DEF Early
  <2> QED
    BY <1>1, <1>4, <1>5, <1>8, <2>1, <2>2, <2>3
<1>9. CASE EnsureExists(w)
  <2>1. PICK step \in {"touch", "cleanup"} : Goto(w, step)
    BY <1>2, <1>9 DEF EnsureExists
  <2>2. worker[w].step \in Early
    BY <1>9 DEF EnsureExists, At, Early
  <2> QED
    BY <1>5, <1>7, <1>9, <2>1, <2>2 DEF EnsureExists
<1>10. CASE CreateMissing(w) \/ AdoptExisting(w)
  BY <1>10 DEF CreateMissing, AdoptExisting, At, RowStays
<1>11. CASE TouchRuntime(w)
  <2>1. row[t].status = "processing"
    BY <1>5, <1>11 DEF TouchRuntime, At, Early
  <2>2. /\ TouchHeartbeat(row[t]).status = "processing"
        /\ row[t].cancelRequested => TouchHeartbeat(row[t]).cancelRequested
    BY <1>2, <2>1 DEF TouchHeartbeat, RowType
  <2> QED
    <3>1. Transaction(w, TouchHeartbeat(row[t]), "check", "markFailed") /\ UNCHANGED overrun
      BY <1>11 DEF TouchRuntime
    <3>2. "markFailed" \notin Early
      BY DEF Early
    <3> QED
      BY <1>8, <2>2, <3>1, <3>2
<1>12. CASE CheckCancel(w)
  <2>1. row[t].status = "processing"
    BY <1>5, <1>12 DEF CheckCancel, At, Early
  <2>2. PICK step \in {"markCancelled", "commit", "emitPhase", "markFailed"} :
            Goto(w, step) /\ (step = "emitPhase" => ~IsCancellationPending(row[t]))
    BY <1>12 DEF CheckCancel
  <2>3. step = "emitPhase" => overrun[t] = 0
    BY <1>5, <2>1, <2>2 DEF IsCancellationPending, InProgress
  <2> QED
    BY <1>7, <1>12, <2>1, <2>2, <2>3 DEF CheckCancel
<1>13. CASE BeginPhase(w)
  <2>1. worker'[w].step \in {"work", "markFailed"}
    BY <1>6, <1>13 DEF BeginPhase, Broadcast
  <2>2. row[t].status = "processing" /\ overrun[t] = 0 /\ UNCHANGED row
    BY <1>5, <1>13 DEF BeginPhase, At, Early
  <2>3. /\ \A u \in Tasks : u # t => overrun'[u] = overrun[u]
        /\ overrun'[t] \in {0, 1} /\ (~asked[t] => overrun'[t] = 0)
    BY <1>1, <1>13, <2>2 DEF BeginPhase
  <2> QED
    BY <1>4, <2>1, <2>2, <2>3
<1>14. CASE FinishPhase(w)
  <2>1. worker'[w].step \in {"touch", "markFailed"}
    BY <1>1, <1>6, <1>14 DEF FinishPhase, WorkerType
  <2>2. row[t].status = "processing"
    BY <1>5, <1>14 DEF FinishPhase, At, Early
  <2> QED
    BY <1>4, <1>5, <1>14, <2>1, <2>2 DEF FinishPhase
<1>15. CASE CommitResult(w) \/ CommitFailure(w)
  <2> DEFINE completed == UpdateAnalysis(row[t], "completed", {"data"} \cup worker[w].filename)
             failed == UpdateAnalysis(row[t], "failed", FailedPayload)
  <2>1. /\ row[t].cancelRequested => completed.cancelRequested
        /\ row[t].cancelRequested => failed.cancelRequested
    BY <1>2 DEF UpdateAnalysis, ApplySummary, RowType
  <2>2. /\ UNCHANGED overrun
        /\ \/ Transaction(w, completed, "emitCompleted", "markFailed")
           \/ Transaction(w, failed, "emitFailed", "cleanup")
    BY <1>15 DEF CommitResult, CommitFailure
  <2> HIDE DEF completed, failed
  <2> QED
    BY <1>8, <2>1, <2>2 DEF Early
<1>16. CASE CommitCancellation(w)
  <2> DEFINE cancelled == MarkAnalysisCancelled(row[t])
  <2>1. cancelled.cancelRequested
    BY <1>2 DEF MarkAnalysisCancelled, ApplySummary, RowType
  <2>2. Transaction(w, cancelled, "emitCancelled", "markFailed") /\ UNCHANGED overrun
    BY <1>16 DEF CommitCancellation
  <2> HIDE DEF cancelled
  <2> QED
    BY <1>8, <2>1, <2>2 DEF Early
<1>17. CASE AnnounceCompleted(w) \/ AnnounceCancelled(w) \/ AnnounceFailed(w)
  <2>1. worker'[w].step \in {"cleanup", "markFailed"}
    BY <1>6, <1>17 DEF AnnounceCompleted, AnnounceCancelled, AnnounceFailed, Broadcast
  <2>2. UNCHANGED <<row, overrun>>
    BY <1>17 DEF AnnounceCompleted, AnnounceCancelled, AnnounceFailed
  <2> QED
    BY <1>4, <1>5, <2>1, <2>2 DEF Early
<1>18. CASE CleanupTempFile(w)
  <2>1. worker'[w].step = "idle" /\ UNCHANGED <<row, overrun>>
    BY <1>1, <1>18 DEF CleanupTempFile, IdleWorker
  <2> QED
    BY <1>4, <1>5, <2>1 DEF Early
<1> QED
  BY <1>9, <1>10, <1>11, <1>12, <1>13, <1>14, <1>15, <1>16, <1>17, <1>18 DEF WorkerStep

LEMMA NextSeen ==
    ASSUME OneDelivery, Jobs = {}, TypeOK, HandedOver, RowStays, CancelSeen, [Next]_vars
    PROVE  CancelSeen'
<1> USE DEF requestVars, queueVars, jobVars, historyVars
<1>1. /\ worker \in [Workers -> WorkerType] /\ upload \in [Tasks -> UploadSteps]
      /\ row \in [Tasks -> RowType] /\ inbox \in [Tasks -> Nat]
  BY DEF TypeOK
\* The row of a task without a run may change; no run starts.
<1>2. ASSUME NEW t \in Tasks, UNCHANGED <<recovery, overrun, worker>>,
             \A u \in Tasks : u # t => /\ row'[u] = row[u] /\ asked'[u] = asked[u]
                                       /\ upload'[u] = upload[u] /\ inbox'[u] = inbox[u],
             asked'[t] => row'[t].cancelRequested,
             asked[t] => asked'[t],
             upload[t] = "accepted" /\ inbox[t] # 1 => upload'[t] = "accepted" /\ inbox'[t] # 1,
             upload'[t] = "created" \/ inbox'[t] = 1 => row'[t].status = "processing",
             Executing(t) => row'[t].status = row[t].status
      PROVE  CancelSeen'
  <2>1. \A u \in Tasks :
          /\ asked'[u] => row'[u].cancelRequested
          /\ ~asked'[u] \/ upload'[u] # "accepted" \/ inbox'[u] = 1 => overrun'[u] = 0
          /\ upload'[u] = "created" \/ inbox'[u] = 1 => row'[u].status = "processing"
          /\ overrun'[u] < 2
    <3>1. ASSUME NEW u \in Tasks
          PROVE  /\ asked[u] => row[u].cancelRequested
                 /\ ~asked[u] \/ upload[u] # "accepted" \/ inbox[u] = 1 => overrun[u] = 0
                 /\ upload[u] = "created" \/ inbox[u] = 1 => row[u].status = "processing"
                 /\ overrun[u] < 2
      BY DEF CancelSeen
    <3>2. ASSUME NEW u \in Tasks, u # t
          PROVE  /\ asked'[u] => row'[u].cancelRequested
                 /\ ~asked'[u] \/ upload'[u] # "accepted" \/ inbox'[u] = 1 => overrun'[u] = 0
                 /\ upload'[u] = "created" \/ inbox'[u] = 1 => row'[u].status = "processing"
                 /\ overrun'[u] < 2
      BY <1>2, <3>1, <3>2
    <3>3. /\ asked'[t] => row'[t].cancelRequested
          /\ ~asked'[t] \/ upload'[t] # "accepted" \/ inbox'[t] = 1 => overrun'[t] = 0
          /\ upload'[t] = "created" \/ inbox'[t] = 1 => row'[t].status = "processing"
          /\ overrun'[t] < 2
      BY <1>2, <3>1
    <3> QED
      BY <3>2, <3>3
  <2>2. ASSUME NEW w \in Workers
        PROVE  /\ worker'[w].step \in Early => row'[worker'[w].task].status = "processing"
               /\ worker'[w].step \in {"ensure", "emitPhase"} => overrun'[worker'[w].task] = 0
    <3>1. worker[w].step \in Early => Task(w) \in Tasks /\ Executing(Task(w))
      BY DEF TypeOK, Early, Executing
    <3> QED
      BY <1>2, <3>1 DEF CancelSeen, Task
  <2> QED
    BY <1>2, <2>1, <2>2 DEF CancelSeen, Task
\* No row changes, and a run only ends or starts on the message of its task.
<1>3. ASSUME UNCHANGED <<row, recovery, overrun, asked>>,
             \A w \in Workers :
                \/ worker'[w] = worker[w] \/ worker'[w] = IdleWorker
                \/ \E t \in Tasks : worker'[w].task = t /\ inbox[t] = 1,
             \A t \in Tasks : \/ upload'[t] = upload[t]
                              \/ upload'[t] = "crashed" /\ upload[t] # "accepted",
             \A t \in Tasks : inbox'[t] \in {inbox[t], 0}
      PROVE  CancelSeen'
  <2>1. \A t \in Tasks :
          /\ asked'[t] => row'[t].cancelRequested
          /\ ~asked'[t] \/ upload'[t] # "accepted" \/ inbox'[t] = 1 => overrun'[t] = 0
          /\ upload'[t] = "created" \/ inbox'[t] = 1 => row'[t].status = "processing"
          /\ overrun'[t] < 2
    BY <1>1, <1>3 DEF CancelSeen
  <2>2. \A w \in Workers :
          /\ worker'[w].step \in Early => row'[worker'[w].task].status = "processing"
          /\ worker'[w].step \in {"ensure", "emitPhase"} => overrun'[worker'[w].task] = 0
    BY <1>3 DEF CancelSeen, Task, IdleWorker, Early
  <2> QED
    BY <1>3, <2>1, <2>2 DEF CancelSeen, Task
<1>4. ASSUME NEW t \in Tasks, SaveUpload(t) \/ UploadStep(t)
      PROVE  CancelSeen'
  <2>1. /\ upload[t] # "accepted" /\ ~Executing(t) /\ inbox[t] = 0 /\ row[t] \in RowType
        /\ upload[t] \in {"idle", "saved"} => row[t] = NoRow
        /\ asked[t] => row[t].cancelRequested
        /\ upload[t] = "created" => row[t].status = "processing"
    BY <1>1, <1>4 DEF SaveUpload, UploadStep, CreateRecord, RejectUpload, Dispatch, DispatchFails,
       RecordDispatchFailure, HandedOver, RowStays, CancelSeen
  <2>2. /\ UNCHANGED <<recovery, overrun, worker, asked>>
        /\ \A u \in Tasks : u # t => /\ row'[u] = row[u] /\ upload'[u] = upload[u]
                                     /\ inbox'[u] = inbox[u]
    BY <1>1, <1>4 DEF SaveUpload, UploadStep, CreateRecord, RejectUpload, Dispatch, DispatchFails,
       RecordDispatchFailure, SetRow, Raises
  <2>3. asked[t] => row'[t].cancelRequested
    <3>1. CASE SaveUpload(t) \/ Dispatch(t) \/ DispatchFails(t)
      BY <2>1, <3>1 DEF SaveUpload, Dispatch, DispatchFails
    <3>2. CASE CreateRecord(t) \/ RejectUpload(t)
      BY <2>1, <3>2 DEF CreateRecord, RejectUpload, NoRow
    <3>3. CASE RecordDispatchFailure(t)
      <4> DEFINE failed == UpdateAnalysis(row[t], "failed", FailedPayload)
      <4>1. row[t].cancelRequested => failed.cancelRequested
        BY <2>1 DEF UpdateAnalysis, ApplySummary, RowType
      <4>2. row' = row \/ row' = [row EXCEPT ![t] = failed]
        BY <3>3 DEF RecordDispatchFailure, SetRow, Raises
      <4> HIDE DEF failed
      <4> QED
        BY <1>1, <2>1, <4>1, <4>2
    <3> QED
      BY <1>4, <3>1, <3>2, <3>3 DEF UploadStep
  <2>4. upload'[t] = "created" \/ inbox'[t] = 1 => row'[t].status = "processing"
    <3>1. CASE SaveUpload(t) \/ DispatchFails(t)
      BY <1>1, <2>1, <3>1 DEF SaveUpload, DispatchFails
    <3>2. CASE CreateRecord(t)
      BY <1>1, <3>2 DEF CreateRecord, SetRow, CreateAnalysis, NoRow
    <3>3. CASE RejectUpload(t) \/ RecordDispatchFailure(t)
      BY <1>1, <2>1, <3>3 DEF RejectUpload, RecordDispatchFailure
    <3>4. CASE Dispatch(t)
      BY <2>1, <3>4 DEF Dispatch
    <3> QED
      BY <1>4, <3>1, <3>2, <3>3, <3>4 DEF UploadStep
  <2> QED
    BY <1>2, <2>1, <2>2, <2>3, <2>4
<1>5. ASSUME NEW t \in Tasks, RequestCancel(t) \/ RevokeTask(t)
      PROVE  CancelSeen'
  BY <1>3, <1>5 DEF RequestCancel, RevokeTask
<1>6. ASSUME NEW t \in Tasks, RecordCancel(t)
      PROVE  CancelSeen'
  <2> DEFINE recorded == RequestAnalysisCancel(row[t])
  <2>1. /\ recorded.status = row[t].status
        /\ row[t].cancelRequested => recorded.cancelRequested
    BY <1>1 DEF RequestAnalysisCancel, RowType
  <2>2. row' = row \/ row' = [row EXCEPT ![t] = recorded]
    BY <1>6 DEF RecordCancel, SetRow, Raises
  <2> HIDE DEF recorded
  <2>3. row'[t].status = row[t].status /\ (row[t].cancelRequested => row'[t].cancelRequested)
    BY <1>1, <2>1, <2>2
  <2>4. /\ asked' = [asked EXCEPT ![t] = @ \/ row'[t].cancelRequested]
        /\ UNCHANGED <<recovery, overrun, worker, upload, inbox>>
    BY <1>6 DEF RecordCancel
  <2>5. /\ asked[t] => row[t].cancelRequested
        /\ upload[t] = "created" \/ inbox[t] = 1 => row[t].status = "processing"
    BY DEF CancelSeen
  <2>6. /\ \A u \in Tasks : u # t => row'[u] = row[u] /\ asked'[u] = asked[u]
        /\ asked'[t] => row'[t].cancelRequested
        /\ asked[t] => asked'[t]
    BY <1>1, <2>2, <2>3, <2>4, <2>5 DEF TypeOK
  <2> QED
    BY <1>2, <2>3, <2>4, <2>5, <2>6
<1>7. ASSUME NEW t \in Tasks, Redeliver(t)
      PROVE  FALSE
  BY <1>1, <1>7 DEF Redeliver, OneDelivery, HandedOver, TypeOK
<1>8. ~RecoveryStep /\ ~RecoveryAborts /\ ~CleanerFind /\ ~CleanerDelete
      /\ \A t \in Tasks : ~HeartbeatExpires(t) /\ ~RowAges(t)
  BY DEF RecoveryStep, RecoveryFind, RecoverySelect, RecoveryCommit, RecoveryAnnounce, RecoveryAborts,
     CleanerFind, CleanerDelete, HeartbeatExpires, RowAges, CancelSeen, RowStays
<1>9. ASSUME NEW w \in Workers, NEW t \in Tasks, StartWork(w, t) \/ DiscardRevoked(w, t)
      PROVE  CancelSeen'
  <2>1. inbox[t] = 1 /\ UNCHANGED <<row, recovery, overrun, asked, upload>>
        /\ inbox' = [inbox EXCEPT ![t] = 0]
    BY <1>1, <1>9 DEF StartWork, DiscardRevoked, HandedOver
  <2>2. \A v \in Workers : worker'[v] = worker[v] \/ worker'[v].task = t
    BY <1>1, <1>9 DEF StartWork, DiscardRevoked, FreshRun
  <2> QED
    BY <1>1, <1>3, <2>1, <2>2
<1>10. ASSUME NEW w \in Workers, WorkerCrash(w)
       PROVE  CancelSeen'
  BY <1>1, <1>3, <1>10 DEF WorkerCrash
<1>11. CASE ApiCrash
  <2>1. \A t \in Tasks : upload'[t] = upload[t] \/ (upload'[t] = "crashed" /\ upload[t] # "accepted")
    BY <1>11 DEF ApiCrash
  <2>2. /\ \A t \in Tasks : inbox'[t] \in {inbox[t], 0}
        /\ \A w \in Workers : worker'[w] = worker[w] \/ worker'[w] = IdleWorker
        /\ UNCHANGED <<row, recovery, overrun, asked>>
    BY <1>11 DEF ApiCrash
  <2> QED
    BY <1>3, <2>1, <2>2
<1>12. CASE UNCHANGED vars
  BY <1>3, <1>12 DEF vars
<1>13. ASSUME NEW w \in Workers, WorkerStep(w)
       PROVE  CancelSeen'
  BY <1>13, WorkerStepSeen
<1> QED
  BY <1>4, <1>5, <1>6, <1>7, <1>8, <1>9, <1>10, <1>11, <1>12, <1>13 DEF Next, CancelStep

\* A message delivered once, no maintenance job: whatever fails, loses its revocation
\* or raises after its commit, a run begins at most one phase after its cancellation
\* was recorded (_maybe_cancel_analysis at the checkpoint of every phase).
THEOREM CancelStopsRun ==
    ASSUME OneDelivery, Jobs = {}
    PROVE  Spec => []CancelStopsWithinOnePhase
<1>1. Init => CancelSeen
  BY DEF Init, CancelSeen, IdleRecovery, IdleWorker, Early
<1>2. TypeOK /\ HandedOver /\ RowStays /\ CancelSeen /\ [Next]_vars => CancelSeen'
  BY NextSeen
<1>3. CancelSeen => CancelStopsWithinOnePhase
  BY DEF CancelSeen, CancelStopsWithinOnePhase
<1>4. "cleanup" \notin Jobs
  OBVIOUS
<1> QED
  BY <1>1, <1>2, <1>3, <1>4, AlwaysRowStays, PTL DEF Spec

-----------------------------------------------------------------------------
(* One delivery and no cleanup job: the result fits its status *)

\* OutcomeMatchesResult of one row, and what the result holds before an outcome.
Fits(r) ==
    /\ r.status = "completed" => "data" \in r.result /\ "error" \notin r.result
    /\ r.status \in {"failed", "cancelled"} => "error" \in r.result /\ "data" \notin r.result
    /\ r.status \in {"completed", "cancelled"} => "filename" \in r.result
    /\ r.status \in InProgress => r.result = {"filename"}

\* A row from which a run still reads the name of the document: the recovery job may
\* have failed it, but it kept the name (mark_stale_analyses_failed).
Carries(r) == r.status \in InProgress \/ (r.status = "failed" /\ "filename" \in r.result)

\* The inductive invariant behind OutcomeMatchesResult: the name goes from the row
\* to the run (_load_analysis_filename) before the run replaces the result.
ResultFollows ==
    /\ \A t \in Tasks :
          /\ Fits(row[t])
          /\ upload[t] = "created" \/ inbox[t] = 1 => Carries(row[t])
          /\ recovery.step = "selected" /\ t \in recovery.batch => recovery.loaded[t] = {"filename"}
    /\ \A w \in Workers :
          /\ worker[w].step \in Early => Carries(row[Task(w)])
          /\ worker[w].step \in Early /\ worker[w].phase \in {"analyzing", "finalizing"}
                => worker[w].filename = {"filename"}
          /\ worker[w].step = "commit" => worker[w].phase = "finalizing"

\* What each transaction does to a row of which it is true (crud.py).
LEMMA RowsFit ==
    ASSUME NEW r \in RowType, Fits(r)
    PROVE  /\ Fits(NoRow) /\ Fits(CreateAnalysis({"filename"})) /\ Carries(CreateAnalysis({"filename"}))
           /\ Fits(UpdateAnalysis(r, "failed", FailedPayload))
           /\ Fits(UpdateAnalysis(r, "completed", {"data", "filename"}))
           /\ Fits(MarkStaleFailed(r, {"filename"})) /\ Carries(MarkStaleFailed(r, {"filename"}))
           /\ Carries(r) => Fits(MarkAnalysisCancelled(r))
<1>1. /\ Fits(NoRow) /\ Fits(CreateAnalysis({"filename"})) /\ Carries(CreateAnalysis({"filename"}))
  BY DEF NoRow, CreateAnalysis, Fits, Carries, InProgress
<1>2. Fits(UpdateAnalysis(r, "failed", FailedPayload))
  BY DEF Fits, UpdateAnalysis, ApplySummary, FailedPayload, InProgress, RowType
<1>3. Fits(UpdateAnalysis(r, "completed", {"data", "filename"}))
  BY DEF Fits, UpdateAnalysis, ApplySummary, InProgress, RowType
<1>4. Fits(MarkStaleFailed(r, {"filename"})) /\ Carries(MarkStaleFailed(r, {"filename"}))
  BY DEF Fits, Carries, MarkStaleFailed, ExpiredPayload, InProgress, RowType
<1>5. Carries(r) => Fits(MarkAnalysisCancelled(r))
  BY DEF Fits, Carries, MarkAnalysisCancelled, ApplySummary, CancelledPayload, InProgress, RowType,
         Exists
<1> QED
  BY <1>1, <1>2, <1>3, <1>4, <1>5

LEMMA SameResultFits ==
    ASSUME NEW r \in RowType, NEW s, s.status = r.status, s.result = r.result
    PROVE  (Fits(r) => Fits(s)) /\ (Carries(r) => Carries(s))
BY DEF Fits, Carries

LEMMA HeartbeatKeepsResult ==
    ASSUME NEW r \in RowType
    PROVE  /\ TouchHeartbeat(r).status = r.status /\ TouchHeartbeat(r).result = r.result
           /\ RequestAnalysisCancel(r).status = r.status /\ RequestAnalysisCancel(r).result = r.result
BY DEF TouchHeartbeat, RequestAnalysisCancel, RowType

LEMMA WorkerStepResult ==
    ASSUME TypeOK, HandedOver, RowStays, ResultFollows, NEW w \in Workers, WorkerStep(w)
    PROVE  ResultFollows'
<1> USE DEF requestVars, queueVars, jobVars, historyVars
<1> DEFINE t == Task(w)
<1>1. /\ worker \in [Workers -> WorkerType] /\ row \in [Tasks -> RowType]
      /\ worker[w].step # "idle" /\ t \in Tasks /\ UNCHANGED <<upload, inbox, recovery>>
      /\ \A v \in Workers : v # w => worker'[v] = worker[v]
      /\ worker'[w].step # "idle" => worker'[w].task = t
  BY WorkerStepGoesOn DEF TypeOK
<1>2. Exists(row[t]) /\ inbox[t] # 1 /\ upload[t] = "accepted" /\ row[t] \in RowType
  BY <1>1 DEF HandedOver, Executing, RowStays
<1>3. \A v \in Workers : v # w /\ worker[v].step # "idle" => Task(v) # t
  BY <1>1 DEF HandedOver, OneRunPerTask
<1>4. ASSUME \A u \in Tasks : u # t => row'[u] = row[u],
             Fits(row'[t]),
             worker'[w].step \in Early => Carries(row'[t]),
             worker'[w].step \in Early /\ worker'[w].phase \in {"analyzing", "finalizing"}
                => worker'[w].filename = {"filename"},
             worker'[w].step = "commit" => worker'[w].phase = "finalizing"
      PROVE  ResultFollows'
  <2>1. ASSUME NEW u \in Tasks
        PROVE  /\ Fits(row'[u])
               /\ upload'[u] = "created" \/ inbox'[u] = 1 => Carries(row'[u])
               /\ recovery'.step = "selected" /\ u \in recovery'.batch
                     => recovery'.loaded[u] = {"filename"}
    BY <1>1, <1>2, <1>4 DEF ResultFollows
  <2>2. ASSUME NEW v \in Workers
        PROVE  /\ worker'[v].step \in Early => Carries(row'[worker'[v].task])
               /\ worker'[v].step \in Early /\ worker'[v].phase \in {"analyzing", "finalizing"}
                     => worker'[v].filename = {"filename"}
               /\ worker'[v].step = "commit" => worker'[v].phase = "finalizing"
    <3>1. CASE v = w
      BY <1>1, <1>4, <3>1 DEF Early
    <3>2. CASE v # w
      <4>1. worker[v].step \in Early => Task(v) \in Tasks /\ Task(v) # t
        BY <1>3, <3>2 DEF TypeOK, Early
      <4> QED
        BY <1>1, <1>4, <3>2, <4>1 DEF ResultFollows, Task
    <3> QED
      BY <3>1, <3>2
  <2> QED
    BY <2>1, <2>2 DEF ResultFollows, Task
<1>5. /\ Fits(row[t])
      /\ worker[w].step \in Early => Carries(row[t])
      /\ worker[w].step \in Early /\ worker[w].phase \in {"analyzing", "finalizing"}
            => worker[w].filename = {"filename"}
      /\ worker[w].step = "commit" => worker[w].phase = "finalizing"
  BY <1>1 DEF ResultFollows
<1>6. ASSUME NEW step, Goto(w, step)
      PROVE  /\ worker'[w].step = step /\ worker'[w].phase = worker[w].phase
             /\ worker'[w].filename = worker[w].filename
  BY <1>1, <1>6 DEF Goto, WorkerType
<1>7. ASSUME NEW step, Goto(w, step), UNCHANGED row, step \in Early => worker[w].step \in Early,
             step = "commit" => worker[w].phase = "finalizing"
      PROVE  ResultFollows'
  BY <1>4, <1>5, <1>6, <1>7
<1>8. ASSUME NEW r, NEW next, NEW handler, Transaction(w, r, next, handler), Fits(r),
             next # "commit", handler # "commit", handler \notin Early,
             next \in Early => worker[w].step \in Early /\ Carries(r)
      PROVE  ResultFollows'
  <2>1. UNCHANGED row \/ row' = [row EXCEPT ![t] = r]
    BY <1>1, <1>8, RowAfter DEF Transaction
  <2>2. \/ row' = [row EXCEPT ![t] = r] /\ Goto(w, next)
        \/ Goto(w, handler)
    BY <1>8 DEF Transaction, SetRow
  <2>3. Fits(row'[t]) /\ \A u \in Tasks : u # t => row'[u] = row[u]
    BY <1>1, <1>5, <1>8, <2>1
  <2>4. worker'[w].phase = worker[w].phase /\ worker'[w].filename = worker[w].filename
    BY <1>6, <2>2
  <2>5. worker'[w].step # "commit"
        /\ (worker'[w].step \in Early => worker[w].step \in Early /\ Carries(row'[t]))
    BY <1>1, <1>6, <1>8, <2>2
  <2> QED
    BY <1>4, <1>5, <2>3, <2>4, <2>5
<1>9. CASE EnsureExists(w)
  <2>1. PICK step \in {"touch", "cleanup"} : Goto(w, step)
    BY <1>2, <1>9 DEF EnsureExists
  <2>2. worker[w].step \in Early
    BY <1>9 DEF EnsureExists, At, Early
  <2> QED
    BY <1>7, <1>9, <2>1, <2>2 DEF EnsureExists
<1>10. CASE CreateMissing(w) \/ AdoptExisting(w)
  BY <1>10 DEF CreateMissing, AdoptExisting, At, RowStays
<1>11. CASE TouchRuntime(w)
  <2>1. worker[w].step \in Early /\ Fits(TouchHeartbeat(row[t])) /\ Carries(TouchHeartbeat(row[t]))
    BY <1>2, <1>5, <1>11, SameResultFits, HeartbeatKeepsResult DEF TouchRuntime, At, Early
  <2>2. Transaction(w, TouchHeartbeat(row[t]), "check", "markFailed")
    BY <1>11 DEF TouchRuntime
  <2>3. "markFailed" \notin Early
    BY DEF Early
  <2> QED
    BY <1>8, <2>1, <2>2, <2>3
<1>12. CASE CheckCancel(w)
  <2>1. worker[w].step \in Early
    BY <1>12 DEF CheckCancel, At, Early
  <2>2. PICK step \in {"markCancelled", "commit", "emitPhase", "markFailed"} :
            Goto(w, step) /\ (step = "commit" => worker[w].phase = "finalizing")
    BY <1>12 DEF CheckCancel
  <2> QED
    BY <1>7, <1>12, <2>1, <2>2 DEF CheckCancel
<1>13. CASE BeginPhase(w) \/ AnnounceCompleted(w) \/ AnnounceCancelled(w) \/ AnnounceFailed(w)
  <2>1. UNCHANGED row /\ \/ Goto(w, "markFailed") \/ Goto(w, "cleanup")
                         \/ Goto(w, "work") /\ worker[w].step = "emitPhase"
    BY <1>13 DEF BeginPhase, AnnounceCompleted, AnnounceCancelled, AnnounceFailed, Broadcast, At
  <2>2. "markFailed" \notin Early /\ "cleanup" \notin Early /\ "emitPhase" \in Early
    BY DEF Early
  <2> QED
    BY <1>7, <2>1, <2>2
<1>14. CASE FinishPhase(w)
  <2>1. worker[w].step \in Early /\ UNCHANGED row /\ worker[w].phase \in Phases \ {"finalizing"}
    BY <1>1, <1>14 DEF FinishPhase, At, Early, TypeOK, WorkerType
  <2>2. CASE Goto(w, "markFailed")
    BY <1>7, <2>1, <2>2
  <2>3. CASE ~Goto(w, "markFailed")
    <3> DEFINE filename == IF worker[w].phase = "scoring" THEN row[t].result \cap {"filename"}
                           ELSE worker[w].filename
    <3>1. worker' = [worker EXCEPT ![w].step = "touch",
                                   ![w].phase = NextPhase[worker[w].phase],
                                   ![w].filename = filename]
      BY <1>14, <2>3 DEF FinishPhase
    <3>2. /\ worker'[w].step = "touch" /\ worker'[w].phase = NextPhase[worker[w].phase]
          /\ worker'[w].filename = filename
      BY <1>1, <3>1 DEF WorkerType
    <3>3. NextPhase[worker[w].phase] \in {"analyzing", "finalizing"}
             => worker[w].phase \in {"scoring", "analyzing"}
      BY <2>1 DEF NextPhase, Phases
    <3>4. row[t].result \cap {"filename"} = {"filename"}
      BY <1>5, <2>1 DEF Carries, Fits
    <3>5. worker[w].phase \in {"scoring", "analyzing"} => filename = {"filename"}
      BY <1>5, <2>1, <3>4
    <3> QED
      BY <1>4, <1>5, <2>1, <3>2, <3>3, <3>5
  <2> QED
    BY <2>2, <2>3
<1>15. CASE CommitResult(w)
  <2>1. {"data"} \cup worker[w].filename = {"data", "filename"}
    BY <1>5, <1>15 DEF CommitResult, At, Early
  <2>2. Transaction(w, UpdateAnalysis(row[t], "completed", {"data", "filename"}),
                    "emitCompleted", "markFailed")
    BY <1>15, <2>1 DEF CommitResult
  <2>3. Fits(UpdateAnalysis(row[t], "completed", {"data", "filename"}))
    BY <1>2, <1>5, RowsFit
  <2> QED
    BY <1>8, <2>2, <2>3 DEF Early
<1>16. CASE CommitFailure(w)
  <2>1. Transaction(w, UpdateAnalysis(row[t], "failed", FailedPayload), "emitFailed", "cleanup")
    BY <1>16 DEF CommitFailure
  <2>2. Fits(UpdateAnalysis(row[t], "failed", FailedPayload))
    BY <1>2, <1>5, RowsFit
  <2> QED
    BY <1>8, <2>1, <2>2 DEF Early
<1>17. CASE CommitCancellation(w)
  <2>1. Carries(row[t])
    BY <1>5, <1>17 DEF CommitCancellation, At, Early
  <2>2. Transaction(w, MarkAnalysisCancelled(row[t]), "emitCancelled", "markFailed")
    BY <1>17 DEF CommitCancellation
  <2>3. Fits(MarkAnalysisCancelled(row[t]))
    BY <1>2, <1>5, <2>1, RowsFit
  <2> QED
    BY <1>8, <2>2, <2>3 DEF Early
<1>18. CASE CleanupTempFile(w)
  <2>1. worker'[w].step = "idle" /\ UNCHANGED row
    BY <1>1, <1>18 DEF CleanupTempFile, IdleWorker
  <2> QED
    BY <1>4, <1>5, <2>1 DEF Early
<1> QED
  BY <1>9, <1>10, <1>11, <1>12, <1>13, <1>14, <1>15, <1>16, <1>17, <1>18 DEF WorkerStep

LEMMA NextResult ==
    ASSUME OneDelivery, "cleanup" \notin Jobs, TypeOK, HandedOver, RowStays, ResultFollows, [Next]_vars
    PROVE  ResultFollows'
<1> USE DEF requestVars, queueVars, jobVars, historyVars
<1>1. /\ worker \in [Workers -> WorkerType] /\ upload \in [Tasks -> UploadSteps]
      /\ row \in [Tasks -> RowType] /\ inbox \in [Tasks -> Nat]
      /\ \A t \in Tasks : row[t] \in RowType /\ Fits(row[t])
      /\ \A w \in Workers : worker[w].step \in Early => Task(w) \in Tasks /\ Carries(row[Task(w)])
  BY DEF TypeOK, ResultFollows, Early
\* The run of a task reads the row that was there; the job loads nothing new.
<1>2. ASSUME \A t \in Tasks : Fits(row'[t]),
             \A t \in Tasks : upload'[t] = "created" \/ inbox'[t] = 1 => Carries(row'[t]),
             \A w \in Workers : \/ worker'[w].step \notin Early
                                \/ worker'[w] = worker[w] /\ Carries(row'[Task(w)])
                                \/ \E t \in Tasks : worker'[w] = FreshRun(t) /\ Carries(row'[t]),
             recovery' = recovery \/ recovery'.step # "selected"
      PROVE  ResultFollows'
  <2>1. ASSUME NEW w \in Workers
        PROVE  /\ worker'[w].step \in Early => Carries(row'[worker'[w].task])
               /\ worker'[w].step \in Early /\ worker'[w].phase \in {"analyzing", "finalizing"}
                     => worker'[w].filename = {"filename"}
               /\ worker'[w].step = "commit" => worker'[w].phase = "finalizing"
    <3>1. CASE worker'[w].step \notin Early
      BY <3>1 DEF Early
    <3>2. CASE worker'[w] = worker[w] /\ Carries(row'[Task(w)])
      BY <3>2 DEF ResultFollows, Task
    <3>3. CASE \E t \in Tasks : worker'[w] = FreshRun(t) /\ Carries(row'[t])
      BY <3>3 DEF FreshRun
    <3> QED
      BY <1>2, <3>1, <3>2, <3>3
  <2> QED
    BY <1>2, <2>1 DEF ResultFollows, Task
\* One row changes, no run starts.
<1>3. ASSUME NEW t \in Tasks, UNCHANGED <<recovery, worker>>, Fits(row'[t]),
             \A u \in Tasks : u # t => /\ row'[u] = row[u] /\ upload'[u] = upload[u]
                                       /\ inbox'[u] = inbox[u],
             upload'[t] = "created" \/ inbox'[t] = 1 => Carries(row'[t]),
             Executing(t) /\ Carries(row[t]) => Carries(row'[t])
      PROVE  ResultFollows'
  <2>1. \A u \in Tasks : Fits(row'[u]) /\ (upload'[u] = "created" \/ inbox'[u] = 1 => Carries(row'[u]))
    BY <1>3 DEF ResultFollows
  <2>2. ASSUME NEW w \in Workers, worker[w].step \in Early
        PROVE  Carries(row'[Task(w)])
    BY <1>1, <1>3, <2>2 DEF Executing, Early
  <2> QED
    BY <1>2, <1>3, <2>1, <2>2
\* No row changes, and a run only ends or starts on the message of its task.
<1>4. ASSUME UNCHANGED row, recovery' = recovery \/ recovery'.step # "selected",
             \A w \in Workers :
                \/ worker'[w] = worker[w] \/ worker'[w] = IdleWorker
                \/ \E t \in Tasks : worker'[w] = FreshRun(t) /\ inbox[t] = 1,
             \A t \in Tasks : upload'[t] = upload[t] \/ upload'[t] # "created",
             \A t \in Tasks : inbox'[t] \in {inbox[t], 0}
      PROVE  ResultFollows'
  <2>1. \A t \in Tasks : /\ Fits(row'[t])
                         /\ upload'[t] = "created" \/ inbox'[t] = 1 => Carries(row'[t])
    BY <1>1, <1>4 DEF ResultFollows
  <2>2. IdleWorker.step \notin Early
    BY DEF IdleWorker, Early
  <2>3. \A t \in Tasks : inbox[t] = 1 => Carries(row'[t])
    BY <1>4 DEF ResultFollows
  <2>4. ASSUME NEW w \in Workers
        PROVE  \/ worker'[w].step \notin Early
               \/ worker'[w] = worker[w] /\ Carries(row'[Task(w)])
               \/ \E t \in Tasks : worker'[w] = FreshRun(t) /\ Carries(row'[t])
    BY <1>1, <1>4, <2>2, <2>3
  <2> QED
    BY <1>2, <1>4, <2>1, <2>4
<1>5. ASSUME NEW t \in Tasks, SaveUpload(t) \/ UploadStep(t)
      PROVE  ResultFollows'
  <2>1. /\ upload[t] # "accepted" /\ ~Executing(t) /\ inbox[t] = 0
        /\ upload[t] = "created" => Carries(row[t])
        /\ Fits(row[t]) /\ row[t] \in RowType
    BY <1>1, <1>5 DEF SaveUpload, UploadStep, CreateRecord, RejectUpload, Dispatch, DispatchFails,
       RecordDispatchFailure, HandedOver, ResultFollows
  <2>2. /\ UNCHANGED <<recovery, worker>>
        /\ \A u \in Tasks : u # t => /\ row'[u] = row[u] /\ upload'[u] = upload[u]
                                     /\ inbox'[u] = inbox[u]
    BY <1>1, <1>5 DEF SaveUpload, UploadStep, CreateRecord, RejectUpload, Dispatch, DispatchFails,
       RecordDispatchFailure, SetRow, Raises
  <2>3. Fits(row'[t]) /\ (upload'[t] = "created" \/ inbox'[t] = 1 => Carries(row'[t]))
    <3>1. CASE SaveUpload(t) \/ DispatchFails(t)
      BY <1>1, <2>1, <3>1 DEF SaveUpload, DispatchFails
    <3>2. CASE CreateRecord(t)
      <4>1. row'[t] = CreateAnalysis({"filename"})
        BY <1>1, <3>2 DEF CreateRecord, SetRow
      <4> QED
        BY <2>1, <4>1, RowsFit
    <3>3. CASE RejectUpload(t)
      <4>1. /\ row'[t] = row[t] \/ row'[t] = CreateAnalysis({"filename"})
            /\ upload'[t] = "rejected" /\ inbox'[t] = 0
        BY <1>1, <2>1, <3>3 DEF RejectUpload, Raises, SetRow
      <4> QED
        BY <2>1, <4>1, RowsFit
    <3>4. CASE RecordDispatchFailure(t)
      <4>1. /\ row'[t] = row[t] \/ row'[t] = UpdateAnalysis(row[t], "failed", FailedPayload)
            /\ upload'[t] = "rejected" /\ inbox'[t] = 0
        BY <1>1, <2>1, <3>4 DEF RecordDispatchFailure, Raises, SetRow
      <4> QED
        BY <2>1, <4>1, RowsFit
    <3>5. CASE Dispatch(t)
      BY <2>1, <3>5 DEF Dispatch
    <3> QED
      BY <1>5, <3>1, <3>2, <3>3, <3>4, <3>5 DEF UploadStep
  <2> QED
    BY <1>3, <2>1, <2>2, <2>3
<1>6. ASSUME NEW t \in Tasks, RequestCancel(t) \/ RevokeTask(t)
      PROVE  ResultFollows'
  BY <1>4, <1>6 DEF RequestCancel, RevokeTask
<1>7. ASSUME NEW t \in Tasks, RecordCancel(t) \/ HeartbeatExpires(t) \/ RowAges(t)
      PROVE  ResultFollows'
  <2>1. UNCHANGED <<recovery, worker, upload, inbox>>
    BY <1>7 DEF RecordCancel, HeartbeatExpires, RowAges
  <2>2. PICK r : /\ r.status = row[t].status /\ r.result = row[t].result
                 /\ UNCHANGED row \/ row' = [row EXCEPT ![t] = r]
    <3>1. CASE RecordCancel(t)
      BY <1>1, <3>1, HeartbeatKeepsResult DEF RecordCancel, SetRow, Raises
    <3>2. CASE HeartbeatExpires(t)
      <4>1. /\ [row[t] EXCEPT !.stale = TRUE].status = row[t].status
            /\ [row[t] EXCEPT !.stale = TRUE].result = row[t].result
        BY <1>1 DEF RowType
      <4> QED
        BY <3>2, <4>1 DEF HeartbeatExpires, SetRow
    <3>3. CASE RowAges(t)
      <4>1. /\ [row[t] EXCEPT !.old = TRUE].status = row[t].status
            /\ [row[t] EXCEPT !.old = TRUE].result = row[t].result
        BY <1>1 DEF RowType
      <4> QED
        BY <3>3, <4>1 DEF RowAges, SetRow
    <3> QED
      BY <1>7, <3>1, <3>2, <3>3
  <2>3. Fits(row'[t]) /\ (Carries(row[t]) => Carries(row'[t]))
    <3>1. Fits(r) /\ (Carries(row[t]) => Carries(r))
      BY <1>1, <2>2, SameResultFits
    <3> QED
      BY <1>1, <2>2, <3>1
  <2>4. \A u \in Tasks : u # t => row'[u] = row[u]
    BY <1>1, <2>2
  <2>5. upload[t] = "created" \/ inbox[t] = 1 => Carries(row[t])
    BY DEF ResultFollows
  <2> QED
    BY <1>3, <2>1, <2>3, <2>4, <2>5
<1>8. ASSUME NEW t \in Tasks, Redeliver(t)
      PROVE  FALSE
  BY <1>1, <1>8 DEF Redeliver, OneDelivery, HandedOver, TypeOK
<1>9. ~CleanerFind /\ ~CleanerDelete
  BY DEF CleanerFind, CleanerDelete, RowStays
<1>10. ASSUME NEW w \in Workers, NEW t \in Tasks, StartWork(w, t) \/ DiscardRevoked(w, t)
      PROVE  ResultFollows'
  <2>1. inbox[t] = 1 /\ UNCHANGED <<row, recovery, upload>> /\ inbox' = [inbox EXCEPT ![t] = 0]
    BY <1>1, <1>10 DEF StartWork, DiscardRevoked, HandedOver
  <2>2. \A v \in Workers : worker'[v] = worker[v] \/ worker'[v] = FreshRun(t)
    BY <1>1, <1>10 DEF StartWork, DiscardRevoked
  <2> QED
    BY <1>1, <1>4, <2>1, <2>2
<1>11. ASSUME NEW w \in Workers, WorkerCrash(w)
       PROVE  ResultFollows'
  BY <1>1, <1>4, <1>11 DEF WorkerCrash
<1>12. CASE ApiCrash
  <2>1. \A t \in Tasks : upload'[t] = upload[t] \/ upload'[t] # "created"
    BY <1>12 DEF ApiCrash
  <2>2. /\ \A t \in Tasks : inbox'[t] \in {inbox[t], 0}
        /\ \A w \in Workers : worker'[w] = worker[w] \/ worker'[w] = IdleWorker
        /\ UNCHANGED <<row, recovery>>
    BY <1>12 DEF ApiCrash
  <2> QED
    BY <1>4, <2>1, <2>2
<1>13. ASSUME UNCHANGED <<row, upload, inbox, worker>>,
              recovery' = recovery \/ recovery'.step # "selected"
       PROVE  ResultFollows'
  BY <1>4, <1>13
<1>14. CASE RecoveryFind
  <2>1. recovery'.step = "found" /\ UNCHANGED row
    BY <1>14 DEF RecoveryFind, IdleRecovery
  <2> QED
    BY <1>13, <1>14, <2>1, JobsLeave DEF RecoveryStep
<1>15. CASE RecoverySelect
  <2> DEFINE rows == {t \in recovery.batch : IsRuntimeStale(row[t])}
             loaded == [t \in Tasks |-> IF t \in rows THEN row[t].result ELSE {}]
  <2>1. UNCHANGED <<row, upload, inbox, worker>>
    BY <1>15, JobsLeave DEF RecoveryStep, RecoverySelect
  <2>2. recovery' = IF rows = {} THEN IdleRecovery
                    ELSE [step |-> "selected", batch |-> rows, loaded |-> loaded]
    BY <1>15 DEF RecoverySelect
  <2>3. CASE rows = {}
    BY <1>13, <2>1, <2>2, <2>3 DEF IdleRecovery
  <2>4. CASE rows # {}
    <3>1. ASSUME NEW t \in Tasks, t \in recovery'.batch
          PROVE  recovery'.loaded[t] = {"filename"}
      <4>1. t \in rows /\ recovery'.loaded[t] = row[t].result
        BY <2>2, <2>4, <3>1
      <4> QED
        BY <1>1, <4>1 DEF IsRuntimeStale, Fits
    <3> QED
      BY <2>1, <3>1 DEF ResultFollows, Task
  <2> QED
    BY <2>3, <2>4
<1>16. CASE RecoveryCommit
  <2>1. UNCHANGED <<upload, inbox, worker>> /\ recovery'.step # "selected"
    <3>1. recovery.step = "selected" /\ recovery \in RecoveryType
      BY <1>16 DEF RecoveryCommit, TypeOK
    <3>2. recovery' = IdleRecovery
          \/ recovery' = [recovery EXCEPT !.step = "announcing", !.loaded = NothingLoaded]
      BY <1>16 DEF RecoveryCommit
    <3>3. [recovery EXCEPT !.step = "announcing", !.loaded = NothingLoaded].step = "announcing"
      BY <3>1 DEF RecoveryType
    <3>4. IdleRecovery.step = "idle"
      BY DEF IdleRecovery
    <3>5. recovery'.step \in {"announcing", "idle"}
      <4>1. CASE recovery' = IdleRecovery
        BY <3>4, <4>1
      <4>2. CASE recovery' = [recovery EXCEPT !.step = "announcing", !.loaded = NothingLoaded]
        BY <3>3, <4>2
      <4> QED
        BY <3>2, <4>1, <4>2
    <3> QED
      BY <1>16, <3>5, JobsLeave DEF RecoveryStep
  <2>2. ASSUME NEW t \in Tasks
        PROVE  Fits(row'[t]) /\ (Carries(row[t]) => Carries(row'[t]))
    <3>1. t \in recovery.batch => recovery.loaded[t] = {"filename"}
      BY <1>16 DEF RecoveryCommit, ResultFollows
    <3>2. row'[t] = row[t] \/ row'[t] = MarkStaleFailed(row[t], {"filename"})
      BY <1>16, <3>1 DEF RecoveryCommit
    <3> QED
      BY <1>1, <3>2, RowsFit
  <2>3. \A t \in Tasks : upload'[t] = "created" \/ inbox'[t] = 1 => Carries(row'[t])
    BY <2>1, <2>2 DEF ResultFollows
  <2>4. \A w \in Workers : worker[w].step \in Early => Carries(row'[Task(w)])
    BY <1>1, <2>2
  <2> QED
    BY <1>2, <2>1, <2>2, <2>3, <2>4
<1>17. ASSUME NEW t \in Tasks, RecoveryAnnounce(t)
       PROVE  ResultFollows'
  <2>1. recovery.step = "announcing" /\ recovery \in RecoveryType /\ UNCHANGED row
    BY <1>17 DEF RecoveryAnnounce, TypeOK
  <2>2. recovery' = IdleRecovery \/ recovery' = [recovery EXCEPT !.batch = @ \ {t}]
    BY <1>17 DEF RecoveryAnnounce
  <2>3. recovery'.step # "selected"
    BY <2>1, <2>2 DEF IdleRecovery, RecoveryType
  <2> QED
    BY <1>13, <1>17, <2>1, <2>3, JobsLeave DEF RecoveryStep
<1>18. CASE RecoveryAborts
  BY <1>13, <1>18, JobsLeave DEF RecoveryAborts, IdleRecovery
<1>19. CASE UNCHANGED vars
  BY <1>13, <1>19 DEF vars
<1>20. ASSUME NEW w \in Workers, WorkerStep(w)
       PROVE  ResultFollows'
  BY <1>20, WorkerStepResult
<1> QED
  BY <1>5, <1>6, <1>7, <1>8, <1>9, <1>10, <1>11, <1>12, <1>14, <1>15, <1>16, <1>17, <1>18, <1>19,
     <1>20 DEF Next, CancelStep, RecoveryStep

\* A message delivered once and no cleanup job: data with "completed", an error with
\* the other outcomes, the name of the document with what completed or was cancelled,
\* also when the recovery job and the run write over each other (tasks.py, crud.py).
THEOREM ResultFitsStatus ==
    ASSUME OneDelivery, "cleanup" \notin Jobs
    PROVE  Spec => []OutcomeMatchesResult
<1>1. Init => ResultFollows
  BY DEF Init, ResultFollows, IdleRecovery, IdleWorker, Early, Fits, NoRow, InProgress
<1>2. TypeOK /\ HandedOver /\ RowStays /\ ResultFollows /\ [Next]_vars => ResultFollows'
  BY NextResult
<1>3. ResultFollows => OutcomeMatchesResult
  BY DEF ResultFollows, OutcomeMatchesResult, Fits
<1> QED
  BY <1>1, <1>2, <1>3, AlwaysRowStays, PTL DEF Spec
=============================================================================
