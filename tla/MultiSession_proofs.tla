------------------------- MODULE MultiSession_proofs -------------------------
(* Theorems about MultiSession for every value of its constants. *)
EXTENDS MultiSession, TLAPS

-----------------------------------------------------------------------------
(* Types *)

\* What the functions of crud.py leave in a row is a row.
LEMMA RowOperations ==
    ASSUME NEW r \in SessionType
    PROVE  /\ NoSession \in SessionType
           /\ CreateSession \in SessionType
           /\ \A s \in {"processing"} \cup Terminal \cup {r.status}, n \in 0..Total,
                 good \in SUBSET Periods, bad \in SUBSET Periods :
                 UpdateSession(r, s, n, good, bad) \in SessionType
           /\ \A n \in 0..Total, good \in SUBSET Periods, bad \in SUBSET Periods :
                 MarkSessionCancelled(r, n, good, bad) \in SessionType
           /\ RequestSessionCancel(r) \in SessionType
           /\ TouchSession(r) \in SessionType
           /\ \A loaded \in RecoveryType : MarkStaleSessionFailed(r, loaded) \in SessionType
<1> USE TotalAssumption
<1>0. 0 \in 0..Total /\ {} \in SUBSET Periods
  OBVIOUS
<1>1. NoSession \in SessionType /\ CreateSession \in SessionType
  BY <1>0 DEF SessionType, NoSession, CreateSession, Terminal
<1>2. Stamped(r) \in SessionType /\ Beating(r) \in SessionType
  BY DEF SessionType, Stamped, Beating
<1>3. RequestSessionCancel(r) \in SessionType /\ TouchSession(r) \in SessionType
  BY <1>2 DEF RequestSessionCancel, TouchSession, SessionType
<1>4. ASSUME NEW good \in SUBSET Periods, NEW bad \in SUBSET Periods
      PROVE  MergePeriods(r, good, bad) \in SessionType
  BY <1>4 DEF MergePeriods, SessionType
<1>5. ASSUME NEW m \in SessionType, NEW s \in {"absent", "processing"} \cup Terminal,
             NEW n \in 0..Total
      PROVE  /\ [Stamped(m) EXCEPT !.status = s, !.completed = n] \in SessionType
             /\ [Beating(m) EXCEPT !.status = "cancelled", !.completed = n,
                                   !.cancelRequested = TRUE] \in SessionType
  BY <1>5 DEF SessionType, Stamped, Beating, Terminal
<1>6. r.status \in {"absent", "processing"} \cup Terminal
  BY DEF SessionType
<1>7. \A s \in {"processing"} \cup Terminal \cup {r.status}, n \in 0..Total,
        good \in SUBSET Periods, bad \in SUBSET Periods :
        UpdateSession(r, s, n, good, bad) \in SessionType
  BY <1>4, <1>5, <1>6 DEF UpdateSession
<1>8. \A n \in 0..Total, good \in SUBSET Periods, bad \in SUBSET Periods :
        MarkSessionCancelled(r, n, good, bad) \in SessionType
  BY <1>4, <1>5 DEF MarkSessionCancelled
<1>9. \A loaded \in RecoveryType : MarkStaleSessionFailed(r, loaded) \in SessionType
  BY DEF MarkStaleSessionFailed, Beating, SessionType, RecoveryType, Terminal
<1> QED
  BY <1>1, <1>3, <1>7, <1>8, <1>9

LEMMA InitTypeOK == Init => TypeOK
<1> SUFFICES ASSUME Init PROVE TypeOK
  OBVIOUS
<1>1. 0 \in 0..Total /\ 0 \in 0..2 /\ {} \in SUBSET Periods
  BY TotalAssumption
<1>2. row \in SessionType
  BY <1>1 DEF Init, SessionType, NoSession
<1>3. run \in [Deliveries -> RunType] /\ recovery \in RecoveryType /\ told \in ToldType
  BY <1>1 DEF Init, RunType, RunSteps, Unsent, RecoveryType, IdleRecovery, ToldType
<1> QED
  BY <1>1, <1>2, <1>3 DEF Init, TypeOK, RequestSteps, CancelSteps, Unsent, Bad, Done

\* The part of TypeOK about the runs.
RunsOK ==
    /\ run \in [Deliveries -> RunType]
    /\ \A d \in Deliveries :
          /\ Bad(d) \subseteq 1..Done(d)
          /\ run[d].step \in {"extract", "touchPeriod"} => Done(d) < Total
          /\ run[d].step = "record" => Done(d) > 0

LEMMA GotoOK ==
    ASSUME RunsOK, NEW d \in Deliveries, NEW step \in RunSteps, Goto(d, step),
           step \in {"extract", "touchPeriod"} => Done(d) < Total,
           step = "record" => Done(d) > 0
    PROVE  /\ RunsOK'
           /\ run'[d].step = step
           /\ run'[d].done = run[d].done
           /\ run'[d].failed = run[d].failed
           /\ \A e \in Deliveries : e # d => run'[e] = run[e]
  BY DEF RunsOK, Goto, RunType, Done, Bad

LEMMA CountPeriodOK ==
    ASSUME RunsOK, NEW d \in Deliveries, Done(d) < Total,
           NEW failed \in SUBSET {Done(d) + 1}, CountPeriod(d, failed)
    PROVE  /\ RunsOK'
           /\ run'[d].step = "record"
           /\ run'[d].done = run[d].done + 1
           /\ \A e \in Deliveries : e # d => run'[e] = run[e]
<1>1. /\ run' = [run EXCEPT ![d] = [step   |-> "record",
                                    done   |-> run[d].done + 1,
                                    failed |-> run[d].failed \cup failed]]
      /\ run[d] \in RunType /\ run[d].failed \subseteq 1..run[d].done
  BY DEF RunsOK, CountPeriod, Done, Bad
<1>2. run[d].done + 1 \in 1..Total /\ run[d].done \in 0..Total
  BY <1>1, TotalAssumption DEF RunType, Done
<1>3. run[d].failed \cup failed \subseteq 1..(run[d].done + 1)
  <2> SUFFICES ASSUME NEW i \in run[d].failed \cup failed PROVE i \in 1..(run[d].done + 1)
    OBVIOUS
  <2>1. i \in 1..run[d].done \/ i = run[d].done + 1
    BY <1>1 DEF Done
  <2> QED
    BY <1>2, <2>1, TotalAssumption
<1>4. run[d].failed \cup failed \in SUBSET Periods
  BY <1>2, <1>3, TotalAssumption DEF Periods
<1> QED
  BY <1>1, <1>2, <1>3, <1>4 DEF RunsOK, RunType, RunSteps, Done, Bad

LEMMA TransactionOK ==
    ASSUME TypeOK, NEW d \in Deliveries, NEW r \in SessionType, NEW next \in RunSteps,
           next \notin {"extract", "touchPeriod", "record"},
           Transaction(d, r, next)
    PROVE  row' \in SessionType /\ RunsOK'
<1>1. row' \in SessionType
  BY DEF Transaction, Raises, TypeOK
<1>2. RunsOK /\ "cleanup" \in RunSteps
  BY DEF TypeOK, RunsOK, RunSteps
<1> QED
  BY <1>1, <1>2, GotoOK DEF Transaction

LEMMA BroadcastOK ==
    ASSUME TypeOK, NEW d \in Deliveries, NEW event \in ToldType, NEW next \in RunSteps,
           next \notin {"extract", "touchPeriod", "record"},
           Broadcast(d, event, next)
    PROVE  told' \in ToldType /\ RunsOK'
<1>1. told' \in ToldType
  BY DEF Broadcast, TypeOK
<1>2. RunsOK /\ "cleanup" \in RunSteps
  BY DEF TypeOK, RunsOK, RunSteps
<1> QED
  BY <1>1, <1>2, GotoOK DEF Broadcast

\* A step of a run keeps the types.
LEMMA RunStepTypeOK ==
    ASSUME TypeOK, NEW d \in Deliveries, RunStep(d)
    PROVE  TypeOK'
<1> USE DEF requestVars, jobVars, historyVars
<1>1. /\ RunsOK /\ run[d] \in RunType /\ row \in SessionType
      /\ Done(d) \in 0..Total /\ Bad(d) \in SUBSET Periods /\ Good(d) \in SUBSET Periods
  <2>1. RunsOK /\ run[d] \in RunType /\ row \in SessionType
    BY DEF TypeOK, RunsOK
  <2>2. Done(d) \in 0..Total /\ Bad(d) \in SUBSET Periods
    BY <2>1 DEF RunType, Done, Bad
  <2>3. Good(d) \in SUBSET Periods
    BY <2>2, TotalAssumption DEF Good, Periods
  <2> QED
    BY <2>1, <2>2, <2>3
<1>2. /\ {"touchStart", "checkStart", "check", "extract", "touchPeriod", "record", "touchRecorded",
          "emitProgress", "touchCollect", "touchCollected", "commit", "emitOutcome", "cancel",
          "emitCancelled", "cleanup", "over"} \subseteq RunSteps
      /\ {"completed", "failed", "cancelled"} = Terminal
      /\ 0 \in 0..Total /\ Total \in 0..Total /\ {} \in SUBSET Periods
      /\ Outcome(d) \in Terminal
  BY TotalAssumption DEF RunSteps, Terminal, Outcome
<1>3. ASSUME RunsOK', row' \in SessionType, file' \in [Periods -> BOOLEAN], told' \in ToldType,
             overrun' \in 0..2, UNCHANGED <<requestVars, revoked, jobVars, asked>>
      PROVE  TypeOK'
  BY <1>3 DEF TypeOK, RunsOK, Done, Bad
<1>4. CASE StartSession(d)
  <2>1. UpdateSession(row, "processing", 0, {}, {}) \in SessionType
    BY <1>1, <1>2, RowOperations
  <2>2. row' \in SessionType /\ RunsOK'
    BY <1>2, <1>4, <2>1, TransactionOK DEF StartSession
  <2> QED
    BY <1>3, <1>4, <2>2 DEF StartSession, TypeOK
<1>5. CASE TouchRuntime(d)
  <2>1. /\ AfterTouch[run[d].step] \in RunSteps
        /\ AfterTouch[run[d].step] \notin {"extract", "touchPeriod", "record"}
    BY <1>2, <1>5 DEF TouchRuntime, AfterTouch
  <2>2. row' \in SessionType /\ RunsOK'
    BY <1>1, <1>5, <2>1, RowOperations, TransactionOK DEF TouchRuntime
  <2> QED
    BY <1>3, <1>5, <2>2 DEF TouchRuntime, TypeOK
<1>6. CASE CheckCancel(d)
  <2>1. PICK step \in RunSteps : /\ Goto(d, step)
                                 /\ step \notin {"touchPeriod", "record"}
                                 /\ step = "extract" => Done(d) < Total
    BY <1>2, <1>6 DEF CheckCancel
  <2>2. RunsOK'
    BY <1>1, <2>1, GotoOK
  <2>3. overrun' \in 0..2
    BY <1>6 DEF CheckCancel, TypeOK
  <2> QED
    BY <1>3, <1>6, <2>2, <2>3 DEF CheckCancel, TypeOK
<1>7. CASE TimeOut(d)
  <2>1. UpdateSession(row, "failed", Done(d), {}, {}) \in SessionType
    BY <1>1, <1>2, RowOperations
  <2>2. row' \in SessionType /\ RunsOK'
    BY <1>2, <1>7, <2>1, TransactionOK DEF TimeOut
  <2> QED
    BY <1>3, <1>7, <2>2 DEF TimeOut, TypeOK
<1>8. CASE ExtractPeriod(d)
  <2>1. Done(d) < Total
    BY <1>8 DEF ExtractPeriod, At, TypeOK
  <2>2. CASE Goto(d, "touchPeriod") /\ UNCHANGED file
    BY <1>1, <1>2, <1>3, <1>8, <2>1, <2>2, GotoOK DEF ExtractPeriod, TypeOK
  <2>3. CASE CountPeriod(d, {Done(d) + 1})
    <3>1. RunsOK' /\ file' \in [Periods -> BOOLEAN]
      BY <1>1, <2>1, <2>3, CountPeriodOK DEF CountPeriod, TypeOK
    <3> QED
      BY <1>3, <1>8, <3>1 DEF ExtractPeriod, TypeOK
  <2> QED
    BY <1>8, <2>2, <2>3 DEF ExtractPeriod
<1>9. CASE TouchPeriod(d)
  <2>1. Done(d) < Total
    BY <1>9 DEF TouchPeriod, At, TypeOK
  <2>2. PICK failed \in SUBSET {Done(d) + 1} : CountPeriod(d, failed)
    BY <1>9 DEF TouchPeriod
  <2>3. RunsOK' /\ file' \in [Periods -> BOOLEAN]
    BY <1>1, <2>1, <2>2, CountPeriodOK DEF CountPeriod, TypeOK
  <2>4. row' \in SessionType
    BY <1>1, <1>9, RowOperations DEF TouchPeriod, Raises
  <2> QED
    BY <1>3, <1>9, <2>3, <2>4 DEF TouchPeriod, TypeOK
<1>10. CASE RecordProgress(d)
  <2>1. UpdateSession(row, row.status, Done(d), {}, {}) \in SessionType
    BY <1>1, <1>2, RowOperations
  <2>2. row' \in SessionType /\ RunsOK'
    BY <1>2, <1>10, <2>1, TransactionOK DEF RecordProgress
  <2> QED
    BY <1>3, <1>10, <2>2 DEF RecordProgress, TypeOK
<1>11. CASE AnnounceProgress(d)
  <2>1. [status |-> "processing", completed |-> Done(d)] \in ToldType
    BY <1>1 DEF ToldType
  <2>2. told' \in ToldType /\ RunsOK'
    BY <1>2, <1>11, <2>1, BroadcastOK DEF AnnounceProgress
  <2> QED
    BY <1>3, <1>11, <2>2 DEF AnnounceProgress, TypeOK
<1>12. CASE CommitOutcome(d)
  <2>1. UpdateSession(row, Outcome(d), Total, Good(d), Bad(d)) \in SessionType
    BY <1>1, <1>2, RowOperations
  <2>2. row' \in SessionType /\ RunsOK'
    BY <1>2, <1>12, <2>1, TransactionOK DEF CommitOutcome
  <2> QED
    BY <1>3, <1>12, <2>2 DEF CommitOutcome, TypeOK
<1>13. CASE AnnounceOutcome(d)
  <2>1. [status |-> Outcome(d), completed |-> Total] \in ToldType
    BY <1>2 DEF ToldType
  <2>2. told' \in ToldType /\ RunsOK'
    BY <1>2, <1>13, <2>1, BroadcastOK DEF AnnounceOutcome
  <2> QED
    BY <1>3, <1>13, <2>2 DEF AnnounceOutcome, TypeOK
<1>14. CASE CommitCancellation(d)
  <2>1. MarkSessionCancelled(row, Done(d), Good(d), Bad(d)) \in SessionType
    BY <1>1, RowOperations
  <2>2. row' \in SessionType /\ RunsOK'
    BY <1>2, <1>14, <2>1, TransactionOK DEF CommitCancellation
  <2> QED
    BY <1>3, <1>14, <2>2 DEF CommitCancellation, TypeOK
<1>15. CASE AnnounceCancelled(d)
  <2>1. [status |-> "cancelled", completed |-> Done(d)] \in ToldType
    BY <1>1, <1>2 DEF ToldType
  <2>2. told' \in ToldType /\ RunsOK'
    BY <1>2, <1>15, <2>1, BroadcastOK DEF AnnounceCancelled
  <2> QED
    BY <1>3, <1>15, <2>2 DEF AnnounceCancelled, TypeOK
<1>16. CASE CleanupTempFiles(d)
  <2>1. RunsOK' /\ file' \in [Periods -> BOOLEAN]
    BY <1>1, <1>2, <1>16, GotoOK DEF CleanupTempFiles, TypeOK
  <2> QED
    BY <1>3, <1>16, <2>1 DEF CleanupTempFiles, TypeOK
<1> QED
  BY <1>4, <1>5, <1>6, <1>7, <1>8, <1>9, <1>10, <1>11, <1>12, <1>13, <1>14, <1>15, <1>16 DEF RunStep

\* Every step keeps the types.
LEMMA NextTypeOK ==
    ASSUME TypeOK, [Next]_vars
    PROVE  TypeOK'
<1> USE DEF requestVars, jobVars, historyVars
<1>1. /\ NoSession \in SessionType /\ CreateSession \in SessionType
      /\ UpdateSession(row, "failed", 0, {}, {}) \in SessionType
      /\ RequestSessionCancel(row) \in SessionType
  <2>1. 0 \in 0..Total /\ "failed" \in Terminal
    BY TotalAssumption DEF Terminal
  <2> QED
    BY <2>1, RowOperations DEF TypeOK
<1>2. CASE RequestStep
  <2>1. row' \in SessionType
    BY <1>1, <1>2 DEF TypeOK, RequestStep, SaveDocument, CreateRecord, RejectRequest, Dispatch,
       DispatchFails, RecordDispatchFailure, Raises
  <2>2. file' \in [Periods -> BOOLEAN] /\ request' \in RequestSteps
    BY <1>2
    DEF TypeOK, RequestStep, SaveDocument, CreateRecord, RejectRequest, Dispatch, DispatchFails,
        RecordDispatchFailure, RequestSteps
  <2>4. saved' \in 0..Total
    <3>1. CASE SaveDocument
      BY <3>1, TotalAssumption DEF SaveDocument, TypeOK
    <3> QED
      BY <1>2, <3>1 DEF TypeOK, RequestStep, CreateRecord, RejectRequest, Dispatch, DispatchFails,
         RecordDispatchFailure
  <2>3. RunsOK'
    <3>1. RunsOK /\ "queued" \in RunSteps
      BY DEF TypeOK, RunsOK, RunSteps
    <3>2. CASE UNCHANGED run
      BY <3>1, <3>2 DEF RunsOK, Done, Bad
    <3>3. ASSUME NEW d \in Deliveries, Dispatch(d)
          PROVE  RunsOK'
      BY <3>1, <3>3, GotoOK DEF Dispatch, Goto
    <3> QED
      BY <1>2, <3>2, <3>3 DEF RequestStep, SaveDocument, CreateRecord, RejectRequest,
         DispatchFails, RecordDispatchFailure
  <2>5. UNCHANGED <<canceller, revoked, recovery, cleaner, told, asked, overrun>>
    BY <1>2 DEF RequestStep, SaveDocument, CreateRecord, RejectRequest, Dispatch, DispatchFails,
       RecordDispatchFailure
  <2> QED
    BY <2>1, <2>2, <2>3, <2>4, <2>5 DEF TypeOK, RunsOK, Done, Bad
<1>3. CASE RequestCancel \/ CancelStep
  <2>1. row' \in SessionType
    BY <1>1, <1>3 DEF TypeOK, RequestCancel, CancelStep, RecordCancel, RevokeTask, Raises
  <2>2. row'.cancelRequested \in BOOLEAN
    BY <2>1 DEF SessionType
  <2>3. canceller' \in CancelSteps /\ revoked' \in BOOLEAN /\ asked' \in BOOLEAN
    BY <1>3, <2>2 DEF TypeOK, RequestCancel, CancelStep, RecordCancel, RevokeTask, CancelSteps
  <2>4. UNCHANGED <<file, request, saved, run, recovery, cleaner, told, overrun>>
    BY <1>3 DEF RequestCancel, CancelStep, RecordCancel, RevokeTask
  <2> QED
    BY <2>1, <2>3, <2>4 DEF TypeOK, Done, Bad
<1>4. ASSUME NEW d \in Deliveries,
             StartRun(d) \/ DiscardRevoked(d) \/ Redeliver(d) \/ WorkerCrash(d)
      PROVE  TypeOK'
  <2>1. RunsOK /\ {"start", "lost", "queued"} \subseteq RunSteps
    BY DEF TypeOK, RunsOK, RunSteps
  <2>2. RunsOK'
    BY <1>4, <2>1, GotoOK DEF StartRun, DiscardRevoked, Redeliver, WorkerCrash
  <2> QED
    BY <1>4, <2>2 DEF TypeOK, RunsOK, StartRun, DiscardRevoked, Redeliver, WorkerCrash, Done, Bad
<1>5. CASE ApiCrash
  <2>1. request' \in RequestSteps /\ canceller' \in CancelSteps
    BY <1>5 DEF ApiCrash, TypeOK, RequestSteps, CancelSteps
  <2>2. RunsOK'
    <3>1. CASE UNCHANGED run
      BY <3>1 DEF TypeOK, RunsOK, Done, Bad
    <3>2. CASE run' = [d \in Deliveries |-> IF At(d, "unsent") \/ At(d, "over") THEN run[d]
                                             ELSE [run[d] EXCEPT !.step = "lost"]]
      BY <3>2 DEF TypeOK, RunsOK, RunType, RunSteps, Done, Bad, At
    <3> QED
      BY <1>5, <3>1, <3>2 DEF ApiCrash
  <2> QED
    BY <1>5, <2>1, <2>2 DEF ApiCrash, TypeOK, RunsOK, Done, Bad
<1>6. CASE HeartbeatExpires \/ RowAges
  <2>1. row' \in SessionType
    BY <1>6 DEF HeartbeatExpires, RowAges, TypeOK, SessionType
  <2> QED
    BY <1>6, <2>1 DEF HeartbeatExpires, RowAges, TypeOK, Done, Bad
<1>7. CASE RecoveryStep \/ RecoveryAborts
  <2>1. IdleRecovery \in RecoveryType
    BY DEF IdleRecovery, RecoveryType
  <2>2. recovery' \in RecoveryType
    BY <1>7, <2>1 DEF RecoveryStep, RecoveryFind, RecoverySelect, RecoveryCommit, RecoveryAnnounce,
       RecoveryAborts, RecoveryType, TypeOK, SessionType
  <2>3. row' \in SessionType
    BY <1>7, RowOperations DEF RecoveryStep, RecoveryFind, RecoverySelect, RecoveryCommit,
       RecoveryAnnounce, RecoveryAborts, TypeOK
  <2>4. told' \in ToldType
    BY <1>7 DEF RecoveryStep, RecoveryFind, RecoverySelect, RecoveryCommit, RecoveryAnnounce,
       RecoveryAborts, TypeOK, ToldType, Terminal
  <2>5. UNCHANGED <<file, request, saved, canceller, revoked, run, cleaner, asked, overrun>>
    BY <1>7 DEF RecoveryStep, RecoveryFind, RecoverySelect, RecoveryCommit, RecoveryAnnounce,
       RecoveryAborts
  <2> QED
    BY <2>2, <2>3, <2>4, <2>5 DEF TypeOK, Done, Bad
<1>8. CASE CleanerFind \/ CleanerDelete
  BY <1>1, <1>8 DEF CleanerFind, CleanerDelete, TypeOK, Done, Bad
<1>9. CASE UNCHANGED vars
  BY <1>9 DEF vars, TypeOK, Done, Bad
<1> QED
  BY <1>2, <1>3, <1>4, <1>5, <1>6, <1>7, <1>8, <1>9, RunStepTypeOK DEF Next

\* The variables keep their types, whatever faults occur, jobs run and deliveries
\* work on the session at once.
THEOREM TypeCorrect == Spec => []TypeOK
<1> QED
  BY InitTypeOK, NextTypeOK, PTL DEF Spec

-----------------------------------------------------------------------------
(* Fresh rows *)

\* What the functions of crud.py leave of a row that exists, exists.
LEMMA StillExists ==
    ASSUME NEW r \in SessionType, Exists(r)
    PROVE  /\ \A s \in {"processing"} \cup Terminal \cup {r.status} : \A n, good, bad :
                 Exists(UpdateSession(r, s, n, good, bad))
           /\ \A n, good, bad : Exists(MarkSessionCancelled(r, n, good, bad))
           /\ Exists(RequestSessionCancel(r))
           /\ Exists(TouchSession(r))
           /\ \A loaded : Exists(MarkStaleSessionFailed(r, loaded))
  BY DEF SessionType, Exists, Terminal, UpdateSession, MarkSessionCancelled, RequestSessionCancel,
     TouchSession, MarkStaleSessionFailed, MergePeriods, Stamped, Beating

\* No step but the DELETE of the cleanup job removes the row, and that one
\* repeats the filter (cleanup_multi_sessions), for any jobs, faults and deliveries.
THEOREM OnlyOldRowsDeleted == Spec => FreshRowsKept
<1> DEFINE Kept == Exists(row) /\ (~row.old \/ ~InProgress(row)) => Exists(row')
<1>1. ASSUME TypeOK, Next PROVE Kept
  <2> SUFFICES ASSUME Exists(row), ~row.old \/ ~InProgress(row) PROVE Exists(row')
    OBVIOUS
  <2> USE StillExists
  <2>1. row \in SessionType /\ Exists(CreateSession)
    BY <1>1 DEF TypeOK, Exists, CreateSession, NoSession
  <2>2. CASE RequestStep
    BY <2>1, <2>2 DEF RequestStep, SaveDocument, CreateRecord, RejectRequest, Dispatch, DispatchFails,
       RecordDispatchFailure, Raises, Terminal
  <2>3. CASE RequestCancel \/ CancelStep
    BY <2>1, <2>3 DEF RequestCancel, CancelStep, RecordCancel, RevokeTask, Raises
  <2>4. ASSUME NEW d \in Deliveries, RunStep(d)
        PROVE  Exists(row')
    <3>1. Outcome(d) \in Terminal /\ "failed" \in Terminal
      BY DEF Outcome, Terminal
    <3> QED
      BY <2>1, <2>4, <3>1
      DEF RunStep, StartSession, TouchRuntime, CheckCancel, TimeOut, ExtractPeriod, TouchPeriod,
          RecordProgress, AnnounceProgress, CommitOutcome, AnnounceOutcome, CommitCancellation,
          AnnounceCancelled, CleanupTempFiles, Transaction, Raises
  <2>5. ASSUME NEW d \in Deliveries,
               StartRun(d) \/ DiscardRevoked(d) \/ Redeliver(d) \/ WorkerCrash(d)
        PROVE  Exists(row')
    BY <2>1, <2>5 DEF StartRun, DiscardRevoked, Redeliver, WorkerCrash
  <2>6. CASE ApiCrash \/ HeartbeatExpires \/ RowAges
    BY <2>1, <2>6 DEF ApiCrash, HeartbeatExpires, RowAges, SessionType, Exists
  <2>7. CASE RecoveryStep \/ RecoveryAborts
    BY <2>1, <2>7 DEF RecoveryStep, RecoveryFind, RecoverySelect, RecoveryCommit, RecoveryAnnounce,
       RecoveryAborts
  <2>8. CASE CleanerFind \/ CleanerDelete
    BY <2>1, <2>8 DEF CleanerFind, CleanerDelete, IsSessionCleanupCandidate
  <2> QED
    BY <1>1, <2>2, <2>3, <2>4, <2>5, <2>6, <2>7, <2>8 DEF Next
<1>2. TypeOK /\ [Next]_vars => [Kept]_vars
  BY <1>1
<1> QED
  BY <1>2, TypeCorrect, PTL DEF Spec, FreshRowsKept

-----------------------------------------------------------------------------
(* One delivery: the steps of its run *)

\* The broker hands the message out once.
OneDelivery == \A d, e \in Deliveries : d = e

Waiting    == {"queued", "start"}
Deciding   == {"touchStart", "checkStart", "check", "extract", "touchPeriod", "record",
               "touchRecorded", "emitProgress", "touchCollect", "touchCollected", "commit", "cancel"}
Announcing == {"emitOutcome", "emitCancelled"}
Working    == Deciding \cup Announcing

\* A run starts with no period done and decides the outcome with all of them done;
\* before the request is dispatched no run exists, and before its documents are
\* saved no row.
Handed ==
    /\ request = "saving" => row = NoSession /\ ~asked
    /\ \A d \in Deliveries :
          /\ run[d].step # "unsent" => request = "accepted"
          /\ run[d].step \in {"unsent", "queued", "start", "touchStart", "checkStart"} => Done(d) = 0
          /\ run[d].step \in {"touchCollect", "touchCollected", "commit", "emitOutcome"} =>
                 Done(d) = Total

LEMMA RunStepHanded ==
    ASSUME TypeOK, Handed, NEW d \in Deliveries, RunStep(d)
    PROVE  Handed'
<1>1. run \in [Deliveries -> RunType] /\ run[d].step # "unsent" /\ request = "accepted"
  <2>1. run[d].step # "unsent"
    BY DEF RunStep, StartSession, TouchRuntime, CheckCancel, TimeOut, ExtractPeriod, TouchPeriod,
           RecordProgress, AnnounceProgress, CommitOutcome, AnnounceOutcome, CommitCancellation,
           AnnounceCancelled, CleanupTempFiles, At, AfterTouch
  <2> QED
    BY <2>1 DEF TypeOK, Handed
<1>2. UNCHANGED <<request, saved>>
  BY DEF RunStep, StartSession, TouchRuntime, CheckCancel, TimeOut, ExtractPeriod, TouchPeriod,
         RecordProgress, AnnounceProgress, CommitOutcome, AnnounceOutcome, CommitCancellation,
         AnnounceCancelled, CleanupTempFiles, requestVars
<1>3. ASSUME NEW step \in RunSteps, Goto(d, step),
             step \notin {"unsent", "queued", "start"},
             step \in {"touchStart", "checkStart"} => Done(d) = 0,
             step \in {"touchCollect", "touchCollected", "commit", "emitOutcome"} => Done(d) = Total
      PROVE  Handed'
  BY <1>1, <1>2, <1>3 DEF Goto, Handed, RunType, Done
<1>4. ASSUME NEW failed, CountPeriod(d, failed)
      PROVE  Handed'
  BY <1>1, <1>2, <1>4 DEF CountPeriod, Handed, RunType, Done
<1>5. {"touchStart", "checkStart", "check", "extract", "touchPeriod", "record", "touchRecorded",
       "emitProgress", "touchCollect", "touchCollected", "commit", "emitOutcome", "cancel",
       "emitCancelled", "cleanup", "over"} \subseteq RunSteps
  BY DEF RunSteps
<1>6. /\ Done(d) \in 0..Total
      /\ run[d].step \in {"start", "touchStart", "checkStart"} => Done(d) = 0
      /\ run[d].step \in {"touchCollect", "touchCollected", "commit", "emitOutcome"} =>
             Done(d) = Total
  BY <1>1 DEF Handed, RunType, Done
<1>7. CASE StartSession(d) \/ TimeOut(d) \/ RecordProgress(d) \/ CommitOutcome(d) \/ CommitCancellation(d)
  BY <1>3, <1>5, <1>6, <1>7 DEF StartSession, TimeOut, RecordProgress, CommitOutcome,
     CommitCancellation, Transaction, At
<1>8. CASE TouchRuntime(d)
  <2>1. PICK step \in {"checkStart", "emitProgress", "touchCollected", "commit", "cleanup"} :
           /\ Goto(d, step)
           /\ step = "checkStart" => run[d].step = "touchStart"
           /\ step = "touchCollected" => run[d].step = "touchCollect"
           /\ step = "commit" => run[d].step = "touchCollected"
    BY <1>8 DEF TouchRuntime, AfterTouch, Transaction
  <2> QED
    BY <1>3, <1>5, <1>6, <2>1
<1>9. CASE CheckCancel(d)
  BY <1>3, <1>5, <1>6, <1>9, TotalAssumption DEF CheckCancel, At
<1>10. CASE ExtractPeriod(d) \/ TouchPeriod(d)
  BY <1>3, <1>4, <1>5, <1>10 DEF ExtractPeriod, TouchPeriod
<1>11. CASE AnnounceProgress(d) \/ AnnounceOutcome(d) \/ AnnounceCancelled(d) \/ CleanupTempFiles(d)
  BY <1>3, <1>5, <1>6, <1>11 DEF AnnounceProgress, AnnounceOutcome, AnnounceCancelled,
     CleanupTempFiles, Broadcast
<1> QED
  BY <1>7, <1>8, <1>9, <1>10, <1>11 DEF RunStep

LEMMA NextHanded ==
    ASSUME TypeOK, Handed, [Next]_vars
    PROVE  Handed'
<1> USE DEF requestVars, jobVars, historyVars
<1>1. run \in [Deliveries -> RunType]
  BY DEF TypeOK
<1>2. ASSUME UNCHANGED run, request = "accepted" => request' = "accepted",
             request' = "saving" => request = "saving" /\ row' = NoSession /\ ~asked'
      PROVE  Handed'
  BY <1>2 DEF Handed, Done
<1>3. CASE RequestStep
  <2>1. ASSUME NEW d \in Deliveries, Dispatch(d)
        PROVE  Handed'
    BY <1>1, <2>1 DEF Dispatch, Handed, RunType, Done
  <2> QED
    BY <1>2, <1>3, <2>1 DEF RequestStep, SaveDocument, CreateRecord, RejectRequest, DispatchFails,
       RecordDispatchFailure, Handed, TypeOK
<1>4. CASE RequestCancel \/ CancelStep
  <2>1. NoSession.cancelRequested = FALSE /\ RequestSessionCancel(NoSession) = NoSession
    BY DEF NoSession, RequestSessionCancel, InProgress
  <2> QED
    BY <1>1, <1>2, <1>4, <2>1 DEF RequestCancel, CancelStep, RecordCancel, RevokeTask, Raises, Handed
<1>5. ASSUME NEW d \in Deliveries,
             StartRun(d) \/ DiscardRevoked(d) \/ Redeliver(d) \/ WorkerCrash(d)
      PROVE  Handed'
  <2>1. request = "accepted"
    BY <1>5 DEF Handed, StartRun, DiscardRevoked, Redeliver, WorkerCrash, At
  <2>2. PICK step \in {"start", "lost", "queued"} :
           /\ Goto(d, step)
           /\ step \in {"start", "queued"} => Done(d) = 0
    BY <1>5 DEF Handed, StartRun, DiscardRevoked, Redeliver, WorkerCrash, At
  <2> QED
    BY <1>1, <1>5, <2>1, <2>2 DEF StartRun, DiscardRevoked, Redeliver, WorkerCrash, Goto, Handed,
       RunType, Done
<1>6. CASE ApiCrash
  <2>1. ASSUME NEW d \in Deliveries
        PROVE  /\ run'[d].step \in {run[d].step, "lost"} /\ run'[d].done = run[d].done
               /\ run[d].step = "unsent" => run'[d].step = "unsent"
    BY <1>1, <1>6 DEF ApiCrash, At, RunType
  <2> QED
    BY <1>6, <2>1 DEF ApiCrash, Handed, Done
<1>7. CASE HeartbeatExpires \/ RowAges \/ RecoveryStep \/ RecoveryAborts \/ CleanerFind \/ CleanerDelete
  <2>1. ~InProgress(NoSession) /\ ~Exists(NoSession)
    BY DEF InProgress, Exists, NoSession
  <2> QED
    BY <1>2, <1>7, <2>1 DEF HeartbeatExpires, RowAges, RecoveryStep, RecoveryFind, RecoverySelect,
       RecoveryCommit, RecoveryAnnounce, RecoveryAborts, CleanerFind, CleanerDelete,
       IsSessionCleanupCandidate, Handed
<1>8. CASE UNCHANGED vars
  BY <1>8 DEF vars, Handed, Done
<1> QED
  BY <1>3, <1>4, <1>5, <1>6, <1>7, <1>8, RunStepHanded DEF Next

LEMMA InitHanded == Init => Handed
  BY DEF Init, Handed, Unsent, Done

\* It holds for any number of deliveries.
LEMMA AlwaysHanded == Spec => [](TypeOK /\ Handed)
<1>1. TypeOK /\ Handed /\ [Next]_vars => (TypeOK /\ Handed)'
  BY NextTypeOK, NextHanded
<1> QED
  BY <1>1, InitTypeOK, InitHanded, PTL DEF Spec

-----------------------------------------------------------------------------
(* The temporary files that are left *)

\* The inductive invariant behind NoFileIsLeft, for any number of deliveries: a run
\* has removed the files of the periods it has done, and all of them in the end.
FilesRemoved ==
    /\ request = "rejected" => \A i \in Periods : ~file[i]
    /\ request = "accepted" => \E d \in Deliveries : run[d].step # "unsent"
    /\ \A d \in Deliveries : \A i \in Periods :
          /\ i <= Done(d) /\ run[d].step # "unsent" => ~file[i]
          /\ run[d].step = "over" => ~file[i]

\* A run brings no file back, and leaves none of those it has counted.
LEMMA RunStepRemoves ==
    ASSUME TypeOK, Handed, NEW d \in Deliveries, RunStep(d)
    PROVE  /\ run[d].step # "unsent" /\ request = "accepted" /\ UNCHANGED <<request, saved>>
           /\ \A e \in Deliveries : e # d => run'[e] = run[e]
           /\ run'[d].step # "unsent" /\ run'[d].done \in Nat
           /\ \A i \in Periods : file'[i] => file[i]
           /\ \/ UNCHANGED file /\ run'[d].done = run[d].done /\ run'[d].step # "over"
              \/ run'[d].done = run[d].done + 1 /\ run'[d].step # "over" /\ ~file'[run'[d].done]
              \/ /\ run'[d].done = run[d].done
                 /\ \A i \in Periods : i > Done(d) => ~file'[i]
<1> DEFINE Goal ==
       /\ \A e \in Deliveries : e # d => run'[e] = run[e]
       /\ run'[d].step # "unsent" /\ run'[d].done \in Nat
       /\ \A i \in Periods : file'[i] => file[i]
       /\ \/ UNCHANGED file /\ run'[d].done = run[d].done /\ run'[d].step # "over"
          \/ run'[d].done = run[d].done + 1 /\ run'[d].step # "over" /\ ~file'[run'[d].done]
          \/ /\ run'[d].done = run[d].done
             /\ \A i \in Periods : i > Done(d) => ~file'[i]
<1>1. /\ run \in [Deliveries -> RunType] /\ file \in [Periods -> BOOLEAN]
      /\ Done(d) \in 0..Total /\ Done(d) \in Nat /\ Periods \subseteq Nat
  BY TotalAssumption DEF TypeOK, RunType, Done, Periods
<1>2. run[d].step # "unsent" /\ request = "accepted"
  <2>1. run[d].step # "unsent"
    BY DEF RunStep, StartSession, TouchRuntime, CheckCancel, TimeOut, ExtractPeriod, TouchPeriod,
           RecordProgress, AnnounceProgress, CommitOutcome, AnnounceOutcome, CommitCancellation,
           AnnounceCancelled, CleanupTempFiles, At, AfterTouch
  <2> QED
    BY <2>1 DEF Handed
<1>3. UNCHANGED <<request, saved>>
  BY DEF RunStep, StartSession, TouchRuntime, CheckCancel, TimeOut, ExtractPeriod, TouchPeriod,
         RecordProgress, AnnounceProgress, CommitOutcome, AnnounceOutcome, CommitCancellation,
         AnnounceCancelled, CleanupTempFiles, requestVars
<1>4. ASSUME NEW step, step \notin {"unsent", "over"}, Goto(d, step), UNCHANGED file
      PROVE  Goal
  BY <1>1, <1>4 DEF Goto, RunType, Done
<1>5. ASSUME NEW failed, CountPeriod(d, failed), Done(d) < Total
      PROVE  Goal
  <2>1. /\ run'[d].step = "record" /\ run'[d].done = run[d].done + 1
        /\ \A e \in Deliveries : e # d => run'[e] = run[e]
    BY <1>1, <1>5 DEF CountPeriod
  <2>2. Done(d) + 1 \in Periods
    BY <1>1, <1>5, TotalAssumption DEF Periods
  <2>3. /\ ~file'[Done(d) + 1] /\ \A i \in Periods : file'[i] => file[i]
    BY <1>1, <1>5, <2>2 DEF CountPeriod
  <2> QED
    BY <1>1, <2>1, <2>3 DEF Done
<1> SUFFICES Goal
  BY <1>2, <1>3 DEF Goal
<1> HIDE DEF Goal
<1>6. CASE StartSession(d) \/ TimeOut(d) \/ RecordProgress(d) \/ CommitOutcome(d) \/ CommitCancellation(d)
  BY <1>4, <1>6 DEF StartSession, TimeOut, RecordProgress, CommitOutcome, CommitCancellation, Transaction
<1>7. CASE TouchRuntime(d)
  <2>1. PICK step \in {"checkStart", "emitProgress", "touchCollected", "commit", "cleanup"} : Goto(d, step)
    BY <1>7 DEF TouchRuntime, AfterTouch, Transaction
  <2> QED
    BY <1>4, <1>7, <2>1 DEF TouchRuntime
<1>8. CASE CheckCancel(d)
  BY <1>4, <1>8 DEF CheckCancel
<1>9. CASE ExtractPeriod(d) \/ TouchPeriod(d)
  <2>1. Done(d) < Total
    BY <1>9 DEF ExtractPeriod, TouchPeriod, At, TypeOK
  <2> QED
    BY <1>4, <1>5, <1>9, <2>1 DEF ExtractPeriod, TouchPeriod
<1>10. CASE AnnounceProgress(d) \/ AnnounceOutcome(d) \/ AnnounceCancelled(d)
  BY <1>4, <1>10 DEF AnnounceProgress, AnnounceOutcome, AnnounceCancelled, Broadcast
<1>11. CASE CleanupTempFiles(d)
  <2>1. /\ run'[d].step = "over" /\ run'[d].done = run[d].done
        /\ \A e \in Deliveries : e # d => run'[e] = run[e]
    BY <1>1, <1>11 DEF CleanupTempFiles, Goto, RunType
  <2>2. ASSUME NEW i \in Periods
        PROVE  (file'[i] => file[i]) /\ (i > Done(d) => ~file'[i])
    <3>1. file'[i] <=> file[i] /\ i <= Done(d)
      BY <1>11, Zenon DEF CleanupTempFiles
    <3>2. i \in Nat /\ Done(d) \in Nat
      BY <1>1
    <3>3. i > Done(d) => ~(i <= Done(d))
      BY <3>2
    <3> QED
      BY <3>1, <3>3, Zenon
  <2> QED
    BY <1>1, <2>1, <2>2 DEF Done, Goal
<1> QED
  BY <1>6, <1>7, <1>8, <1>9, <1>10, <1>11 DEF RunStep

LEMMA NextRemoved ==
    ASSUME TypeOK, Handed, FilesRemoved, [Next]_vars
    PROVE  FilesRemoved'
<1> USE DEF requestVars, jobVars, historyVars
<1>1. /\ run \in [Deliveries -> RunType] /\ Periods \subseteq Nat
      /\ \A i \in Periods : i > 0
      /\ \A d \in Deliveries : Done(d) \in Nat
  BY TotalAssumption DEF TypeOK, RunType, Done, Periods
<1>2. ASSUME UNCHANGED <<file, request, run>>
      PROVE  FilesRemoved'
  BY <1>2 DEF FilesRemoved, Done
<1>3. CASE RequestStep
  <2>1. request # "accepted"
    BY <1>3 DEF RequestStep, SaveDocument, CreateRecord, RejectRequest, Dispatch, DispatchFails,
       RecordDispatchFailure
  <2>2. \A d \in Deliveries : run[d].step = "unsent" /\ Done(d) = 0
    BY <2>1 DEF Handed
  <2>3. ASSUME UNCHANGED run, request' # "accepted", request' = "rejected" => \A i \in Periods : ~file'[i]
        PROVE  FilesRemoved'
    BY <2>2, <2>3 DEF FilesRemoved, Done
  <2>4. CASE SaveDocument \/ CreateRecord \/ DispatchFails
    BY <2>1, <2>3, <2>4 DEF SaveDocument, CreateRecord, DispatchFails
  <2>5. CASE RejectRequest \/ RecordDispatchFailure
    BY <2>3, <2>5 DEF RejectRequest, RecordDispatchFailure
  <2>6. ASSUME NEW d \in Deliveries, Dispatch(d)
        PROVE  FilesRemoved'
    <3>1. /\ run'[d].step = "queued" /\ request' = "accepted"
          /\ \A e \in Deliveries : run'[e].done = 0 /\ run'[e].step \in {"unsent", "queued"}
      BY <1>1, <2>2, <2>6 DEF Dispatch, RunType, Done
    <3> QED
      BY <1>1, <3>1 DEF FilesRemoved, Done
  <2> QED
    BY <1>3, <2>4, <2>5, <2>6 DEF RequestStep
<1>4. CASE RequestCancel \/ CancelStep
  BY <1>2, <1>4 DEF RequestCancel, CancelStep, RecordCancel, RevokeTask
<1>5. ASSUME UNCHANGED file, request' = request \/ (request # "accepted" /\ request' = "crashed"),
             \A d \in Deliveries :
                \/ run'[d] = run[d]
                \/ /\ run'[d].step \in {"queued", "start", "lost"} /\ run'[d].done = run[d].done
                   /\ run[d].step = "unsent" => Done(d) = 0
      PROVE  FilesRemoved'
  <2>1. \A d \in Deliveries : run[d].step # "unsent" => run'[d].step # "unsent"
    BY <1>5
  <2>2. ASSUME NEW d \in Deliveries, NEW i \in Periods
        PROVE  /\ i <= run'[d].done /\ run'[d].step # "unsent" => ~file'[i]
               /\ run'[d].step = "over" => ~file'[i]
    <3>1. CASE run'[d] = run[d]
      BY <1>5, <3>1 DEF FilesRemoved, Done
    <3>2. CASE run'[d] # run[d]
      <4>1. /\ run'[d].step # "over" /\ run'[d].done = Done(d)
            /\ run[d].step = "unsent" => Done(d) = 0
        BY <1>5, <3>2 DEF Done
      <4>2. i > 0 /\ i \in Nat
        BY <1>1
      <4>3. i <= Done(d) => ~file[i]
        BY <4>1, <4>2 DEF FilesRemoved
      <4> QED
        BY <1>5, <4>1, <4>3
    <3> QED
      BY <3>1, <3>2
  <2> QED
    BY <1>5, <2>1, <2>2 DEF FilesRemoved, Done
<1>6. ASSUME NEW d \in Deliveries,
             StartRun(d) \/ DiscardRevoked(d) \/ Redeliver(d) \/ WorkerCrash(d)
      PROVE  FilesRemoved'
  <2>1. /\ \A e \in Deliveries : e # d => run'[e] = run[e]
        /\ run'[d].step \in {"queued", "start", "lost"} /\ run'[d].done = run[d].done
        /\ UNCHANGED <<file, request>>
    BY <1>1, <1>6 DEF StartRun, DiscardRevoked, Redeliver, WorkerCrash, Goto, RunType
  <2>2. run[d].step = "unsent" => Done(d) = 0
    BY DEF Handed
  <2> QED
    BY <1>5, <2>1, <2>2
<1>7. ASSUME NEW d \in Deliveries, RunStep(d)
      PROVE  FilesRemoved'
  <2>1. /\ request' = "accepted"
        /\ \A e \in Deliveries : e # d => run'[e] = run[e]
        /\ run[d].step # "unsent" /\ run'[d].step # "unsent" /\ run'[d].done \in Nat
        /\ \A i \in Periods : file'[i] => file[i]
    BY <1>7, RunStepRemoves
  <2>2. ASSUME NEW i \in Periods
        PROVE  /\ i <= run'[d].done => ~file'[i]
               /\ run'[d].step = "over" => ~file'[i]
    <3>0. i \in Nat /\ Done(d) \in Nat /\ (i <= Done(d) => ~file[i])
      BY <1>1, <2>1 DEF FilesRemoved
    <3>1. CASE UNCHANGED file /\ run'[d].done = run[d].done /\ run'[d].step # "over"
      BY <3>0, <3>1 DEF Done
    <3>2. CASE run'[d].done = run[d].done + 1 /\ run'[d].step # "over" /\ ~file'[run'[d].done]
      <4>1. i <= run'[d].done => i <= Done(d) \/ i = run'[d].done
        BY <3>0, <3>2 DEF Done
      <4> QED
        BY <2>1, <3>0, <3>2, <4>1
    <3>3. CASE run'[d].done = run[d].done /\ \A j \in Periods : j > Done(d) => ~file'[j]
      <4>1. i <= Done(d) \/ i > Done(d)
        BY <3>0
      <4> QED
        BY <2>1, <3>0, <3>3, <4>1
    <3> QED
      BY <1>7, <3>1, <3>2, <3>3, RunStepRemoves
  <2>3. ASSUME NEW e \in Deliveries, e # d, NEW i \in Periods
        PROVE  /\ i <= run'[e].done /\ run'[e].step # "unsent" => ~file'[i]
               /\ run'[e].step = "over" => ~file'[i]
    BY <2>1, <2>3 DEF FilesRemoved, Done
  <2> QED
    BY <2>1, <2>2, <2>3 DEF FilesRemoved, Done
<1>8. CASE ApiCrash
  <2>1. \A d \in Deliveries :
           \/ run'[d] = run[d]
           \/ /\ run'[d].step = "lost" /\ run'[d].done = run[d].done
              /\ run[d].step # "unsent"
    BY <1>1, <1>8 DEF ApiCrash, At, RunType
  <2>2. /\ request' = request \/ (request # "accepted" /\ request' = "crashed")
        /\ UNCHANGED file
    BY <1>8 DEF ApiCrash
  <2> QED
    BY <1>5, <2>1, <2>2
<1>9. CASE HeartbeatExpires \/ RowAges \/ RecoveryStep \/ RecoveryAborts \/ CleanerFind \/ CleanerDelete
  BY <1>2, <1>9 DEF HeartbeatExpires, RowAges, RecoveryStep, RecoveryFind, RecoverySelect,
     RecoveryCommit, RecoveryAnnounce, RecoveryAborts, CleanerFind, CleanerDelete
<1>10. CASE UNCHANGED vars
  BY <1>2, <1>10 DEF vars
<1> QED
  BY <1>3, <1>4, <1>6, <1>7, <1>8, <1>9, <1>10 DEF Next

LEMMA AlwaysRemoved == Spec => [](TypeOK /\ Handed /\ FilesRemoved)
<1>1. Init => FilesRemoved
  BY DEF Init, FilesRemoved, Unsent
<1>2. TypeOK /\ Handed /\ FilesRemoved /\ [Next]_vars => FilesRemoved'
  BY NextRemoved
<1> QED
  BY <1>1, <1>2, AlwaysHanded, PTL DEF Spec

LEMMA RemovedLeaves == FilesRemoved => NoFileIsLeft
  BY DEF FilesRemoved, NoFileIsLeft

\* However often the message is delivered, whatever fails and whichever jobs run:
\* when the request and all runs have ended of themselves, none of the uploaded
\* documents is left (the finally clauses of the upload and of
\* process_multi_analysis).
THEOREM NoFileLeft == Spec => []NoFileIsLeft
  BY AlwaysRemoved, RemovedLeaves, PTL

-----------------------------------------------------------------------------
(* One delivery: the documents a run still has to read *)

\* The inductive invariant behind the rest of FilesLiveWithRun: the files saved
\* belong to the request until it hands them over, and then those of the periods not
\* reached belong to the run.
FilesFollow ==
    /\ request = "saving" => \A i \in Periods : file[i] <=> i <= saved
    /\ request \in {"created", "failing"} => \A i \in Periods : file[i]
    /\ \A d \in Deliveries : \A i \in Periods :
          i > Done(d) /\ run[d].step \in Waiting \cup Working => file[i]

LEMMA RunStepFiles ==
    ASSUME OneDelivery, TypeOK, Handed, FilesFollow, NEW d \in Deliveries, RunStep(d)
    PROVE  FilesFollow'
<1>1. /\ run \in [Deliveries -> RunType] /\ file \in [Periods -> BOOLEAN]
      /\ Done(d) \in 0..Total /\ Periods \subseteq Nat
      /\ \A e \in Deliveries : e = d
  BY TotalAssumption DEF TypeOK, RunType, Done, Periods, OneDelivery
<1>2. run[d].step # "unsent" /\ request = "accepted"
  <2>1. run[d].step # "unsent"
    BY DEF RunStep, StartSession, TouchRuntime, CheckCancel, TimeOut, ExtractPeriod, TouchPeriod,
           RecordProgress, AnnounceProgress, CommitOutcome, AnnounceOutcome, CommitCancellation,
           AnnounceCancelled, CleanupTempFiles, At, AfterTouch
  <2> QED
    BY <2>1 DEF Handed
<1>3. UNCHANGED <<request, saved>>
  BY DEF RunStep, StartSession, TouchRuntime, CheckCancel, TimeOut, ExtractPeriod, TouchPeriod,
         RecordProgress, AnnounceProgress, CommitOutcome, AnnounceOutcome, CommitCancellation,
         AnnounceCancelled, CleanupTempFiles, requestVars
<1>4. ASSUME NEW step \in Working \cup {"cleanup"}, Goto(d, step), UNCHANGED file,
             run[d].step \in Waiting \cup Working
      PROVE  FilesFollow'
  <2>1. run'[d].step = step /\ run'[d].done = run[d].done
    BY <1>1, <1>4 DEF Goto, RunType
  <2>2. step \notin {"unsent", "over"}
    BY DEF Working, Deciding, Announcing
  <2> QED
    BY <1>1, <1>2, <1>3, <1>4, <2>1, <2>2 DEF FilesFollow, Done
<1>5. ASSUME NEW failed, CountPeriod(d, failed), run[d].step \in Working, Done(d) < Total
      PROVE  FilesFollow'
  <2>1. run'[d].step = "record" /\ run'[d].done = run[d].done + 1
    BY <1>1, <1>5 DEF CountPeriod
  <2>2. \A i \in Periods : i # Done(d) + 1 => file'[i] = file[i]
    BY <1>1, <1>5 DEF CountPeriod
  <2>3. ASSUME NEW i \in Periods, i > run'[d].done
        PROVE  file'[i]
    <3>1. i \in Nat /\ i > Done(d) /\ i # Done(d) + 1
      BY <1>1, <2>1, <2>3 DEF Done
    <3> QED
      BY <1>5, <2>2, <3>1 DEF FilesFollow
  <2> QED
    BY <1>1, <1>2, <1>3, <2>1, <2>3 DEF FilesFollow, Done, Waiting, Working, Deciding
<1> USE DEF Working, Deciding, Announcing, Waiting
<1>6. CASE StartSession(d) \/ TimeOut(d) \/ RecordProgress(d) \/ CommitOutcome(d) \/ CommitCancellation(d)
  BY <1>4, <1>6 DEF StartSession, TimeOut, RecordProgress, CommitOutcome, CommitCancellation,
     Transaction, At
<1>7. CASE TouchRuntime(d)
  <2>1. PICK step \in {"checkStart", "emitProgress", "touchCollected", "commit", "cleanup"} : Goto(d, step)
    BY <1>7 DEF TouchRuntime, AfterTouch, Transaction
  <2> QED
    BY <1>4, <1>7, <2>1 DEF TouchRuntime, AfterTouch
<1>8. CASE CheckCancel(d)
  BY <1>4, <1>8 DEF CheckCancel, At
<1>9. CASE ExtractPeriod(d) \/ TouchPeriod(d)
  <2>1. Done(d) < Total /\ run[d].step \in Working
    BY <1>9 DEF ExtractPeriod, TouchPeriod, At, TypeOK
  <2> QED
    BY <1>4, <1>5, <1>9, <2>1 DEF ExtractPeriod, TouchPeriod
<1>10. CASE AnnounceProgress(d) \/ AnnounceOutcome(d) \/ AnnounceCancelled(d)
  BY <1>4, <1>10 DEF AnnounceProgress, AnnounceOutcome, AnnounceCancelled, Broadcast, At
<1>11. CASE CleanupTempFiles(d)
  <2>1. run'[d].step = "over"
    BY <1>1, <1>11 DEF CleanupTempFiles, Goto, RunType
  <2> QED
    BY <1>1, <1>2, <1>3, <2>1 DEF FilesFollow
<1> QED
  BY <1>6, <1>7, <1>8, <1>9, <1>10, <1>11 DEF RunStep

LEMMA NextFiles ==
    ASSUME OneDelivery, TypeOK, Handed, FilesFollow, [Next]_vars
    PROVE  FilesFollow'
<1> USE DEF requestVars, jobVars, historyVars
<1>1. /\ run \in [Deliveries -> RunType] /\ file \in [Periods -> BOOLEAN]
      /\ saved \in 0..Total /\ Periods \subseteq Nat /\ \A i \in Periods : i <= Total
      /\ \A d \in Deliveries : Done(d) \in 0..Total
  BY TotalAssumption DEF TypeOK, RunType, Done, Periods
<1>2. ASSUME UNCHANGED <<file, request, saved, run>>
      PROVE  FilesFollow'
  BY <1>2 DEF FilesFollow, Done
<1>3. CASE RequestStep
  <2>1. ASSUME request # "accepted"
        PROVE  \A d \in Deliveries : run[d].step = "unsent" /\ Done(d) = 0
    BY <2>1 DEF Handed
  <2>2. request # "accepted"
    BY <1>3 DEF RequestStep, SaveDocument, CreateRecord, RejectRequest, Dispatch, DispatchFails,
       RecordDispatchFailure
  <2>3. \A d \in Deliveries : run[d].step = "unsent" /\ Done(d) = 0
    BY <2>1, <2>2
  <2>4. ASSUME UNCHANGED run, request' # "accepted",
               request' = "saving" => \A i \in Periods : file'[i] <=> i <= saved',
               request' \in {"created", "failing"} => \A i \in Periods : file'[i]
        PROVE  FilesFollow'
    BY <2>3, <2>4 DEF FilesFollow, Done, Waiting, Working, Deciding, Announcing
  <2>5. CASE SaveDocument
    <3>1. \A i \in Periods : file'[i] <=> i <= saved'
      <4> SUFFICES ASSUME NEW i \in Periods PROVE file'[i] <=> i <= saved'
        OBVIOUS
      <4>1. file[i] <=> i <= saved
        BY <2>5 DEF SaveDocument, FilesFollow
      <4>2. CASE i = saved + 1
        BY <1>1, <2>5, <4>2 DEF SaveDocument
      <4>3. CASE i # saved + 1
        BY <1>1, <2>5, <4>1, <4>3 DEF SaveDocument
      <4> QED
        BY <4>2, <4>3
    <3> QED
      BY <2>4, <2>5, <3>1 DEF SaveDocument
  <2>6. CASE CreateRecord
    BY <1>1, <2>4, <2>6 DEF CreateRecord, FilesFollow
  <2>7. CASE RejectRequest \/ RecordDispatchFailure
    BY <2>4, <2>7 DEF RejectRequest, RecordDispatchFailure
  <2>8. CASE DispatchFails
    BY <2>4, <2>8 DEF DispatchFails, FilesFollow
  <2>9. ASSUME NEW d \in Deliveries, Dispatch(d)
        PROVE  FilesFollow'
    <3>1. run'[d].step = "queued" /\ run'[d].done = 0 /\ request' = "accepted" /\ file' = file
      BY <1>1, <2>3, <2>9 DEF Dispatch, RunType, Done
    <3>2. \A i \in Periods : file[i] /\ i > 0
      BY <2>9 DEF Dispatch, FilesFollow, Periods
    <3>3. \A e \in Deliveries : e = d
      BY DEF OneDelivery
    <3> QED
      BY <1>1, <3>1, <3>2, <3>3 DEF FilesFollow, Done
  <2> QED
    BY <1>3, <2>5, <2>6, <2>7, <2>8, <2>9 DEF RequestStep
<1>4. CASE RequestCancel \/ CancelStep
  BY <1>2, <1>4 DEF RequestCancel, CancelStep, RecordCancel, RevokeTask
<1>5. ASSUME NEW d \in Deliveries,
             StartRun(d) \/ DiscardRevoked(d) \/ Redeliver(d) \/ WorkerCrash(d)
      PROVE  FilesFollow'
  <2>1. \A e \in Deliveries : e = d
    BY DEF OneDelivery
  <2>2. ~Redeliver(d)
    BY <2>1 DEF Redeliver, At
  <2>3. /\ run'[d].step = "lost" \/ (run[d].step = "queued" /\ run'[d].step = "start")
        /\ run'[d].done = run[d].done /\ run[d].step # "unsent"
        /\ UNCHANGED <<file, request, saved>>
    BY <1>1, <1>5, <2>2 DEF StartRun, DiscardRevoked, WorkerCrash, Goto, At, RunType
  <2> QED
    BY <2>1, <2>3 DEF FilesFollow, Done, Waiting, Working, Deciding, Announcing
<1>6. CASE ApiCrash
  <2>1. \A d \in Deliveries :
           /\ \/ run'[d] = run[d]
              \/ run[d].step # "unsent" /\ run'[d].step = "lost"
           /\ run'[d].done = run[d].done
    BY <1>1, <1>6 DEF ApiCrash, At, RunType
  <2>2. /\ request' = request \/ (request # "accepted" /\ request' = "crashed")
        /\ UNCHANGED <<file, saved>>
    BY <1>6 DEF ApiCrash
  <2> QED
    BY <2>1, <2>2 DEF FilesFollow, Done, Waiting, Working, Deciding, Announcing
<1>7. CASE HeartbeatExpires \/ RowAges \/ RecoveryStep \/ RecoveryAborts \/ CleanerFind \/ CleanerDelete
  BY <1>2, <1>7 DEF HeartbeatExpires, RowAges, RecoveryStep, RecoveryFind, RecoverySelect,
     RecoveryCommit, RecoveryAnnounce, RecoveryAborts, CleanerFind, CleanerDelete
<1>8. CASE UNCHANGED vars
  BY <1>2, <1>8 DEF vars
<1> QED
  BY <1>3, <1>4, <1>5, <1>6, <1>7, <1>8, RunStepFiles DEF Next

\* Whatever fails or crashes and whichever jobs run, the run of the one delivery
\* finds the document it extracts, and request and run leave no file behind.
THEOREM FilesAccountedFor == ASSUME OneDelivery PROVE Spec => []FilesLiveWithRun
<1>1. Init => FilesFollow
  BY TotalAssumption DEF Init, FilesFollow, Unsent, Done, Periods, Waiting, Working, Deciding, Announcing
<1>2. TypeOK /\ Handed /\ FilesFollow /\ [Next]_vars => FilesFollow'
  BY NextFiles
<1>3. TypeOK /\ FilesFollow /\ NoFileIsLeft => FilesLiveWithRun
  <2> SUFFICES ASSUME TypeOK, FilesFollow, NoFileIsLeft PROVE FilesLiveWithRun
    OBVIOUS
  <2>1. ASSUME NEW d \in Deliveries, At(d, "extract")
        PROVE  file[Done(d) + 1]
    <3>1. Done(d) \in 0..Total /\ Done(d) < Total
      BY <2>1 DEF TypeOK, RunType, Done, At
    <3>2. Done(d) + 1 \in Periods /\ Done(d) + 1 > Done(d)
      BY <3>1, TotalAssumption DEF Periods
    <3> QED
      BY <2>1, <3>2 DEF FilesFollow, At, Working, Deciding
  <2> QED
    BY <2>1 DEF FilesLiveWithRun
<1> QED
  BY <1>1, <1>2, <1>3, AlwaysHanded, NoFileLeft, PTL DEF Spec

-----------------------------------------------------------------------------
(* One delivery: what the row reports *)

\* Two rows that a client cannot tell apart by status, progress and periods.
SameReport(q, r) ==
    q.status = r.status /\ q.completed = r.completed /\ q.good = r.good /\ q.bad = r.bad

\* What each function of crud.py does to the report of a row.
LEMMA RowReports ==
    ASSUME NEW r \in SessionType
    PROVE  /\ SameReport(TouchSession(r), r) /\ SameReport(RequestSessionCancel(r), r)
           /\ TouchSession(r).cancelRequested = r.cancelRequested
           /\ RequestSessionCancel(r).cancelRequested = (r.cancelRequested \/ InProgress(r))
           /\ \A s, n : LET new == UpdateSession(r, s, n, {}, {})
                        IN  IF Exists(r)
                            THEN /\ new.status = s /\ new.completed = n
                                 /\ new.good = r.good /\ new.bad = r.bad
                                 /\ new.cancelRequested = r.cancelRequested
                            ELSE new = r
           /\ \A s, n : \A good, bad \in SUBSET Periods :
                 LET new == UpdateSession(r, s, n, good, bad)
                 IN  Exists(r) =>
                        /\ new.status = s /\ new.completed = n
                        /\ good \cup bad # {} => new.good = good /\ new.bad = bad
                        /\ new.cancelRequested = r.cancelRequested
           /\ \A n : \A good, bad \in SUBSET Periods :
                 LET new == MarkSessionCancelled(r, n, good, bad)
                 IN  Exists(r) =>
                        /\ new.status = "cancelled" /\ new.completed = n
                        /\ IF good \cup bad = {} THEN new.good = r.good /\ new.bad = r.bad
                           ELSE new.good = good /\ new.bad = bad
                        /\ new.cancelRequested
           /\ \A loaded : LET new == MarkStaleSessionFailed(r, loaded)
                          IN  /\ new.status = "failed" /\ new.completed = r.completed
                              /\ new.good = loaded.good /\ new.bad = loaded.bad
<1> USE DEF SessionType, Stamped, Beating, MergePeriods
<1>1. SameReport(TouchSession(r), r) /\ TouchSession(r).cancelRequested = r.cancelRequested
  BY DEF SameReport, TouchSession
<1>2. /\ SameReport(RequestSessionCancel(r), r)
      /\ RequestSessionCancel(r).cancelRequested = (r.cancelRequested \/ InProgress(r))
  BY DEF SameReport, RequestSessionCancel
<1>3. ASSUME NEW s, NEW n, NEW good \in SUBSET Periods, NEW bad \in SUBSET Periods, Exists(r)
      PROVE  LET new == UpdateSession(r, s, n, good, bad)
             IN  /\ new.status = s /\ new.completed = n
                 /\ new.cancelRequested = r.cancelRequested
                 /\ IF good \cup bad = {} THEN new.good = r.good /\ new.bad = r.bad
                    ELSE new.good = good /\ new.bad = bad
  BY <1>3 DEF UpdateSession
<1>4. ASSUME NEW s, NEW n
      PROVE  LET new == UpdateSession(r, s, n, {}, {})
             IN  IF Exists(r)
                 THEN /\ new.status = s /\ new.completed = n
                      /\ new.good = r.good /\ new.bad = r.bad
                      /\ new.cancelRequested = r.cancelRequested
                 ELSE new = r
  BY DEF UpdateSession
<1>5. ASSUME NEW n, NEW good \in SUBSET Periods, NEW bad \in SUBSET Periods, Exists(r)
      PROVE  LET new == MarkSessionCancelled(r, n, good, bad)
             IN  /\ new.status = "cancelled" /\ new.completed = n
                 /\ IF good \cup bad = {} THEN new.good = r.good /\ new.bad = r.bad
                    ELSE new.good = good /\ new.bad = bad
                 /\ new.cancelRequested
  BY <1>5 DEF MarkSessionCancelled
<1>6. ASSUME NEW loaded
      PROVE  LET new == MarkStaleSessionFailed(r, loaded)
             IN  /\ new.status = "failed" /\ new.completed = r.completed
                 /\ new.good = loaded.good /\ new.bad = loaded.bad
  BY DEF MarkStaleSessionFailed
<1>7. ASSUME NEW s, NEW n, NEW good \in SUBSET Periods, NEW bad \in SUBSET Periods
      PROVE  LET new == UpdateSession(r, s, n, good, bad)
             IN  Exists(r) =>
                    /\ new.status = s /\ new.completed = n
                    /\ good \cup bad # {} => new.good = good /\ new.bad = bad
                    /\ new.cancelRequested = r.cancelRequested
  BY <1>3
<1> HIDE DEF SessionType, Stamped, Beating, MergePeriods
<1> QED
  BY <1>1, <1>2, <1>4, <1>5, <1>6, <1>7, Zenon

\* Nobody has written an outcome that lists periods.
Undecided ==
    request # "accepted" \/ \E d \in Deliveries : run[d].step \in Waiting \cup Deciding

\* The inductive invariant behind OutcomeFitsPeriods: until the run writes its
\* outcome the row lists no period, whatever the recovery job writes meanwhile, so
\* the periods an outcome lists are those its run has done.
ListsFollow ==
    /\ OutcomeFitsPeriods
    /\ row.status \in {"absent", "processing"} => Listed(row) = {}
    /\ recovery.good = {} /\ recovery.bad = {}
    /\ Undecided => Listed(row) = {} /\ row.status \in {"absent", "processing", "failed"}

LEMMA ReportKept ==
    ASSUME ListsFollow, SameReport(row', row), Undecided' => Undecided,
           recovery'.good = {} /\ recovery'.bad = {}
    PROVE  ListsFollow'
  BY DEF ListsFollow, SameReport, OutcomeFitsPeriods, Listed

LEMMA NothingListed ==
    ASSUME row'.good = {}, row'.bad = {}, row'.status \in {"absent", "processing", "failed"},
           recovery'.good = {} /\ recovery'.bad = {}
    PROVE  ListsFollow'
  BY DEF ListsFollow, OutcomeFitsPeriods, Listed

LEMMA RunStepLists ==
    ASSUME OneDelivery, TypeOK, Handed, ListsFollow, NEW d \in Deliveries, RunStep(d)
    PROVE  ListsFollow'
<1>1. /\ run \in [Deliveries -> RunType] /\ row \in SessionType
      /\ \A e \in Deliveries : e = d
      /\ Done(d) \in 0..Total /\ Bad(d) \subseteq 1..Done(d) /\ Good(d) \subseteq 1..Done(d)
      /\ Good(d) \in SUBSET Periods /\ Bad(d) \in SUBSET Periods
  <2>1. /\ run \in [Deliveries -> RunType] /\ row \in SessionType
        /\ \A e \in Deliveries : e = d
        /\ Done(d) \in 0..Total /\ Bad(d) \subseteq 1..Done(d) /\ Good(d) \subseteq 1..Done(d)
    BY DEF TypeOK, RunType, Done, Bad, Good, OneDelivery
  <2>2. 1..Done(d) \subseteq Periods
    BY <2>1, TotalAssumption DEF Periods
  <2> QED
    BY <2>1, <2>2
<1>2. /\ UNCHANGED <<request, recovery>> /\ recovery.good = {} /\ recovery.bad = {}
  BY DEF RunStep, StartSession, TouchRuntime, CheckCancel, TimeOut, ExtractPeriod, TouchPeriod,
         RecordProgress, AnnounceProgress, CommitOutcome, AnnounceOutcome, CommitCancellation,
         AnnounceCancelled, CleanupTempFiles, requestVars, jobVars, ListsFollow
<1>3. request = "accepted"
  <2>1. run[d].step # "unsent"
    BY DEF RunStep, StartSession, TouchRuntime, CheckCancel, TimeOut, ExtractPeriod, TouchPeriod,
           RecordProgress, AnnounceProgress, CommitOutcome, AnnounceOutcome, CommitCancellation,
           AnnounceCancelled, CleanupTempFiles, At, AfterTouch
  <2> QED
    BY <2>1 DEF Handed
<1>4. Undecided <=> run[d].step \in Waiting \cup Deciding
  BY <1>1, <1>3 DEF Undecided
<1>5. Undecided => row.good = {} /\ row.bad = {} /\ row.status \in {"absent", "processing", "failed"}
  BY DEF ListsFollow, Listed
<1>6. SameReport(row, row) /\ SameReport(TouchSession(row), row)
  BY <1>1, RowReports DEF SameReport
<1>7. ASSUME Undecided, SameReport(row', row)
      PROVE  ListsFollow'
  BY <1>2, <1>7, ReportKept
<1>8. ASSUME NEW s \in {"processing", "failed", row.status}, NEW n, Undecided,
             row' = row \/ row' = UpdateSession(row, s, n, {}, {})
      PROVE  ListsFollow'
  BY <1>1, <1>2, <1>5, <1>8, RowReports, NothingListed
<1> USE DEF Waiting, Deciding
<1>9. CASE StartSession(d) \/ TimeOut(d) \/ RecordProgress(d)
  BY <1>4, <1>8, <1>9 DEF StartSession, TimeOut, RecordProgress, Transaction, Raises, At
<1>10. CASE TouchRuntime(d)
  <2>1. Undecided
    BY <1>4, <1>10 DEF TouchRuntime, AfterTouch
  <2> QED
    BY <1>6, <1>7, <1>10, <2>1 DEF TouchRuntime, Transaction, Raises
<1>11. CASE CheckCancel(d) \/ ExtractPeriod(d) \/ TouchPeriod(d) \/ AnnounceProgress(d)
  BY <1>4, <1>6, <1>7, <1>11 DEF CheckCancel, ExtractPeriod, TouchPeriod, AnnounceProgress, Raises, At
<1>12. ASSUME NEW step \in {"emitOutcome", "emitCancelled", "cleanup"}, Goto(d, step)
       PROVE  ~Undecided'
  <2>1. run'[d].step = step
    BY <1>1, <1>12 DEF Goto, RunType
  <2> QED
    BY <1>1, <1>2, <1>3, <2>1 DEF Undecided
<1>13. CASE CommitOutcome(d)
  <2>1. Undecided /\ ~Undecided'
    BY <1>4, <1>12, <1>13 DEF CommitOutcome, Transaction, At
  <2>2. CASE row' = row
    BY <1>6, <1>7, <2>1, <2>2
  <2>3. CASE ~Exists(row) /\ row' # row
    BY <1>13, <2>3 DEF CommitOutcome, Transaction, Raises, UpdateSession
  <2>4. CASE Exists(row) /\ row' = UpdateSession(row, Outcome(d), Total, Good(d), Bad(d))
    <3>1. Done(d) = Total
      BY <1>13 DEF CommitOutcome, At, Handed
    <3>2. Good(d) \cup Bad(d) = Periods /\ Good(d) \cap Bad(d) = {} /\ Periods # {}
      BY <1>1, <3>1, TotalAssumption DEF Good, Periods
    <3>3. /\ row'.status = Outcome(d) /\ row'.completed = Total
          /\ row'.good = Good(d) /\ row'.bad = Bad(d)
      BY <1>1, <2>4, <3>2, RowReports
    <3>4. OutcomeFitsPeriods'
      BY <3>2, <3>3 DEF OutcomeFitsPeriods, Outcome, Listed
    <3> QED
      BY <1>2, <2>1, <3>3, <3>4 DEF ListsFollow, Outcome
  <2> QED
    BY <1>13, <2>2, <2>3, <2>4 DEF CommitOutcome, Transaction, Raises
<1>14. CASE CommitCancellation(d)
  <2>1. Undecided /\ ~Undecided'
    BY <1>4, <1>12, <1>14 DEF CommitCancellation, Transaction, At
  <2>2. CASE row' = row
    BY <1>6, <1>7, <2>1, <2>2
  <2>3. CASE ~Exists(row) /\ row' # row
    BY <1>14, <2>3 DEF CommitCancellation, Transaction, Raises, MarkSessionCancelled
  <2>4. CASE Exists(row) /\ row' = MarkSessionCancelled(row, Done(d), Good(d), Bad(d))
    <3>1. Good(d) \cup Bad(d) = 1..Done(d) /\ Good(d) \cap Bad(d) = {}
      BY <1>1 DEF Good
    <3>2. /\ row'.status = "cancelled" /\ row'.completed = Done(d)
          /\ IF Good(d) \cup Bad(d) = {} THEN row'.good = {} /\ row'.bad = {}
             ELSE row'.good = Good(d) /\ row'.bad = Bad(d)
      BY <1>1, <1>5, <2>1, <2>4, RowReports
    <3>3. row'.good \cup row'.bad = 1..row'.completed /\ row'.good \cap row'.bad = {}
      BY <3>1, <3>2
    <3> QED
      BY <1>2, <2>1, <3>2, <3>3 DEF ListsFollow, OutcomeFitsPeriods, Listed
  <2> QED
    BY <1>14, <2>2, <2>3, <2>4 DEF CommitCancellation, Transaction, Raises
<1>15. CASE AnnounceOutcome(d) \/ AnnounceCancelled(d) \/ CleanupTempFiles(d)
  <2>1. run'[d].step \in {"cleanup", "over"} /\ UNCHANGED row
    BY <1>1, <1>15 DEF AnnounceOutcome, AnnounceCancelled, CleanupTempFiles, Broadcast, Goto, RunType
  <2>2. ~Undecided'
    BY <1>1, <1>2, <1>3, <2>1 DEF Undecided
  <2> QED
    BY <1>2, <1>6, <2>1, <2>2, ReportKept
<1> QED
  BY <1>9, <1>10, <1>11, <1>13, <1>14, <1>15 DEF RunStep

LEMMA NextLists ==
    ASSUME OneDelivery, TypeOK, Handed, ListsFollow, [Next]_vars
    PROVE  ListsFollow'
<1> USE DEF requestVars, jobVars, historyVars
<1>1. /\ run \in [Deliveries -> RunType] /\ row \in SessionType
      /\ recovery.good = {} /\ recovery.bad = {}
      /\ SameReport(row, row)
  BY DEF TypeOK, ListsFollow, SameReport
<1>2. /\ IdleRecovery.good = {} /\ IdleRecovery.bad = {}
      /\ NoSession.good = {} /\ NoSession.bad = {} /\ NoSession.status = "absent"
      /\ CreateSession.good = {} /\ CreateSession.bad = {} /\ CreateSession.status = "processing"
  BY DEF IdleRecovery, NoSession, CreateSession
<1>3. Undecided => row.good = {} /\ row.bad = {} /\ row.status \in {"absent", "processing", "failed"}
  BY DEF ListsFollow, Listed
<1>4. ASSUME SameReport(row', row), UNCHANGED <<request, run, recovery>>
      PROVE  ListsFollow'
  BY <1>1, <1>4, ReportKept DEF Undecided
<1>5. CASE RequestStep
  <2>1. request # "accepted" /\ UNCHANGED recovery
    BY <1>5 DEF RequestStep, SaveDocument, CreateRecord, RejectRequest, Dispatch, DispatchFails,
       RecordDispatchFailure
  <2>2. Undecided
    BY <2>1 DEF Undecided
  <2>3. row' \in {row, CreateSession, UpdateSession(row, "failed", 0, {}, {})}
    BY <1>5 DEF RequestStep, SaveDocument, CreateRecord, RejectRequest, Dispatch, DispatchFails,
       RecordDispatchFailure, Raises
  <2>4. row'.good = {} /\ row'.bad = {} /\ row'.status \in {"absent", "processing", "failed"}
    BY <1>1, <1>2, <1>3, <2>2, <2>3, RowReports
  <2> QED
    BY <1>1, <2>1, <2>4, NothingListed
<1>6. CASE RequestCancel \/ CancelStep
  <2>1. SameReport(row', row)
    BY <1>1, <1>6, RowReports DEF RequestCancel, CancelStep, RecordCancel, RevokeTask, Raises
  <2> QED
    BY <1>4, <1>6, <2>1 DEF RequestCancel, CancelStep, RecordCancel, RevokeTask
<1>7. ASSUME NEW d \in Deliveries,
             StartRun(d) \/ DiscardRevoked(d) \/ Redeliver(d) \/ WorkerCrash(d)
      PROVE  ListsFollow'
  <2>1. \A e \in Deliveries : e = d
    BY DEF OneDelivery
  <2>2. ~Redeliver(d)
    BY <2>1 DEF Redeliver, At
  <2>3. /\ run'[d].step = "lost" \/ (run[d].step = "queued" /\ run'[d].step = "start")
        /\ UNCHANGED <<row, request, recovery>>
    BY <1>1, <1>7, <2>2 DEF StartRun, DiscardRevoked, WorkerCrash, Goto, At, RunType
  <2>4. Undecided' => Undecided
    BY <2>1, <2>3 DEF Undecided, Waiting, Deciding
  <2> QED
    BY <1>1, <2>3, <2>4, ReportKept DEF SameReport
<1>8. CASE ApiCrash
  <2>1. \A d \in Deliveries : run'[d] = run[d] \/ run'[d].step = "lost"
    BY <1>1, <1>8 DEF ApiCrash, RunType
  <2>2. /\ request' = request \/ request # "accepted"
        /\ UNCHANGED <<row, recovery>>
    BY <1>8 DEF ApiCrash
  <2>3. Undecided' => Undecided
    BY <2>1, <2>2 DEF Undecided, Waiting, Deciding
  <2> QED
    BY <1>1, <2>2, <2>3, ReportKept DEF SameReport
<1>9. CASE HeartbeatExpires \/ RowAges
  <2>1. SameReport(row', row)
    BY <1>1, <1>9 DEF HeartbeatExpires, RowAges, SameReport, SessionType
  <2> QED
    BY <1>4, <1>9, <2>1 DEF HeartbeatExpires, RowAges
<1>10. CASE RecoveryStep \/ RecoveryAborts
  <2>1. UNCHANGED <<request, run>>
    BY <1>10 DEF RecoveryStep, RecoveryFind, RecoverySelect, RecoveryCommit, RecoveryAnnounce,
       RecoveryAborts
  <2>2. recovery'.good = {} /\ recovery'.bad = {}
    <3>1. CASE RecoverySelect
      <4>1. InProgress(row) => row.good = {} /\ row.bad = {}
        BY DEF InProgress, ListsFollow, Listed
      <4> QED
        BY <1>2, <3>1, <4>1 DEF RecoverySelect, IsSessionStale
    <3> QED
      BY <1>1, <1>2, <1>10, <3>1 DEF RecoveryStep, RecoveryFind, RecoveryCommit, RecoveryAnnounce,
         RecoveryAborts, IdleRecovery
  <2>3. CASE UNCHANGED row
    BY <1>1, <2>1, <2>2, <2>3, ReportKept DEF SameReport, Undecided
  <2>4. CASE row' = MarkStaleSessionFailed(row, recovery)
    <3>1. row'.status = "failed" /\ row'.good = {} /\ row'.bad = {}
      BY <1>1, <2>4, RowReports
    <3> QED
      BY <2>2, <3>1, NothingListed
  <2> QED
    BY <1>10, <2>3, <2>4 DEF RecoveryStep, RecoveryFind, RecoverySelect, RecoveryCommit,
       RecoveryAnnounce, RecoveryAborts
<1>11. CASE CleanerFind \/ CleanerDelete
  <2>1. UNCHANGED <<request, run, recovery>> /\ (row' = row \/ row' = NoSession)
    BY <1>11 DEF CleanerFind, CleanerDelete
  <2>2. CASE row' = NoSession
    BY <1>1, <1>2, <2>1, <2>2, NothingListed
  <2> QED
    BY <1>1, <1>4, <2>1, <2>2
<1>12. CASE UNCHANGED vars
  BY <1>1, <1>4, <1>12 DEF vars
<1> QED
  BY <1>5, <1>6, <1>7, <1>8, <1>9, <1>10, <1>11, <1>12, RunStepLists DEF Next

\* Whatever fails and whichever jobs run: a completed session lists every period, a
\* cancelled one those its progress counts, a failed one no figures, if its message
\* is delivered once (process_multi_analysis, mark_stale_multi_sessions_failed).
THEOREM ReportsFit == ASSUME OneDelivery PROVE Spec => []OutcomeFitsPeriods
<1>1. Init => ListsFollow
  BY DEF Init, ListsFollow, OutcomeFitsPeriods, Listed, NoSession, IdleRecovery
<1>2. TypeOK /\ Handed /\ ListsFollow /\ [Next]_vars => ListsFollow'
  BY NextLists
<1>3. ListsFollow => OutcomeFitsPeriods
  BY DEF ListsFollow
<1> QED
  BY <1>1, <1>2, <1>3, AlwaysHanded, PTL DEF Spec

-----------------------------------------------------------------------------
(* One delivery, no cleanup job: the progress stored *)

\* The count in the row is that of the periods the run has done, but for the one
\* it has not recorded yet.
Stored(d) == row.completed = IF At(d, "record") THEN Done(d) - 1 ELSE Done(d)

\* The inductive invariant behind ProgressIsHonest.  A row that is gone stores
\* nothing, hence the cleanup job must not run.
ProgressFollows ==
    /\ cleaner = "idle"
    /\ request \in {"created", "failing", "accepted"} => Exists(row)
    /\ \A d \in Deliveries : run[d].step \in Working => Stored(d)

LEMMA RunStepProgress ==
    ASSUME OneDelivery, TypeOK, Handed, ProgressFollows, NEW d \in Deliveries, RunStep(d)
    PROVE  ProgressFollows'
<1>1. /\ run \in [Deliveries -> RunType] /\ row \in SessionType
      /\ \A e \in Deliveries : e = d
      /\ Done(d) \in 0..Total /\ Good(d) \in SUBSET Periods /\ Bad(d) \in SUBSET Periods
  <2>1. /\ run \in [Deliveries -> RunType] /\ row \in SessionType
        /\ \A e \in Deliveries : e = d
        /\ Done(d) \in 0..Total /\ Bad(d) \in SUBSET Periods
    BY DEF TypeOK, RunType, Done, Bad, OneDelivery
  <2>2. Good(d) \in SUBSET Periods
    BY <2>1, TotalAssumption DEF Good, Periods
  <2> QED
    BY <2>1, <2>2
<1>2. request = "accepted" /\ Exists(row)
  <2>1. run[d].step # "unsent"
    BY DEF RunStep, StartSession, TouchRuntime, CheckCancel, TimeOut, ExtractPeriod, TouchPeriod,
           RecordProgress, AnnounceProgress, CommitOutcome, AnnounceOutcome, CommitCancellation,
           AnnounceCancelled, CleanupTempFiles, At, AfterTouch
  <2> QED
    BY <2>1 DEF Handed, ProgressFollows
<1>3. UNCHANGED <<request, cleaner>>
  BY DEF RunStep, StartSession, TouchRuntime, CheckCancel, TimeOut, ExtractPeriod, TouchPeriod,
         RecordProgress, AnnounceProgress, CommitOutcome, AnnounceOutcome, CommitCancellation,
         AnnounceCancelled, CleanupTempFiles, requestVars, jobVars
<1>4. ASSUME Exists(row'), run'[d].step \in Working => Stored(d)'
      PROVE  ProgressFollows'
  BY <1>1, <1>2, <1>3, <1>4 DEF ProgressFollows
<1>5. ASSUME NEW step \in RunSteps, Goto(d, step), step # "record", Exists(row'),
             step \in Working => row'.completed = Done(d)
      PROVE  ProgressFollows'
  <2>1. run'[d].step = step /\ run'[d].done = run[d].done
    BY <1>1, <1>5 DEF Goto, RunType
  <2> QED
    BY <1>4, <1>5, <2>1 DEF Stored, At, Done
<1>6. ASSUME NEW failed, CountPeriod(d, failed), Exists(row'), row'.completed = Done(d)
      PROVE  ProgressFollows'
  <2>1. run'[d].step = "record" /\ run'[d].done = run[d].done + 1
    BY <1>1, <1>6 DEF CountPeriod
  <2> QED
    BY <1>1, <1>4, <1>6, <2>1 DEF Stored, At, Done
<1>7. /\ {"touchStart", "checkStart", "check", "extract", "touchPeriod", "record", "touchRecorded",
          "emitProgress", "touchCollect", "touchCollected", "commit", "emitOutcome", "cancel",
          "emitCancelled", "cleanup", "over"} \subseteq RunSteps
      /\ "cleanup" \notin Working /\ "over" \notin Working
      /\ Outcome(d) \in {"processing"} \cup Terminal
      /\ "failed" \in {"processing"} \cup Terminal
      /\ "processing" \in {"processing"} \cup Terminal
  BY DEF RunSteps, Working, Deciding, Announcing, Outcome, Terminal
<1>8. /\ Exists(TouchSession(row)) /\ TouchSession(row).completed = row.completed
      /\ \A s \in {"processing", row.status} \cup Terminal : \A n : \A good, bad \in SUBSET Periods :
            /\ Exists(UpdateSession(row, s, n, good, bad))
            /\ UpdateSession(row, s, n, good, bad).completed = n
      /\ \A n : \A good, bad \in SUBSET Periods :
            /\ Exists(MarkSessionCancelled(row, n, good, bad))
            /\ MarkSessionCancelled(row, n, good, bad).completed = n
  BY <1>1, <1>2, RowReports, StillExists DEF SameReport
<1>9. run[d].step \in Working /\ ~At(d, "record") => row.completed = Done(d)
  BY DEF ProgressFollows, Stored
<1>10. {} \in SUBSET Periods
  OBVIOUS
<1>11. CASE StartSession(d)
  <2>1. Done(d) = 0
    BY <1>11 DEF StartSession, At, Handed
  <2> QED
    BY <1>2, <1>5, <1>7, <1>8, <1>10, <1>11, <2>1 DEF StartSession, Transaction, Raises
<1>12. CASE TouchRuntime(d)
  <2>1. run[d].step \in Working /\ ~At(d, "record")
    BY <1>12 DEF TouchRuntime, AfterTouch, Working, Deciding, At
  <2>2. PICK step \in {"checkStart", "emitProgress", "touchCollected", "commit", "cleanup"} : Goto(d, step)
    BY <1>12 DEF TouchRuntime, AfterTouch, Transaction
  <2>3. Exists(row') /\ row'.completed = row.completed
    BY <1>2, <1>8, <1>12 DEF TouchRuntime, Transaction, Raises
  <2> QED
    BY <1>5, <1>7, <1>9, <2>1, <2>2, <2>3
<1>13. CASE CheckCancel(d)
  <2>1. Done(d) = row.completed
    BY <1>9, <1>13 DEF CheckCancel, Working, Deciding, At
  <2>2. UNCHANGED row
    BY <1>13 DEF CheckCancel
  <2>3. PICK step \in {"cancel", "check", "extract", "touchCollect", "cleanup"} : Goto(d, step)
    BY <1>13 DEF CheckCancel
  <2> QED
    BY <1>2, <1>5, <1>7, <2>1, <2>2, <2>3
<1>14. CASE TimeOut(d)
  BY <1>2, <1>5, <1>7, <1>8, <1>10, <1>14 DEF TimeOut, Transaction, Raises
<1>15. CASE ExtractPeriod(d) \/ TouchPeriod(d)
  <2>1. row.completed = Done(d)
    BY <1>9, <1>15 DEF ExtractPeriod, TouchPeriod, Working, Deciding, At
  <2>2. Exists(row') /\ row'.completed = Done(d)
    BY <1>2, <1>8, <1>15, <2>1 DEF ExtractPeriod, TouchPeriod, Raises
  <2> QED
    BY <1>5, <1>6, <1>7, <1>15, <2>2 DEF ExtractPeriod, TouchPeriod
<1>16. CASE RecordProgress(d)
  <2> DEFINE recorded == UpdateSession(row, row.status, Done(d), {}, {})
  <2>1. Exists(recorded) /\ recorded.completed = Done(d)
    BY <1>8, <1>10
  <2> HIDE DEF recorded
  <2>2. Transaction(d, recorded, "touchRecorded")
    BY <1>16 DEF RecordProgress, recorded
  <2>3. CASE row' = recorded /\ Goto(d, "touchRecorded")
    BY <1>5, <1>7, <2>1, <2>3
  <2>4. CASE Raises(recorded) /\ Goto(d, "cleanup")
    <3>1. Exists(row')
      BY <1>2, <2>1, <2>4 DEF Raises
    <3> QED
      BY <1>5, <1>7, <2>4, <3>1
  <2> QED
    BY <2>2, <2>3, <2>4 DEF Transaction
<1>17. CASE AnnounceProgress(d) \/ AnnounceOutcome(d) \/ AnnounceCancelled(d)
  <2>1. row.completed = Done(d) /\ UNCHANGED row
    BY <1>9, <1>17 DEF AnnounceProgress, AnnounceOutcome, AnnounceCancelled, Working, Deciding,
       Announcing, At
  <2> QED
    BY <1>2, <1>5, <1>7, <1>17, <2>1 DEF AnnounceProgress, AnnounceOutcome, AnnounceCancelled, Broadcast
<1>18. CASE CommitOutcome(d)
  <2>1. Done(d) = Total
    BY <1>18 DEF CommitOutcome, At, Handed
  <2> DEFINE settled == UpdateSession(row, Outcome(d), Total, Good(d), Bad(d))
  <2>2. Exists(settled) /\ settled.completed = Done(d)
    <3>1. Outcome(d) \in {"processing", row.status} \cup Terminal
      BY <1>7
    <3>2. \A good, bad \in SUBSET Periods :
             /\ Exists(UpdateSession(row, Outcome(d), Total, good, bad))
             /\ UpdateSession(row, Outcome(d), Total, good, bad).completed = Total
      BY <1>8, <3>1
    <3> QED
      BY <1>1, <2>1, <3>2
  <2> HIDE DEF settled
  <2>3. Transaction(d, settled, "emitOutcome")
    BY <1>18 DEF CommitOutcome, settled
  <2>4. CASE row' = settled /\ Goto(d, "emitOutcome")
    BY <1>5, <1>7, <2>2, <2>4
  <2>5. CASE Raises(settled) /\ Goto(d, "cleanup")
    <3>1. Exists(row')
      BY <1>2, <2>2, <2>5 DEF Raises
    <3> QED
      BY <1>5, <1>7, <2>5, <3>1
  <2> QED
    BY <2>3, <2>4, <2>5 DEF Transaction
<1>19. CASE CommitCancellation(d)
  BY <1>1, <1>2, <1>5, <1>7, <1>8, <1>19 DEF CommitCancellation, Transaction, Raises
<1>20. CASE CleanupTempFiles(d)
  BY <1>2, <1>5, <1>7, <1>20 DEF CleanupTempFiles
<1> QED
  BY <1>11, <1>12, <1>13, <1>14, <1>15, <1>16, <1>17, <1>18, <1>19, <1>20 DEF RunStep

LEMMA NextProgress ==
    ASSUME OneDelivery, "cleanup" \notin Jobs, TypeOK, Handed, ProgressFollows, [Next]_vars
    PROVE  ProgressFollows'
<1> USE DEF requestVars, jobVars, historyVars
<1>1. run \in [Deliveries -> RunType] /\ row \in SessionType /\ recovery \in RecoveryType
  BY DEF TypeOK
<1>2. ASSUME UNCHANGED <<request, run, cleaner>>, Exists(row) => Exists(row'),
             row'.completed = row.completed
      PROVE  ProgressFollows'
  BY <1>2 DEF ProgressFollows, Stored, At, Done
<1>3. CASE RequestStep
  <2>1. request # "accepted" /\ UNCHANGED cleaner
    BY <1>3 DEF RequestStep, SaveDocument, CreateRecord, RejectRequest, Dispatch, DispatchFails,
       RecordDispatchFailure
  <2>2. \A d \in Deliveries : run[d].step = "unsent"
    BY <2>1 DEF Handed
  <2>3. \A d \in Deliveries : run'[d].step \notin Working
    BY <1>1, <1>3, <2>2 DEF RequestStep, SaveDocument, CreateRecord, RejectRequest, Dispatch,
       DispatchFails, RecordDispatchFailure, RunType, Working, Deciding, Announcing
  <2>4. request' \in {"created", "failing", "accepted"} => Exists(row')
    BY <1>3 DEF RequestStep, SaveDocument, CreateRecord, RejectRequest, Dispatch, DispatchFails,
       RecordDispatchFailure, ProgressFollows, Exists, CreateSession, NoSession
  <2> QED
    BY <2>1, <2>3, <2>4 DEF ProgressFollows
<1>4. CASE RequestCancel \/ CancelStep
  <2>1. (Exists(row) => Exists(row')) /\ row'.completed = row.completed
    BY <1>1, <1>4, RowReports, StillExists
    DEF RequestCancel, CancelStep, RecordCancel, RevokeTask, Raises, SameReport
  <2> QED
    BY <1>2, <1>4, <2>1 DEF RequestCancel, CancelStep, RecordCancel, RevokeTask
<1>5. ASSUME NEW d \in Deliveries,
             StartRun(d) \/ DiscardRevoked(d) \/ Redeliver(d) \/ WorkerCrash(d)
      PROVE  ProgressFollows'
  <2>1. \A e \in Deliveries : e = d
    BY DEF OneDelivery
  <2>2. run'[d].step \in {"lost", "start", "queued"} /\ UNCHANGED <<row, request, cleaner>>
    BY <1>1, <1>5 DEF StartRun, DiscardRevoked, Redeliver, WorkerCrash, Goto, At, RunType
  <2> QED
    BY <2>1, <2>2 DEF ProgressFollows, Working, Deciding, Announcing
<1>6. CASE ApiCrash
  <2>1. \A d \in Deliveries : run'[d] = run[d] \/ run'[d].step = "lost"
    BY <1>1, <1>6 DEF ApiCrash, RunType
  <2>2. /\ request' = request \/ request' = "crashed"
        /\ UNCHANGED <<row, cleaner>>
    BY <1>6 DEF ApiCrash
  <2> QED
    BY <2>1, <2>2 DEF ProgressFollows, Stored, At, Done, Working, Deciding, Announcing
<1>7. CASE HeartbeatExpires \/ RowAges
  BY <1>1, <1>2, <1>7 DEF HeartbeatExpires, RowAges, SessionType, Exists
<1>8. CASE RecoveryStep \/ RecoveryAborts
  <2>1. (Exists(row) => Exists(row')) /\ row'.completed = row.completed
    BY <1>1, <1>8, RowReports, StillExists DEF RecoveryStep, RecoveryFind, RecoverySelect,
       RecoveryCommit, RecoveryAnnounce, RecoveryAborts
  <2> QED
    BY <1>2, <1>8, <2>1 DEF RecoveryStep, RecoveryFind, RecoverySelect, RecoveryCommit,
       RecoveryAnnounce, RecoveryAborts
<1>9. ~CleanerFind /\ ~CleanerDelete
  BY DEF CleanerFind, CleanerDelete, ProgressFollows
<1>10. CASE UNCHANGED vars
  BY <1>2, <1>10 DEF vars
<1> QED
  BY <1>3, <1>4, <1>5, <1>6, <1>7, <1>8, <1>9, <1>10, RunStepProgress DEF Next

LEMMA AlwaysProgress ==
    ASSUME OneDelivery, "cleanup" \notin Jobs
    PROVE  Spec => [](TypeOK /\ Handed /\ ProgressFollows)
<1>1. Init => ProgressFollows
  BY DEF Init, ProgressFollows, Unsent, Working, Deciding, Announcing
<1>2. TypeOK /\ Handed /\ ProgressFollows /\ [Next]_vars => ProgressFollows'
  BY NextProgress
<1> QED
  BY <1>1, <1>2, AlwaysHanded, PTL DEF Spec

\* The recovery job may fail the row under a run that goes on, and the count still
\* follows the run: progress is neither invented nor lost.
THEOREM ProgressStaysHonest ==
    ASSUME OneDelivery, "cleanup" \notin Jobs
    PROVE  Spec => []ProgressIsHonest
<1>1. TypeOK /\ ProgressFollows => ProgressIsHonest
  <2> SUFFICES ASSUME TypeOK, ProgressFollows PROVE ProgressIsHonest
    OBVIOUS
  <2>1. ASSUME NEW d \in Deliveries,
               run[d].step \notin {"unsent", "queued", "start", "cleanup", "over", "lost"}
        PROVE  Stored(d)
    <3>1. run[d].step \in Working
      BY <2>1 DEF TypeOK, RunType, RunSteps, Working, Deciding, Announcing
    <3> QED
      BY <3>1 DEF ProgressFollows
  <2> QED
    BY <2>1 DEF ProgressIsHonest, Stored
<1> QED
  BY <1>1, AlwaysProgress, PTL

-----------------------------------------------------------------------------
(* One delivery, no cleanup job: the progress told *)

\* The inductive invariant behind ToldIsStored: a run that has not started has told
\* nothing, so the count it sets back to 0 was told to nobody.
First == {"unsent", "queued", "start"}

ToldFollows ==
    /\ ToldIsStored
    /\ \A d \in Deliveries : run[d].step \in First => told.completed = 0

\* What a run tells it has stored, and it takes back nothing it has stored.
LEMMA RunStepTold ==
    ASSUME OneDelivery, TypeOK, TypeOK', Handed, ProgressFollows, ToldFollows,
           NEW d \in Deliveries, RunStep(d)
    PROVE  ToldFollows'
<1>1. /\ run \in [Deliveries -> RunType] /\ row \in SessionType
      /\ \A e \in Deliveries : e = d
      /\ Done(d) \in Nat /\ Done(d) <= Total /\ Total \in Nat
      /\ Good(d) \in SUBSET Periods /\ Bad(d) \in SUBSET Periods
      /\ row.completed \in Nat /\ row.completed <= Total /\ row'.completed \in Nat
      /\ told.completed \in Nat /\ told.completed <= row.completed
  <2>1. /\ run \in [Deliveries -> RunType] /\ row \in SessionType /\ row' \in SessionType
        /\ \A e \in Deliveries : e = d
        /\ Done(d) \in 0..Total /\ Bad(d) \in SUBSET Periods /\ Total \in Nat
        /\ told.completed \in 0..Total /\ told.completed <= row.completed
    BY TotalAssumption DEF TypeOK, RunType, ToldType, Done, Bad, OneDelivery, ToldFollows,
       ToldIsStored
  <2>2. Good(d) \in SUBSET Periods
    BY <2>1 DEF Good, Periods
  <2>3. row.completed \in 0..Total /\ row'.completed \in 0..Total
    BY <2>1 DEF SessionType
  <2> QED
    BY <2>1, <2>2, <2>3
<1>2. Exists(row)
  <2>1. run[d].step # "unsent"
    BY DEF RunStep, StartSession, TouchRuntime, CheckCancel, TimeOut, ExtractPeriod, TouchPeriod,
           RecordProgress, AnnounceProgress, CommitOutcome, AnnounceOutcome, CommitCancellation,
           AnnounceCancelled, CleanupTempFiles, At, AfterTouch
  <2> QED
    BY <2>1 DEF Handed, ProgressFollows
<1>3. ASSUME run'[d].step \notin First, told' = told,
             row'.completed >= row.completed \/ told.completed = 0
      PROVE  ToldFollows'
  BY <1>1, <1>3 DEF ToldFollows, ToldIsStored
<1>4. ASSUME NEW step, step \notin First, Goto(d, step)
      PROVE  run'[d].step \notin First
  BY <1>1, <1>4 DEF Goto, RunType
<1>5. ASSUME NEW r, NEW next, next \notin First, Transaction(d, r, next), told' = told,
             r.completed >= row.completed
      PROVE  ToldFollows'
  <2>1. run'[d].step \notin First
    BY <1>4, <1>5 DEF Transaction, First
  <2>2. row'.completed >= row.completed
    BY <1>1, <1>5 DEF Transaction, Raises
  <2> QED
    BY <1>3, <1>5, <2>1, <2>2
<1>6. ASSUME NEW event, NEW next, next \notin First, Broadcast(d, event, next), row' = row,
             event.completed = row.completed
      PROVE  ToldFollows'
  <2>1. run'[d].step \notin First
    BY <1>4, <1>6 DEF Broadcast, First
  <2>2. told' = told \/ told' = event
    BY <1>6 DEF Broadcast
  <2> QED
    BY <1>1, <1>3, <1>6, <2>1, <2>2 DEF ToldFollows, ToldIsStored
<1>7. /\ TouchSession(row).completed = row.completed
      /\ \A s, n : UpdateSession(row, s, n, {}, {}).completed = n
      /\ \A s, n : \A good, bad \in SUBSET Periods : UpdateSession(row, s, n, good, bad).completed = n
      /\ \A n : \A good, bad \in SUBSET Periods : MarkSessionCancelled(row, n, good, bad).completed = n
  BY <1>1, <1>2, RowReports DEF SameReport
<1>8. run[d].step \in Working =>
         row.completed = IF At(d, "record") THEN Done(d) - 1 ELSE Done(d)
  BY DEF ProgressFollows, Stored
<1>9. CASE StartSession(d)
  <2>1. told.completed = 0
    BY <1>9 DEF StartSession, At, ToldFollows, First
  <2>2. run'[d].step \notin First
    BY <1>4, <1>9 DEF StartSession, Transaction, First
  <2>3. told' = told
    BY <1>9 DEF StartSession
  <2> QED
    BY <1>3, <2>1, <2>2, <2>3
<1>10. CASE TouchRuntime(d)
  <2>1. AfterTouch[run[d].step] \notin First
    BY <1>10 DEF TouchRuntime, AfterTouch, First
  <2>2. Transaction(d, TouchSession(row), AfterTouch[run[d].step]) /\ told' = told
    BY <1>10 DEF TouchRuntime
  <2> QED
    BY <1>1, <1>5, <1>7, <2>1, <2>2
<1>11. CASE CheckCancel(d) \/ CleanupTempFiles(d)
  <2>1. UNCHANGED <<row, told>>
    BY <1>11 DEF CheckCancel, CleanupTempFiles
  <2>2. run'[d].step \notin First
    BY <1>4, <1>11 DEF CheckCancel, CleanupTempFiles, First
  <2> QED
    BY <1>1, <1>3, <2>1, <2>2
<1>12. CASE TimeOut(d)
  <2>1. Done(d) = row.completed
    BY <1>8, <1>12 DEF TimeOut, Working, Deciding, At
  <2>2. /\ Transaction(d, UpdateSession(row, "failed", Done(d), {}, {}), "cleanup")
        /\ told' = told /\ "cleanup" \notin First
    BY <1>12 DEF TimeOut, First
  <2> QED
    BY <1>1, <1>5, <1>7, <2>1, <2>2
<1>13. CASE ExtractPeriod(d) \/ TouchPeriod(d)
  <2>1. told' = told
    BY <1>13 DEF ExtractPeriod, TouchPeriod
  <2>2. row'.completed = row.completed
    BY <1>7, <1>13 DEF ExtractPeriod, TouchPeriod, Raises
  <2>3. run'[d].step \notin First
    BY <1>1, <1>4, <1>13 DEF ExtractPeriod, TouchPeriod, CountPeriod, First
  <2> QED
    BY <1>1, <1>3, <2>1, <2>2, <2>3
<1>14. CASE RecordProgress(d)
  <2>1. row.completed = Done(d) - 1
    BY <1>8, <1>14 DEF RecordProgress, Working, Deciding, At
  <2>2. /\ Transaction(d, UpdateSession(row, row.status, Done(d), {}, {}), "touchRecorded")
        /\ told' = told /\ "touchRecorded" \notin First
    BY <1>14 DEF RecordProgress, First
  <2>3. UpdateSession(row, row.status, Done(d), {}, {}).completed >= row.completed
    BY <1>1, <1>7, <2>1
  <2> QED
    BY <1>5, <2>2, <2>3
<1>15. ASSUME NEW event, NEW next, next \notin First, Broadcast(d, event, next), row' = row,
              event.completed = Done(d), run[d].step \in Working \ {"record"}
       PROVE  ToldFollows'
  BY <1>6, <1>8, <1>15 DEF At
<1>16. CASE AnnounceProgress(d)
  <2> DEFINE event == [status |-> "processing", completed |-> Done(d)]
  <2>1. event.completed = Done(d)
    OBVIOUS
  <2>2. Broadcast(d, event, "check") /\ row' = row /\ run[d].step = "emitProgress"
    BY <1>16 DEF AnnounceProgress, At
  <2> HIDE DEF event
  <2> QED
    BY <1>15, <2>1, <2>2 DEF First, Working, Deciding
<1>17. CASE AnnounceOutcome(d)
  <2> DEFINE event == [status |-> Outcome(d), completed |-> Total]
  <2>1. event.completed = Done(d)
    BY <1>17 DEF AnnounceOutcome, At, Handed
  <2>2. Broadcast(d, event, "cleanup") /\ row' = row /\ run[d].step = "emitOutcome"
    BY <1>17 DEF AnnounceOutcome, At
  <2> HIDE DEF event
  <2> QED
    BY <1>15, <2>1, <2>2 DEF First, Working, Announcing
<1>18. CASE AnnounceCancelled(d)
  <2> DEFINE event == [status |-> "cancelled", completed |-> Done(d)]
  <2>1. event.completed = Done(d)
    OBVIOUS
  <2>2. Broadcast(d, event, "cleanup") /\ row' = row /\ run[d].step = "emitCancelled"
    BY <1>18 DEF AnnounceCancelled, At
  <2> HIDE DEF event
  <2> QED
    BY <1>15, <2>1, <2>2 DEF First, Working, Announcing
<1>19. CASE CommitOutcome(d)
  <2>1. /\ Transaction(d, UpdateSession(row, Outcome(d), Total, Good(d), Bad(d)), "emitOutcome")
        /\ told' = told /\ "emitOutcome" \notin First
    BY <1>19 DEF CommitOutcome, First
  <2>2. UpdateSession(row, Outcome(d), Total, Good(d), Bad(d)).completed >= row.completed
    BY <1>1, <1>7
  <2> QED
    BY <1>5, <2>1, <2>2
<1>20. CASE CommitCancellation(d)
  <2>1. Done(d) = row.completed
    BY <1>8, <1>20 DEF CommitCancellation, Working, Deciding, At
  <2>2. /\ Transaction(d, MarkSessionCancelled(row, Done(d), Good(d), Bad(d)), "emitCancelled")
        /\ told' = told /\ "emitCancelled" \notin First
    BY <1>20 DEF CommitCancellation, First
  <2>3. MarkSessionCancelled(row, Done(d), Good(d), Bad(d)).completed >= row.completed
    BY <1>1, <1>7, <2>1
  <2> QED
    BY <1>5, <2>2, <2>3
<1> QED
  BY <1>9, <1>10, <1>11, <1>12, <1>13, <1>14, <1>16, <1>17, <1>18, <1>19, <1>20 DEF RunStep

LEMMA NextTold ==
    ASSUME OneDelivery, "cleanup" \notin Jobs, TypeOK, TypeOK', Handed, ProgressFollows,
           ToldFollows, [Next]_vars
    PROVE  ToldFollows'
<1> USE DEF requestVars, jobVars, historyVars
<1>1. /\ run \in [Deliveries -> RunType] /\ row \in SessionType /\ recovery \in RecoveryType
      /\ row'.completed \in Nat
  <2>1. run \in [Deliveries -> RunType] /\ row \in SessionType /\ recovery \in RecoveryType
    BY DEF TypeOK
  <2>2. row'.completed \in Nat
    BY TotalAssumption DEF TypeOK, SessionType
  <2> QED
    BY <2>1, <2>2
<1>2. ASSUME told'.completed = told.completed, row'.completed = row.completed,
             \A d \in Deliveries : run'[d].step \in First => run[d].step \in First
      PROVE  ToldFollows'
  BY <1>2 DEF ToldFollows, ToldIsStored
<1>3. CASE RequestStep
  <2>1. request # "accepted" /\ told' = told
    BY <1>3 DEF RequestStep, SaveDocument, CreateRecord, RejectRequest, Dispatch, DispatchFails,
       RecordDispatchFailure
  <2>2. told.completed = 0
    BY <2>1, DeliveriesAssumption DEF Handed, ToldFollows, First
  <2> QED
    BY <1>1, <2>1, <2>2 DEF ToldFollows, ToldIsStored
<1>4. CASE RequestCancel \/ CancelStep
  <2>1. row'.completed = row.completed
    BY <1>1, <1>4, RowReports
    DEF RequestCancel, CancelStep, RecordCancel, RevokeTask, Raises, SameReport
  <2> QED
    BY <1>2, <1>4, <2>1 DEF RequestCancel, CancelStep, RecordCancel, RevokeTask
<1>5. ASSUME NEW d \in Deliveries,
             StartRun(d) \/ DiscardRevoked(d) \/ Redeliver(d) \/ WorkerCrash(d)
      PROVE  ToldFollows'
  <2>1. /\ UNCHANGED <<row, told>> /\ \A e \in Deliveries : e # d => run'[e] = run[e]
        /\ run'[d].step \in First => run[d].step \in First
    BY <1>1, <1>5 DEF StartRun, DiscardRevoked, Redeliver, WorkerCrash, Goto, At, RunType, First
  <2> QED
    BY <1>2, <2>1
<1>6. CASE ApiCrash
  <2>1. \A d \in Deliveries : run'[d] = run[d] \/ run'[d].step = "lost"
    BY <1>1, <1>6 DEF ApiCrash, RunType
  <2>2. UNCHANGED <<row, told>>
    BY <1>6 DEF ApiCrash
  <2> QED
    BY <1>2, <2>1, <2>2 DEF First
<1>7. CASE HeartbeatExpires \/ RowAges
  BY <1>1, <1>2, <1>7 DEF HeartbeatExpires, RowAges, SessionType
<1>8. CASE RecoveryStep \/ RecoveryAborts
  <2>1. row'.completed = row.completed
    BY <1>1, <1>8, RowReports DEF RecoveryStep, RecoveryFind, RecoverySelect,
       RecoveryCommit, RecoveryAnnounce, RecoveryAborts
  <2>2. told'.completed = told.completed
    BY <1>8 DEF TypeOK, ToldType, RecoveryStep, RecoveryFind, RecoverySelect, RecoveryCommit,
       RecoveryAnnounce, RecoveryAborts
  <2>3. UNCHANGED run
    BY <1>8 DEF RecoveryStep, RecoveryFind, RecoverySelect, RecoveryCommit, RecoveryAnnounce,
       RecoveryAborts
  <2> QED
    BY <1>2, <2>1, <2>2, <2>3
<1>9. ~CleanerFind /\ ~CleanerDelete
  BY DEF CleanerFind, CleanerDelete, ProgressFollows
<1>10. CASE UNCHANGED vars
  BY <1>2, <1>10 DEF vars
<1> QED
  BY <1>2, <1>3, <1>4, <1>5, <1>6, <1>7, <1>8, <1>9, <1>10, RunStepTold DEF Next

\* The recovery job may fail the row under a run that goes on, and announce it: the
\* progress clients have heard of is in the row all the same, whatever fails.
THEOREM ProgressToldIsStored ==
    ASSUME OneDelivery, "cleanup" \notin Jobs
    PROVE  Spec => []ToldIsStored
<1>1. Init => ToldFollows
  BY DEF Init, ToldFollows, ToldIsStored, NoSession
<1>2. TypeOK /\ Handed /\ ProgressFollows /\ ToldFollows /\ [Next]_vars => ToldFollows'
  BY NextTold, NextTypeOK
<1>3. ToldFollows => ToldIsStored
  BY DEF ToldFollows
<1> QED
  BY <1>1, <1>2, <1>3, AlwaysProgress, PTL DEF Spec

-----------------------------------------------------------------------------
(* One delivery and no job: what clients are told, and the contract *)

Undisturbed == OneDelivery /\ Jobs = {}

NothingTold == [status |-> "none", completed |-> 0]

\* The inductive invariant behind ToldMatchesRow, CancelStopsWithinOnePeriod and
\* the contract: the run alone decides, so the row has no outcome before its
\* outcome step, clients have heard none before its announcement, and a recorded
\* cancellation stays in the row for every checkpoint to see.
OneDecides ==
    /\ recovery.step = "idle"
    /\ asked => row.cancelRequested
    /\ request \in {"created", "failing"} => row.status = "processing"
    /\ request # "accepted" => told = NothingTold
    /\ \A d \in Deliveries :
          /\ run[d].step \in Waiting => told = NothingTold
          /\ run[d].step \in Waiting \cup Deciding => row.status = "processing"
          /\ run[d].step \in Waiting \cup Working => told.status \notin Terminal
          /\ At(d, "cancel") => row.cancelRequested
          /\ At(d, "emitOutcome") => row.status = Outcome(d)
          /\ At(d, "emitCancelled") => row.status = "cancelled"
    /\ ToldMatchesRow
    /\ CancelStopsWithinOnePeriod

\* What one step may do, as the clients of the session see it: nothing, or a step
\* of the contract.
ClientStep ==
    \/ /\ ClientStatus(row') = ClientStatus(row)
       /\ row'.cancelRequested = row.cancelRequested
       /\ ClientHeard(told') = ClientHeard(told)
    \/ /\ ClientStatus(row) = "none" /\ ClientStatus(row') = "processing"
       /\ row'.cancelRequested = row.cancelRequested
       /\ ClientHeard(told') = ClientHeard(told)
    \/ /\ ClientStatus(row) = "processing" /\ ClientStatus(row') = "processing"
       /\ row'.cancelRequested = TRUE
       /\ ClientHeard(told') = ClientHeard(told)
    \/ /\ ClientStatus(row) = "processing" /\ ClientStatus(row') \in Terminal
       /\ ClientStatus(row') = "cancelled" => row.cancelRequested
       /\ row'.cancelRequested = row.cancelRequested
       /\ ClientHeard(told') = ClientHeard(told)
    \/ /\ ClientStatus(row) \in Terminal /\ ClientStatus(row') = ClientStatus(row)
       /\ row'.cancelRequested = row.cancelRequested
       /\ ClientHeard(told) = "none" /\ ClientHeard(told') = ClientStatus(row)

LEMMA ContractAllows ==
    ASSUME ClientStep
    PROVE  [Contract!Next]_(Contract!vars)
<1> DEFINE status == [s \in {Session} |-> ClientStatus(row)]
           wanted == [s \in {Session} |-> row.cancelRequested]
           heard  == [s \in {Session} |-> ClientHeard(told)]
<1>1. /\ status' = [status EXCEPT ![Session] = ClientStatus(row')]
      /\ wanted' = [wanted EXCEPT ![Session] = row'.cancelRequested]
      /\ heard' = [heard EXCEPT ![Session] = ClientHeard(told')]
  OBVIOUS
<1>2. /\ status[Session] = ClientStatus(row) /\ wanted[Session] = row.cancelRequested
      /\ heard[Session] = ClientHeard(told)
  OBVIOUS
<1>3. /\ (ClientStatus(row') = ClientStatus(row)) => status' = status
      /\ (row'.cancelRequested = row.cancelRequested) => wanted' = wanted
      /\ (ClientHeard(told') = ClientHeard(told)) => heard' = heard
  OBVIOUS
<1>4. CASE UNCHANGED <<status, wanted, heard>>
  BY <1>4 DEF Contract!vars
<1>5. CASE ClientStatus(row) = "none" /\ ClientStatus(row') = "processing"
  BY <1>1, <1>2, <1>3, <1>5 DEF ClientStep, Contract!Next, Contract!Accept, Terminal
<1>6. CASE ClientStatus(row) = "processing" /\ ClientStatus(row') = "processing"
  BY <1>1, <1>2, <1>3, <1>6 DEF ClientStep, Contract!Next, Contract!Cancel, Contract!vars, Terminal
<1>7. CASE ClientStatus(row) = "processing" /\ ClientStatus(row') \in Terminal
  BY <1>1, <1>2, <1>3, <1>7 DEF ClientStep, Contract!Next, Contract!Settle, Contract!Outcomes, Terminal
<1>8. CASE /\ ClientStatus(row) \in Terminal /\ ClientHeard(told) = "none"
           /\ ClientHeard(told') = ClientStatus(row)
  BY <1>1, <1>2, <1>3, <1>8 DEF ClientStep, Contract!Next, Contract!Tell, Contract!Outcomes,
     Contract!vars, Terminal
<1> QED
  BY <1>3, <1>4, <1>5, <1>6, <1>7, <1>8 DEF ClientStep

LEMMA RunStepDecides ==
    ASSUME OneDelivery, TypeOK, Handed, ProgressFollows, OneDecides,
           NEW d \in Deliveries, RunStep(d)
    PROVE  OneDecides' /\ ClientStep
<1> USE DEF CancelStopsWithinOnePeriod
<1>1. /\ run \in [Deliveries -> RunType] /\ row \in SessionType /\ told \in ToldType
      /\ \A e \in Deliveries : e = d
      /\ Done(d) \in 0..Total /\ Good(d) \in SUBSET Periods /\ Bad(d) \in SUBSET Periods
  <2>1. /\ run \in [Deliveries -> RunType] /\ row \in SessionType /\ told \in ToldType
        /\ \A e \in Deliveries : e = d
        /\ Done(d) \in 0..Total /\ Bad(d) \in SUBSET Periods
    BY DEF TypeOK, RunType, Done, Bad, OneDelivery
  <2>2. Good(d) \in SUBSET Periods
    BY <2>1, TotalAssumption DEF Good, Periods
  <2> QED
    BY <2>1, <2>2
<1>2. request = "accepted" /\ Exists(row)
  <2>1. run[d].step # "unsent"
    BY DEF RunStep, StartSession, TouchRuntime, CheckCancel, TimeOut, ExtractPeriod, TouchPeriod,
           RecordProgress, AnnounceProgress, CommitOutcome, AnnounceOutcome, CommitCancellation,
           AnnounceCancelled, CleanupTempFiles, At, AfterTouch
  <2> QED
    BY <2>1 DEF Handed, ProgressFollows
<1>3. UNCHANGED <<request, recovery, asked>>
  BY DEF RunStep, StartSession, TouchRuntime, CheckCancel, TimeOut, ExtractPeriod, TouchPeriod,
         RecordProgress, AnnounceProgress, CommitOutcome, AnnounceOutcome, CommitCancellation,
         AnnounceCancelled, CleanupTempFiles, requestVars, jobVars, historyVars
<1>4. /\ run[d].step \in {"start"} \cup Deciding =>
             row.status = "processing" /\ told.status \notin Terminal
      /\ told.completed <= row.completed
      /\ asked => row.cancelRequested
  BY DEF OneDecides, ToldMatchesRow, ToldIsStored, Waiting, Working
<1>5. run[d].step \in Working /\ ~At(d, "record") => row.completed = Done(d)
  BY DEF ProgressFollows, Stored
\* The row is still in progress, and the event told is none or the last progress.
<1>6. ASSUME NEW step \in Deciding \cup {"cleanup"}, run'[d].step = step,
             run[d].step \in {"start"} \cup Deciding,
             row'.status = row.status, row'.cancelRequested = row.cancelRequested,
             told'.status \notin Terminal, told'.completed <= row'.completed,
             step = "cancel" => row.cancelRequested, overrun' = 0
      PROVE  OneDecides' /\ ClientStep
  <2>1. OneDecides'
    BY <1>1, <1>2, <1>3, <1>4, <1>6 DEF OneDecides, ToldMatchesRow, ToldIsStored, At, Waiting, Deciding, Working,
       Announcing
  <2>2. ClientStep
    BY <1>1, <1>4, <1>6 DEF ClientStep, ClientStatus, ClientHeard, Exists
  <2> QED
    BY <2>1, <2>2
\* The row gets its outcome.
<1>7. ASSUME NEW step \in Announcing \cup {"cleanup"}, run'[d].step = step, UNCHANGED told,
             run'[d].failed = run[d].failed, run[d].step \in Deciding, row'.status \in Terminal,
             row'.cancelRequested = row.cancelRequested,
             row'.status = "cancelled" => row.cancelRequested,
             told.completed <= row'.completed, overrun' = overrun,
             step = "emitOutcome" => row'.status = Outcome(d),
             step = "emitCancelled" => row'.status = "cancelled"
      PROVE  OneDecides' /\ ClientStep
  <2>1. Outcome(d)' = Outcome(d)
    BY <1>7 DEF Outcome, Bad
  <2>2. OneDecides'
    BY <1>1, <1>2, <1>3, <1>4, <1>7, <2>1 DEF OneDecides, ToldMatchesRow, ToldIsStored, At, Waiting, Deciding,
       Working, Announcing, Terminal
  <2>3. ClientStep
    BY <1>1, <1>4, <1>7 DEF ClientStep, ClientStatus, ClientHeard, Exists, Terminal
  <2> QED
    BY <2>2, <2>3
\* The run ends with what the row says.
<1>8. ASSUME run'[d].step \in {"cleanup", "over"}, UNCHANGED <<row, overrun>>,
             \/ UNCHANGED told
             \/ /\ run[d].step \in Announcing
                /\ told' = [status |-> row.status, completed |-> row.completed]
                /\ row.status \in Terminal
      PROVE  OneDecides' /\ ClientStep
  <2>1. run[d].step \in Announcing => told.status \notin Terminal
    BY DEF OneDecides, Working
  <2>2. OneDecides'
    BY <1>1, <1>2, <1>3, <1>4, <1>8 DEF OneDecides, ToldMatchesRow, ToldIsStored, At, Waiting, Deciding, Working,
       Announcing, SessionType
  <2>3. ClientStep
    BY <1>1, <1>8, <2>1 DEF ClientStep, ClientStatus, ClientHeard, Exists, Terminal
  <2> QED
    BY <2>2, <2>3
<1>9. ASSUME NEW next \in RunSteps, Goto(d, next)
      PROVE  run'[d].step = next /\ run'[d].failed = run[d].failed
  BY <1>1, <1>9 DEF Goto, RunType
<1>10. {"touchStart", "checkStart", "check", "extract", "touchPeriod", "record", "touchRecorded",
        "emitProgress", "touchCollect", "touchCollected", "commit", "emitOutcome", "cancel",
        "emitCancelled", "cleanup", "over"} \subseteq RunSteps
  BY DEF RunSteps
<1>11. /\ overrun = 0
       /\ 0 \in 0..Total /\ Total \in 0..Total
       /\ {} \in SUBSET Periods /\ row.completed \in 0..Total /\ told.completed \in 0..Total
  BY <1>1, TotalAssumption DEF OneDecides, SessionType, ToldType
\* What a transaction that does not settle leaves: its effect, or the row.
<1>12. ASSUME NEW r, NEW next \in RunSteps, Transaction(d, r, next)
       PROVE  /\ row' = r \/ row' = row
              /\ \/ row' = r /\ run'[d].step = next
                 \/ run'[d].step = "cleanup"
              /\ run'[d].failed = run[d].failed
  <2>1. CASE row' = r /\ Goto(d, next)
    BY <1>9, <2>1
  <2>2. CASE Raises(r) /\ Goto(d, "cleanup")
    BY <1>9, <1>10, <2>2 DEF Raises
  <2> QED
    BY <1>12, <2>1, <2>2 DEF Transaction
<1>13. ASSUME NEW s, NEW n
       PROVE  /\ UpdateSession(row, s, n, {}, {}).status = s
              /\ UpdateSession(row, s, n, {}, {}).completed = n
              /\ UpdateSession(row, s, n, {}, {}).cancelRequested = row.cancelRequested
  BY <1>1, <1>2, RowReports
<1>14. CASE StartSession(d)
  <2> DEFINE started == UpdateSession(row, "processing", 0, {}, {})
  <2>1. At(d, "start") /\ told = NothingTold /\ UNCHANGED <<told, overrun>>
    BY <1>14 DEF StartSession, historyVars, OneDecides, At, Waiting
  <2>2. row' = started \/ row' = row
    BY <1>10, <1>12, <1>14 DEF StartSession
  <2>3. run'[d].step \in {"touchStart", "cleanup"}
    BY <1>10, <1>12, <1>14 DEF StartSession
  <2>4. /\ row'.status = row.status /\ row'.cancelRequested = row.cancelRequested
        /\ told.completed <= row'.completed
    BY <1>4, <1>13, <2>1, <2>2 DEF At, NothingTold
  <2> QED
    BY <1>4, <1>6, <1>11, <2>1, <2>3, <2>4 DEF At, Deciding
<1>15. CASE TouchRuntime(d)
  <2>1. run[d].step \in {"start"} \cup Deciding /\ UNCHANGED <<told, overrun>>
    BY <1>15 DEF TouchRuntime, AfterTouch, Deciding, historyVars
  <2>2. AfterTouch[run[d].step] \in Deciding \cap RunSteps
    BY <1>15 DEF TouchRuntime, AfterTouch, Deciding, RunSteps
  <2>3. run'[d].step \in (Deciding \ {"cancel"}) \cup {"cleanup"}
    BY <1>12, <1>15, <2>2 DEF TouchRuntime, AfterTouch, Deciding
  <2>4. row' = TouchSession(row) \/ row' = row
    BY <1>12, <1>15, <2>2 DEF TouchRuntime
  <2>5. /\ row'.status = row.status /\ row'.cancelRequested = row.cancelRequested
        /\ row'.completed = row.completed
    BY <1>1, <2>4, RowReports DEF SameReport
  <2> QED
    BY <1>4, <1>6, <1>11, <2>1, <2>3, <2>5
<1>16. CASE CheckCancel(d)
  <2>1. run[d].step \in Deciding /\ UNCHANGED <<row, told>>
    BY <1>16 DEF CheckCancel, Deciding
  <2> DEFINE aim == IF IsSessionCancelPending(row) THEN "cancel"
                    ELSE IF At(d, "checkStart") THEN "check"
                    ELSE IF Done(d) < Total THEN "extract" ELSE "touchCollect"
  <2>2. PICK next \in {"cancel", "check", "extract", "touchCollect", "cleanup"} :
            /\ Goto(d, next)
            /\ next = "cancel" => row.cancelRequested
            /\ next = "extract" => ~IsSessionCancelPending(row)
            /\ overrun' = overrun \/ (next = "extract" /\ asked)
    <3>1. CASE Goto(d, "cleanup") /\ UNCHANGED overrun
      BY <3>1
    <3>2. CASE /\ Goto(d, aim)
               /\ overrun' = IF aim = "extract" /\ asked /\ overrun < 2
                             THEN overrun + 1 ELSE overrun
      <4>1. /\ aim \in {"cancel", "check", "extract", "touchCollect"}
            /\ aim = "cancel" => row.cancelRequested
            /\ aim = "extract" => ~IsSessionCancelPending(row)
        BY DEF IsSessionCancelPending
      <4> QED
        BY <3>2, <4>1
    <3> QED
      BY <1>16, <3>1, <3>2 DEF CheckCancel
  <2>3. overrun' = 0
    BY <1>4, <1>11, <2>1, <2>2 DEF IsSessionCancelPending, InProgress
  <2>4. run'[d].step = next
    BY <1>9, <1>10, <2>2
  <2> QED
    BY <1>4, <1>6, <2>1, <2>2, <2>3, <2>4 DEF Deciding
<1>17. CASE TimeOut(d)
  <2>1. run[d].step \in Deciding /\ ~At(d, "record") /\ UNCHANGED <<told, overrun>>
    BY <1>17 DEF TimeOut, At, Deciding, historyVars
  <2>2. run'[d].step = "cleanup" /\ run'[d].failed = run[d].failed
    BY <1>10, <1>12, <1>17 DEF TimeOut
  <2>3. CASE row' = row
    BY <1>8, <2>1, <2>2, <2>3
  <2>4. CASE row' = UpdateSession(row, "failed", Done(d), {}, {})
    BY <1>4, <1>5, <1>7, <1>13, <2>1, <2>2, <2>4 DEF Terminal, Working
  <2> QED
    BY <1>10, <1>12, <1>17, <2>3, <2>4 DEF TimeOut
<1>18. CASE ExtractPeriod(d) \/ TouchPeriod(d)
  <2>1. run[d].step \in Deciding /\ UNCHANGED <<told, overrun>>
    BY <1>18 DEF ExtractPeriod, TouchPeriod, At, Deciding, historyVars
  <2>2. run'[d].step \in {"touchPeriod", "record"}
    BY <1>1, <1>9, <1>10, <1>18 DEF ExtractPeriod, TouchPeriod, CountPeriod
  <2>3. row' = TouchSession(row) \/ row' = row
    BY <1>18 DEF ExtractPeriod, TouchPeriod, Raises
  <2>4. /\ row'.status = row.status /\ row'.cancelRequested = row.cancelRequested
        /\ row'.completed = row.completed
    BY <1>1, <2>3, RowReports DEF SameReport
  <2> QED
    BY <1>4, <1>6, <1>11, <2>1, <2>2, <2>4 DEF Deciding
<1>19. CASE RecordProgress(d)
  <2>1. run[d].step \in Deciding /\ run[d].step \in Working /\ At(d, "record")
        /\ UNCHANGED <<told, overrun>>
    BY <1>19 DEF RecordProgress, At, Deciding, Working, historyVars
  <2>2. row.completed = Done(d) - 1
    BY <2>1 DEF ProgressFollows, Stored
  <2>3. row' = UpdateSession(row, row.status, Done(d), {}, {}) \/ row' = row
    BY <1>10, <1>12, <1>19 DEF RecordProgress
  <2>4. run'[d].step \in {"touchRecorded", "cleanup"}
    BY <1>10, <1>12, <1>19 DEF RecordProgress
  <2>5. row'.status = row.status /\ row'.cancelRequested = row.cancelRequested
    BY <1>13, <2>3
  <2>6. told.completed <= row'.completed
    BY <1>1, <1>4, <1>11, <1>13, <2>2, <2>3
  <2> QED
    BY <1>4, <1>6, <1>11, <2>1, <2>4, <2>5, <2>6 DEF Deciding
<1>20. CASE AnnounceProgress(d)
  <2> DEFINE event == [status |-> "processing", completed |-> Done(d)]
  <2>1. run[d].step \in Deciding /\ row.completed = Done(d) /\ UNCHANGED <<row, overrun>>
    BY <1>5, <1>20 DEF AnnounceProgress, At, Deciding, Working, historyVars
  <2>2. /\ run'[d].step \in {"check", "cleanup"}
        /\ told' = told \/ told' = event
    BY <1>9, <1>10, <1>20 DEF AnnounceProgress, Broadcast
  <2>3. told'.status \notin Terminal /\ told'.completed <= row'.completed
    BY <1>1, <1>4, <2>1, <2>2 DEF Terminal
  <2> QED
    BY <1>6, <1>11, <2>1, <2>2, <2>3 DEF Deciding
<1>21. CASE CommitOutcome(d)
  <2> DEFINE settled == UpdateSession(row, Outcome(d), Total, Good(d), Bad(d))
  <2>1. run[d].step \in Deciding /\ UNCHANGED <<told, overrun>>
    BY <1>21 DEF CommitOutcome, At, Deciding, historyVars
  <2>2. Outcome(d) \in Terminal /\ Outcome(d) # "cancelled"
    BY DEF Outcome, Terminal
  <2>3. /\ settled.status = Outcome(d) /\ settled.completed = Total
        /\ settled.cancelRequested = row.cancelRequested
    BY <1>1, <1>2, RowReports
  <2> HIDE DEF settled
  <2>4. Transaction(d, settled, "emitOutcome")
    BY <1>21 DEF CommitOutcome, settled
  <2>5. /\ run'[d].step \in {"emitOutcome", "cleanup"} /\ run'[d].failed = run[d].failed
        /\ row' = settled \/ (row' = row /\ run'[d].step = "cleanup")
    BY <1>10, <1>12, <2>4
  <2>6. CASE row' = row /\ run'[d].step = "cleanup"
    BY <1>8, <2>1, <2>6
  <2>7. CASE row' = settled
    <3>1. told.completed <= row'.completed
      BY <1>1, <1>11, <2>3, <2>7, TotalAssumption
    <3> QED
      BY <1>7, <2>1, <2>2, <2>3, <2>5, <2>7, <3>1 DEF Announcing
  <2> QED
    BY <2>5, <2>6, <2>7
<1>22. CASE CommitCancellation(d)
  <2> DEFINE settled == MarkSessionCancelled(row, Done(d), Good(d), Bad(d))
  <2>1. run[d].step \in Deciding /\ ~At(d, "record") /\ row.cancelRequested
        /\ UNCHANGED <<told, overrun>>
    BY <1>22 DEF CommitCancellation, At, Deciding, historyVars, OneDecides
  <2>2. /\ settled.status = "cancelled" /\ settled.completed = Done(d) /\ settled.cancelRequested
    BY <1>1, <1>2, RowReports
  <2>3. settled.cancelRequested = row.cancelRequested
    BY <1>1, <1>2, <2>1 DEF MarkSessionCancelled, SessionType, Beating, MergePeriods
  <2> HIDE DEF settled
  <2>4. Transaction(d, settled, "emitCancelled")
    BY <1>22 DEF CommitCancellation, settled
  <2>5. /\ run'[d].step \in {"emitCancelled", "cleanup"} /\ run'[d].failed = run[d].failed
        /\ row' = settled \/ (row' = row /\ run'[d].step = "cleanup")
    BY <1>10, <1>12, <2>4
  <2>6. CASE row' = row /\ run'[d].step = "cleanup"
    BY <1>8, <2>1, <2>6
  <2>7. CASE row' = settled
    <3>1. told.completed <= row'.completed
      BY <1>4, <1>5, <2>1, <2>2, <2>7 DEF Working
    <3> QED
      BY <1>7, <2>1, <2>2, <2>3, <2>5, <2>7, <3>1 DEF Announcing, Terminal
  <2> QED
    BY <2>5, <2>6, <2>7
<1>23. CASE AnnounceOutcome(d) \/ AnnounceCancelled(d)
  <2>1. /\ run[d].step \in Announcing /\ ~At(d, "record") /\ UNCHANGED <<row, overrun>>
    BY <1>23 DEF AnnounceOutcome, AnnounceCancelled, At, Announcing, historyVars
  <2>2. row.completed = Done(d) /\ row.status \in Terminal
    BY <1>5, <2>1 DEF Working, OneDecides, Announcing, At, Outcome, Terminal
  <2>3. told' = told \/ told' = [status |-> row.status, completed |-> row.completed]
    <3>1. CASE AnnounceOutcome(d)
      <4>1. Done(d) = Total /\ row.status = Outcome(d)
        BY <3>1 DEF AnnounceOutcome, At, Handed, OneDecides
      <4> QED
        BY <2>2, <3>1, <4>1 DEF AnnounceOutcome, Broadcast
    <3>2. CASE AnnounceCancelled(d)
      BY <2>2, <3>2 DEF AnnounceCancelled, At, OneDecides, Broadcast
    <3> QED
      BY <1>23, <3>1, <3>2
  <2>4. run'[d].step = "cleanup"
    BY <1>9, <1>10, <1>23 DEF AnnounceOutcome, AnnounceCancelled, Broadcast
  <2> QED
    BY <1>8, <2>1, <2>2, <2>3, <2>4
<1>24. CASE CleanupTempFiles(d)
  <2>1. run'[d].step = "over"
    BY <1>9, <1>10, <1>24 DEF CleanupTempFiles
  <2> QED
    BY <1>8, <1>24, <2>1 DEF CleanupTempFiles, historyVars
<1> QED
  BY <1>14, <1>15, <1>16, <1>17, <1>18, <1>19, <1>20, <1>21, <1>22, <1>23, <1>24 DEF RunStep

LEMMA NextDecides ==
    ASSUME Undisturbed, TypeOK, Handed, ProgressFollows, OneDecides, [Next]_vars
    PROVE  OneDecides' /\ ClientStep
<1> USE DEF CancelStopsWithinOnePeriod, requestVars, jobVars, historyVars
<1>1. /\ run \in [Deliveries -> RunType] /\ row \in SessionType /\ told \in ToldType
      /\ \A d, e \in Deliveries : d = e
      /\ Jobs = {} /\ cleaner = "idle" /\ recovery.step = "idle"
  BY DEF TypeOK, Undisturbed, OneDelivery, ProgressFollows, OneDecides
\* Nothing that clients see changes.
<1>2. ASSUME UNCHANGED <<row, told>>
      PROVE  ClientStep
  BY <1>2 DEF ClientStep
<1>3. ASSUME UNCHANGED <<row, told, asked, overrun, recovery>>,
             request' \in {"created", "failing"} => row.status = "processing",
             request' # "accepted" => told = NothingTold,
             \A d \in Deliveries :
                \/ run'[d] = run[d]
                \/ run'[d].step = "lost"
                \/ run'[d].step \in Waiting /\ told = NothingTold /\ row.status = "processing"
      PROVE  OneDecides' /\ ClientStep
  <2>1. \A d \in Deliveries :
           /\ run'[d].step \in Waiting => told' = NothingTold
           /\ run'[d].step \in Waiting \cup Deciding => row'.status = "processing"
           /\ run'[d].step \in Waiting \cup Working => told'.status \notin Terminal
           /\ At(d, "cancel")' => row'.cancelRequested
           /\ At(d, "emitOutcome")' => row'.status = Outcome(d)'
           /\ At(d, "emitCancelled")' => row'.status = "cancelled"
    <3> SUFFICES ASSUME NEW d \in Deliveries
                 PROVE  /\ run'[d].step \in Waiting => told' = NothingTold
                        /\ run'[d].step \in Waiting \cup Deciding => row'.status = "processing"
                        /\ run'[d].step \in Waiting \cup Working => told'.status \notin Terminal
                        /\ At(d, "cancel")' => row'.cancelRequested
                        /\ At(d, "emitOutcome")' => row'.status = Outcome(d)'
                        /\ At(d, "emitCancelled")' => row'.status = "cancelled"
      OBVIOUS
    <3>1. CASE run'[d] = run[d]
      BY <1>3, <3>1 DEF OneDecides, At, Outcome, Bad
    <3>2. CASE run'[d].step = "lost"
      BY <3>2 DEF At, Waiting, Working, Deciding, Announcing
    <3>3. CASE run'[d].step \in Waiting /\ told = NothingTold /\ row.status = "processing"
      BY <1>3, <3>3 DEF At, Waiting, Working, Deciding, Announcing, NothingTold, Terminal
    <3> QED
      BY <1>3, <3>1, <3>2, <3>3
  <2>2. ToldMatchesRow' /\ overrun' = 0 /\ recovery'.step = "idle" /\ (asked' => row'.cancelRequested)
    BY <1>3 DEF OneDecides, ToldMatchesRow, ToldIsStored
  <2>3. /\ request' \in {"created", "failing"} => row'.status = "processing"
        /\ request' # "accepted" => told' = NothingTold
    BY <1>3
  <2> QED
    BY <1>2, <1>3, <2>1, <2>2, <2>3 DEF OneDecides
\* Before the request is accepted no run exists.
<1>4. ASSUME request' # "accepted", UNCHANGED <<told, asked, overrun, recovery>>, request # "accepted",
             UNCHANGED run, request' \in {"created", "failing"} => row'.status = "processing",
             asked => row'.cancelRequested, row'.completed \in 0..Total
      PROVE  OneDecides'
  <2>1. \A d \in Deliveries : run'[d].step = "unsent"
    BY <1>4 DEF Handed
  <2>2. told' = NothingTold
    BY <1>4 DEF OneDecides
  <2>3. ToldMatchesRow'
    BY <1>4, <2>2 DEF ToldMatchesRow, ToldIsStored, NothingTold, Terminal
  <2> QED
    BY <1>1, <1>4, <2>1, <2>2, <2>3
    DEF OneDecides, At, Waiting, Working, Deciding, Announcing, NothingTold, Terminal
<1>5. row.completed \in 0..Total /\ NoSession.completed \in 0..Total /\ CreateSession.completed = 0
      /\ 0 \in 0..Total
  BY <1>1, TotalAssumption DEF SessionType, NoSession, CreateSession
<1>6. CASE RequestStep
  <2>1. CASE SaveDocument \/ DispatchFails
    BY <1>3, <2>1 DEF SaveDocument, DispatchFails, OneDecides
  <2>2. CASE CreateRecord \/ RejectRequest
    <3>1. request = "saving" /\ row = NoSession /\ ~asked /\ UNCHANGED <<told, asked, overrun, recovery, run>>
      BY <2>2 DEF CreateRecord, RejectRequest, Handed
    <3>2. row' = CreateSession \/ (row' = row /\ request' = "rejected")
      BY <2>2 DEF CreateRecord, RejectRequest, Raises
    <3>3. row'.completed \in 0..Total /\ (request' \in {"created", "failing"} => row'.status = "processing")
      BY <1>5, <3>2 DEF CreateSession, NoSession
    <3>4. ClientStep
      BY <3>1, <3>2 DEF ClientStep, ClientStatus, ClientHeard, Exists, CreateSession, NoSession
    <3> QED
      BY <1>4, <2>2, <3>1, <3>3, <3>4 DEF CreateRecord, RejectRequest
  <2>3. CASE \E d \in Deliveries : Dispatch(d)
    <3>1. told = NothingTold /\ row.status = "processing" /\ request' = "accepted"
      BY <2>3 DEF Dispatch, OneDecides
    <3>2. \A d \in Deliveries : run'[d].step = "queued"
      BY <1>1, <2>3 DEF Dispatch, RunType
    <3> QED
      BY <1>3, <2>3, <3>1, <3>2 DEF Dispatch, Waiting
  <2>4. CASE RecordDispatchFailure
    <3> DEFINE failed == UpdateSession(row, "failed", 0, {}, {})
    <3>1. row.status = "processing" /\ (asked => row.cancelRequested)
      BY <2>4 DEF RecordDispatchFailure, OneDecides
    <3>2. failed.status = "failed" /\ failed.completed = 0
          /\ failed.cancelRequested = row.cancelRequested
      BY <1>1, <3>1, RowReports DEF Exists
    <3>3. row' = failed \/ row' = row
      BY <2>4 DEF RecordDispatchFailure, Raises
    <3> HIDE DEF failed
    <3>4. ClientStep
      BY <2>4, <3>1, <3>2, <3>3
      DEF RecordDispatchFailure, ClientStep, ClientStatus, ClientHeard, Exists, Terminal
    <3>5. row'.completed \in 0..Total /\ (asked => row'.cancelRequested)
      BY <1>5, <3>1, <3>2, <3>3
    <3> QED
      BY <1>4, <2>4, <3>4, <3>5 DEF RecordDispatchFailure
  <2> QED
    BY <1>6, <2>1, <2>2, <2>3, <2>4 DEF RequestStep
<1>7. CASE RequestCancel \/ RevokeTask
  BY <1>3, <1>7 DEF RequestCancel, RevokeTask, OneDecides
<1>8. CASE RecordCancel
  <2>1. UNCHANGED <<request, run, told, overrun, recovery>>
    BY <1>8 DEF RecordCancel
  <2>2. row' = RequestSessionCancel(row) \/ row' = row
    BY <1>8 DEF RecordCancel, Raises
  <2>3. /\ row'.status = row.status /\ row'.completed = row.completed
        /\ row'.cancelRequested = row.cancelRequested \/ (InProgress(row) /\ row'.cancelRequested = TRUE)
        /\ row.cancelRequested => row'.cancelRequested
    <3>1. \/ row' = [Stamped(row) EXCEPT !.cancelRequested = TRUE] /\ InProgress(row)
          \/ row' = row
      BY <2>2 DEF RequestSessionCancel
    <3> QED
      BY <1>1, <3>1 DEF SessionType, Stamped
  <2>4. asked' => row'.cancelRequested
    BY <1>8, <2>3 DEF RecordCancel, OneDecides
  <2>5. ClientStep
    BY <2>1, <2>3 DEF ClientStep, ClientStatus, ClientHeard, Exists, InProgress
  <2>6. OneDecides'
    BY <2>1, <2>3, <2>4 DEF OneDecides, ToldMatchesRow, ToldIsStored, At, Outcome, Bad
  <2> QED
    BY <2>5, <2>6
<1>9. ASSUME NEW d \in Deliveries,
             StartRun(d) \/ DiscardRevoked(d) \/ Redeliver(d) \/ WorkerCrash(d)
      PROVE  OneDecides' /\ ClientStep
  <2>1. /\ UNCHANGED <<row, told, asked, overrun, recovery, request>>
        /\ \A e \in Deliveries : e = d
    BY <1>1, <1>9 DEF StartRun, DiscardRevoked, Redeliver, WorkerCrash
  <2>2. run'[d].step = "lost" \/ (run[d].step = "queued" /\ run'[d].step \in Waiting)
    BY <1>1, <1>9 DEF StartRun, DiscardRevoked, Redeliver, WorkerCrash, Goto, At, RunType, Waiting
  <2>3. run[d].step = "queued" => told = NothingTold /\ row.status = "processing"
    BY DEF OneDecides, Waiting
  <2> QED
    BY <1>3, <2>1, <2>2, <2>3 DEF OneDecides
<1>10. CASE ApiCrash
  <2>1. \A d \in Deliveries : run'[d] = run[d] \/ run'[d].step = "lost"
    BY <1>1, <1>10 DEF ApiCrash, RunType
  <2>2. /\ UNCHANGED <<row, told, asked, overrun, recovery>>
        /\ request' = "accepted" \/ ((request' = request \/ request' = "crashed") /\ request # "accepted")
    BY <1>10 DEF ApiCrash
  <2> QED
    BY <1>3, <2>1, <2>2 DEF OneDecides
<1>11. ~HeartbeatExpires /\ ~RowAges /\ ~RecoveryStep /\ ~RecoveryAborts /\ ~CleanerFind /\ ~CleanerDelete
  BY <1>1 DEF HeartbeatExpires, RowAges, RecoveryStep, RecoveryFind, RecoverySelect, RecoveryCommit,
     RecoveryAnnounce, RecoveryAborts, CleanerFind, CleanerDelete
<1>12. CASE UNCHANGED vars
  BY <1>3, <1>12 DEF vars, OneDecides
<1>13. ASSUME NEW d \in Deliveries, RunStep(d)
       PROVE  OneDecides' /\ ClientStep
  BY <1>13, RunStepDecides DEF Undisturbed
<1> QED
  BY <1>6, <1>7, <1>8, <1>9, <1>10, <1>11, <1>12, <1>13 DEF Next, CancelStep

LEMMA AlwaysDecides ==
    ASSUME Undisturbed
    PROVE  Spec => [](TypeOK /\ Handed /\ ProgressFollows /\ OneDecides)
<1>1. OneDelivery /\ "cleanup" \notin Jobs
  BY DEF Undisturbed
<1>2. Init => OneDecides
  BY TotalAssumption DEF Init, OneDecides, IdleRecovery, Unsent, Waiting, Working, Deciding, Announcing,
     At, NothingTold, NoSession, ToldMatchesRow, ToldIsStored, CancelStopsWithinOnePeriod, Terminal
<1>3. TypeOK /\ Handed /\ ProgressFollows /\ OneDecides /\ [Next]_vars => OneDecides'
  BY NextDecides
<1> QED
  BY <1>1, <1>2, <1>3, AlwaysProgress, PTL DEF Spec

\* Whatever is lost or raises: clients are told of no outcome and of no progress
\* that the row does not hold, if nothing but one run works on the session.
THEOREM EventsMatchRow == ASSUME Undisturbed PROVE Spec => []ToldMatchesRow
<1>1. OneDecides => ToldMatchesRow
  BY DEF OneDecides
<1> QED
  BY <1>1, AlwaysDecides, PTL

\* Under the same conditions a run begins no period after the cancellation was
\* recorded (_maybe_cancel_multi_analysis).
THEOREM CancelStopsRun == ASSUME Undisturbed PROVE Spec => []CancelStopsWithinOnePeriod
<1>1. OneDecides => CancelStopsWithinOnePeriod
  BY DEF OneDecides
<1> QED
  BY <1>1, AlwaysDecides, PTL

\* A session that nothing but one run works on keeps the contract of AnalysisContract:
\* one outcome, cancelled only on request, told only as stored.
THEOREM SessionImplementsContract == ASSUME Undisturbed PROVE Spec => KeepsContract
<1>1. Init => Contract!Init
  BY DEF Init, Contract!Init, ClientStatus, ClientHeard, Exists, NoSession, Terminal
<1>2. TypeOK /\ Handed /\ ProgressFollows /\ OneDecides /\ [Next]_vars => [Contract!Next]_(Contract!vars)
  BY NextDecides, ContractAllows
<1> QED
  BY <1>1, <1>2, AlwaysDecides, PTL DEF Spec, KeepsContract, Contract!Spec
=============================================================================
