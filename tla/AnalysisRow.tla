----------------------------- MODULE AnalysisRow -----------------------------
(***************************************************************************)
(* The row of the analyses table that one upload owns, and what each       *)
(* function of src/src/db/crud.py does to it.  Every operator is the       *)
(* committed effect of one database transaction; the processes that issue  *)
(* the transactions are in AnalysisLifecycle.                              *)
(*                                                                         *)
(* The JSON column "result" is represented by the set of its keys that     *)
(* hold a value: a Python merge {**a, **b} is then a union.  The clock is  *)
(* represented by the two comparisons the code makes with it: whether      *)
(* coalesce(runtime_heartbeat_at, created_at) is older than the recovery   *)
(* cutoff ("stale"), and whether created_at is older than the cleanup      *)
(* cutoff ("old").                                                         *)
(***************************************************************************)

InProgress == {"uploading", "processing"}
Terminal   == {"completed", "failed", "cancelled"}

ResultKeys == {"filename", "data", "error", "reason_code"}

RowType == [status          : InProgress \cup Terminal \cup {"absent"},
            result          : SUBSET ResultKeys,
            cancelRequested : BOOLEAN,   \* cancel_requested_at is not null
            completedAt     : BOOLEAN,   \* completed_at is not null
            stale           : BOOLEAN,
            old             : BOOLEAN]

NoRow == [status |-> "absent", result |-> {}, cancelRequested |-> FALSE,
          completedAt |-> FALSE, stale |-> FALSE, old |-> FALSE]

Exists(r) == r.status # "absent"

CancelledPayload == {"error", "reason_code"}
FailedPayload    == {"error"}
ExpiredPayload   == {"error", "reason_code"}

\* A row is inserted with the current time in created_at.
CreateAnalysis(result) ==
    [NoRow EXCEPT !.status = "processing", !.result = result]

\* _apply_analysis_summary_fields: status and result are written whatever they
\* were, completed_at is recomputed from the new status (and is null for a row
\* without a result).
ApplySummary(r, status, result) ==
    [r EXCEPT !.status = status,
              !.result = result,
              !.completedAt = (status = "completed")]

\* Mutant: the new result is merged into the old one.
UpdateAnalysisMerging(r, status, result) ==
    IF Exists(r) THEN ApplySummary(r, status, r.result \cup result) ELSE r

\* update_analysis looks only at whether the row exists, never at its status.
UpdateAnalysis(r, status, result) ==
    IF Exists(r) THEN ApplySummary(r, status, result) ELSE r

RequestAnalysisCancel(r) ==
    IF r.status \in InProgress THEN [r EXCEPT !.cancelRequested = TRUE] ELSE r

\* Mutants: the wrong half of the in-progress statuses; "or" for "and".
IsCancellationPendingUploading(r) == r.cancelRequested /\ r.status = "uploading"
IsCancellationPendingEither(r) == r.cancelRequested \/ r.status \notin InProgress

IsCancellationPending(r) == r.cancelRequested /\ r.status \in InProgress

MarkAnalysisCancelled(r) ==
    IF Exists(r)
    THEN [ApplySummary(r, "cancelled", r.result \cup CancelledPayload)
             EXCEPT !.cancelRequested = TRUE, !.stale = FALSE]
    ELSE r

TouchHeartbeat(r) ==
    IF r.status \in InProgress THEN [r EXCEPT !.stale = FALSE] ELSE r

\* Mutant: the wrong half of the in-progress statuses.
IsRuntimeStaleUploading(r) == r.status = "uploading" /\ r.stale

IsRuntimeStale(r) == r.status \in InProgress /\ r.stale

\* The second transaction of mark_stale_analyses_failed writes over whatever
\* the row has become since its SELECT returned "loaded".  The UPDATE names
\* only the columns that differ from the SELECT, so completed_at, null then
\* and null now, is left as it is.
MarkStaleFailed(r, loaded) ==
    [r EXCEPT !.status = "failed",
              !.result = loaded \cup ExpiredPayload,
              !.stale = FALSE]

IsCleanupCandidate(r) == r.status \in InProgress /\ r.old
=============================================================================
