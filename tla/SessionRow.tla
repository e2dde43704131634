----------------------------- MODULE SessionRow -----------------------------
(***************************************************************************)
(* The row of multi_analysis_sessions that one multi-period request owns,  *)
(* and what each function of src/src/db/crud.py does to it: every operator *)
(* is the committed effect of one transaction.                             *)
(*                                                                         *)
(* The JSON column "progress" is represented by its count of completed     *)
(* periods, and "result" by the periods it lists: those with figures and   *)
(* those with an error entry.  The clock is represented by the comparisons *)
(* the code makes with it: coalesce(runtime_heartbeat_at, updated_at) with *)
(* the recovery cutoff ("stale") and updated_at with the cleanup cutoff    *)
(* ("old").                                                                *)
(***************************************************************************)
EXTENDS Integers

CONSTANT Total   \* the number of documents of the request

ASSUME TotalAssumption == Total \in 1..5

Periods  == 1..Total
Terminal == {"completed", "failed", "cancelled"}

SessionType == [status          : {"absent", "processing"} \cup Terminal,
                completed       : 0..Total,
                good            : SUBSET Periods,   \* listed with figures
                bad             : SUBSET Periods,   \* listed with an error
                cancelRequested : BOOLEAN,   \* cancel_requested_at is not null
                beaten          : BOOLEAN,   \* runtime_heartbeat_at is not null
                stale           : BOOLEAN,
                old             : BOOLEAN]

NoSession == [status |-> "absent", completed |-> 0, good |-> {}, bad |-> {},
              cancelRequested |-> FALSE, beaten |-> FALSE,
              stale |-> FALSE, old |-> FALSE]

Exists(r)     == r.status # "absent"
InProgress(r) == r.status = "processing"
Listed(r)     == r.good \cup r.bad

CreateSession == [NoSession EXCEPT !.status = "processing"]

\* updated_at moves to now; the recovery job looks at it only while there has
\* been no heartbeat.
Stamped(r)  == [r EXCEPT !.old = FALSE, !.stale = @ /\ r.beaten]
Beating(r) == [r EXCEPT !.old = FALSE, !.stale = FALSE, !.beaten = TRUE]

\* {**old, **new}: a payload with periods replaces the list, one without keeps it.
MergePeriods(r, good, bad) ==
    IF good \cup bad = {} THEN r ELSE [r EXCEPT !.good = good, !.bad = bad]

\* update_multi_session never looks at the status it replaces.
UpdateSession(r, status, completed, good, bad) ==
    IF Exists(r)
    THEN [Stamped(MergePeriods(r, good, bad))
             EXCEPT !.status = status, !.completed = completed]
    ELSE r

RequestSessionCancel(r) ==
    IF InProgress(r) /\ ~r.cancelRequested
    THEN [Stamped(r) EXCEPT !.cancelRequested = TRUE]
    ELSE r

IsSessionCancelPending(r) == r.cancelRequested /\ InProgress(r)

\* Mutant: the periods of a cancelled session are not stored.
MarkSessionCancelledBare(r, completed, good, bad) ==
    IF Exists(r)
    THEN [Beating(r) EXCEPT !.status = "cancelled", !.completed = completed,
                            !.cancelRequested = TRUE]
    ELSE r

MarkSessionCancelled(r, completed, good, bad) ==
    IF Exists(r)
    THEN [Beating(MergePeriods(r, good, bad))
             EXCEPT !.status = "cancelled", !.completed = completed,
                    !.cancelRequested = TRUE]
    ELSE r

TouchSession(r) == IF InProgress(r) THEN Beating(r) ELSE r

\* Mutant: sessions that never had a heartbeat are left alone.
IsSessionStaleBeaten(r) == InProgress(r) /\ r.stale /\ r.beaten

IsSessionStale(r) == InProgress(r) /\ r.stale

\* The UPDATE of mark_stale_multi_sessions_failed writes over whatever the row
\* has become since its SELECT; its payload lists no periods, and the merge is
\* with the result the SELECT returned, so the list loaded then is written back.
MarkStaleSessionFailed(r, loaded) ==
    [Beating(r) EXCEPT !.status = "failed",
                       !.good = loaded.good, !.bad = loaded.bad]

IsSessionCleanupCandidate(r) == InProgress(r) /\ r.old
=============================================================================
