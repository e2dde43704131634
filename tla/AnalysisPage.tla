---------------------------- MODULE AnalysisPage ----------------------------
(***************************************************************************)
(* What the browser keeps of the analysis on the dashboard: the React      *)
(* state and refs of AnalysisProvider (frontend/src/context/               *)
(* AnalysisContext.tsx) and the refs and effect of the Dashboard page      *)
(* (frontend/src/pages/Dashboard.tsx), as a record with one operator per   *)
(* update.  Documents stand for the file a user drops and for the analysis *)
(* the server makes of it.                                                 *)
(***************************************************************************)
CONSTANT Docs       \* the documents the user analyses, each once

ASSUME NoDocAssumption == "none" \notin Docs

PageType ==
    [ status    : {"idle", "uploading", "processing", "completed", "failed"},
      shown     : Docs \cup {"none"},   \* result: whose report is displayed
      file      : Docs \cup {"none"},   \* filename
      active    : Docs \cup {"none"},   \* activeTaskId
      error     : BOOLEAN,
      cancelled : BOOLEAN,              \* cancelledRef
      timer     : Docs \cup {"none"},   \* timeoutId: whose poll was scheduled last
      saved     : BOOLEAN,              \* savedRef of the dashboard
      history   : SUBSET [file : Docs, doc : Docs] ]

FreshPage ==
    [ status |-> "idle", shown |-> "none", file |-> "none", active |-> "none",
      error |-> FALSE, cancelled |-> FALSE, timer |-> "none", saved |-> FALSE,
      history |-> {} ]

Pending(p) == p.status \in {"uploading", "processing"}

\* The dashboard offers its drop zone: no report, nothing pending.
OffersUpload(p) == p.shown = "none" /\ ~Pending(p)

\* The buttons that call reset: one under a report or a pending analysis, and
\* one on an error message, which a report hides.
OffersNewAnalysis(p) == p.shown # "none" \/ Pending(p)
OffersDismissal(p)   == p.shown = "none" /\ p.error

\* The effect of the dashboard: a report with a file name is saved once for
\* each life of savedRef.
SaveEffect(p) ==
    IF p.shown # "none" /\ p.file # "none" /\ ~p.saved
    THEN [p EXCEPT !.history = @ \cup {[file |-> p.file, doc |-> p.shown]},
                   !.saved = TRUE]
    ELSE p

Analyzing(p, d) ==
    [p EXCEPT !.file = d, !.status = "uploading", !.error = FALSE,
              !.shown = "none", !.cancelled = FALSE, !.saved = FALSE]

UploadAccepted(p, d) == [p EXCEPT !.active = d, !.status = "processing", !.timer = d]

Completed(p, d) == SaveEffect([p EXCEPT !.shown = d, !.status = "completed"])

Failed(p) == [p EXCEPT !.error = TRUE, !.status = "failed"]

\* Dismissing the error message leaves savedRef as it is; the other buttons clear it.
Reset(p, dismissal) ==
    [p EXCEPT !.cancelled = TRUE, !.active = "none", !.status = "idle",
              !.shown = "none", !.file = "none", !.error = FALSE,
              !.saved = dismissal /\ @]

\* useAnalysisSocket runs its effect again when one of these two changes, and
\* connects when the second is true and the first a task.
HookInputs(p) == <<p.active, p.status = "processing">>
=============================================================================
