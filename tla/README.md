# Verification of NeoFin AI

TLA+ modules for the parts of NeoFin AI whose correctness depends on order,
failure and concurrency, and for the decisions by which it turns a document into
figures, ratios and a score. They are checked with TLC on small instances and,
where a theorem is listed, proved with TLAPS for every value of the constants. Source
paths are relative to the repository root.

## 1. The system

NeoFin AI accepts a PDF with financial statements, extracts metrics, computes
ratios and a score, asks an LLM for commentary, stores the outcome and tells
the browser about the progress. A second API does the same for several periods.

| component | code | state | operations |
|---|---|---|---|
| single-document API | `src/routers/pdf_tasks.py` | none of its own; the steps of each request | `POST /upload`, `GET /result/{id}`, `DELETE /cancel/{id}` |
| multi-period API | `src/routers/multi_analysis.py` | steps of each request, temporary files | create, status, cancel |
| orchestrator | `src/tasks.py` | program counter of `process_pdf` / `process_multi_analysis` | phases extracting, scoring, analyzing, finalisation, failure handler, `finally` |
| persistence | `src/db/crud.py`, `models.py`, `database.py` | tables `analyses`, `multi_analysis_sessions` | one transaction per function |
| task runtime | `src/core/task_queue.py` | FastAPI background tasks, or Celery queue and worker loop | dispatch, revoke, run |
| runtime events | `src/core/runtime_events.py` | Redis channel, listener task | publish, relay |
| WebSockets | `src/core/ws_manager.py`, `src/routers/websocket.py` | sets of sockets by task | connect, disconnect, broadcast |
| maintenance | `src/maintenance/` | steps of the recovery and the cleanup job | mark stale rows failed, delete stale rows |
| AI service | `src/core/ai_service.py`, `*_agent.py`, `src/utils/circuit_breaker.py`, `retry_utils.py` | provider sessions, GigaChat token, breaker state | invoke with retry and timeout, record success or failure |
| upload storage | `src/utils/upload_validation.py`, `file_utils.py` | temporary files | validate, save, remove |
| reading of a PDF | readers of `src/analysis/extractor/legacy_helpers.py`, `ocr.py`, `tables.py`, `pdf_extractor.py` | threads, globals of `legacy_helpers` swapped for a call, Camelot executors | text layer, OCR page by page, tables with fallbacks |
| extraction of figures | `src/analysis/extractor/`, `llm_extractor.py`, `issuer_fallback.py`, `tasks.py:696-813` | the candidates and metadata of one document | candidates, ranking, sanity checks, derivation, confidence, merge with the model, overrides, filter, regular expressions |
| math engine | `src/analysis/math/`, `ratios.py` | none (pure) | validation, average balances, denominators, reasons, linking of periods |
| scoring | `src/analysis/scoring.py` | none (pure) | methodology, weights, guardrails, risk level |
| NLP | `src/analysis/nlp_analysis.py`, `recommendations.py` | none | prompts and parsing of answers |
| page of an analysis | `frontend/src/context/AnalysisContext.tsx`, `pages/Dashboard.tsx`, `hooks/useAnalysisSocket.ts` | React state and refs, polling timers, sockets, local history | upload, poll, listen, reset |
| cross-cutting | `auth`, `masking`, `logging_config`, `settings`, migrations, scripts | - | - |

They interact through the database row (written by the API, the run and the
maintenance jobs), the temporary PDF (created by the request, removed by the
run or by the failing request), the queue (request to run), the event channel
(run and recovery job to WebSocket clients) and the revocation broadcast
(cancel request to workers).

### What is hard

* several writers of one row, none of which looks at the status it replaces:
  `update_analysis`, `mark_analysis_cancelled`, the recovery job;
* read at one await, act at a later one: cancellation checkpoints, the two
  transactions of each maintenance job, socket sets iterated across awaits;
* exceptions after the commit (refresh, broadcast) that reach the failure
  handler, which writes another outcome;
* Celery deliveries that are repeated, revoked or lost with a worker;
* crashes of the API or a worker, after which only the recovery job can settle
  the row and nobody removes the file;
* a circuit breaker shared by concurrent calls, where late answers count in the
  state they find and not in the one they were sent in;
* browser state fed by polling and by WebSocket messages at once;
* reader threads of different documents that swap the same module globals
  without a lock, and table reads that outlive their timeout;
* a dozen passes that propose figures for one metric, then sanity checks,
  derivations, guardrails, a language model, an issuer table, a filter and
  regular expressions, each of which may replace what another one decided;
* reasons and refusals of the math layer that must fit together, or the last step
  of a session raises; periods that repeat, are missing or cannot be read;
* printed amounts whose groups, decimals, signs and columns look alike.

`PROJECT.json` lists each hazard at its line with the properties that cover it.

### What makes each component correct

* analysis: one outcome, final, written before it is announced; cancelled only
  on request; result fits status; the file lives exactly as long as the run;
  every accepted analysis is settled in the end.
* maintenance: fails or deletes only what is abandoned; never touches history.
* sessions: progress counts what was done, every period is listed once, a
  session is settled with the status its periods deserve.
* events and sockets: no message to a client of another task, no client lost
  because another one fails, disconnected sockets are forgotten.
* AI service: calls stop while the breaker is open, start again after the
  timeout, a working provider is not shut off for ever.
* reading: a document has one reader at a time and is read to the end, and OCR
  never calls itself.
* printed amounts: the first amount of a row is taken, whole, with its sign; the
  reader of the model's answers agrees with the reader of documents.
* figures: the strongest candidate wins whatever order the passes come in; sums
  and margins that cannot be are dropped; a trusted reading is never replaced by
  one of another order of magnitude; a known issuer is right.
* ratios and scores: an average is over two adjacent balances and nothing else, the
  order of uploads does not matter, no metric leaves without a primary reason,
  and no level of risk is better than what is known allows.
* frontend: the status shown is of the task shown; polling stops at an outcome.

## 2. The modules

| module | models | extends |
|---|---|---|
| `AnalysisRow` | one row of `analyses`: the functions of `crud.py` that write it, as functions from record to record | - |
| `AnalysisLifecycle` | upload and cancel handlers, task runtime, `process_pdf`, recovery and cleanup job, crashes | `AnalysisRow` |
| `AnalysisContract` | what a client may rely on: accepted, at most one outcome, cancelled only on request, told what is stored | - |
| `SessionRow` | one row of `multi_analysis_sessions` | - |
| `MultiSession` | the multi-period API, `process_multi_analysis`, the session halves of the jobs | `SessionRow` |
| `CircuitBreaker` | the breaker of one provider, as functions from record to record | - |
| `AIService` | `AIService.invoke`, its retries and timeouts, what agents make of a failing provider, callers with a deadline | `CircuitBreaker` |
| `AnalysisPage` | state, refs and effects of the React page of an analysis, as functions from record to record | - |
| `LiveUpdates` | how an outcome reaches that page: event channel, relay, connection manager, sockets, polling | `AnalysisPage` |
| `PdfReading` | the threads that read documents: text layer, OCR, Camelot, the swapped globals | - |
| `PrintedAmounts` | how the amounts of a printed row, or of an answer of the model, become numbers | - |
| `Evidence` | ranking of candidates, confidence policy, states of metadata, decisions between two readings | - |
| `FigureExtraction` | the extraction of the figures of one document, pass by pass | `Evidence` |
| `Ratios` | the math layer: ratios of one set of figures, linking of periods | - |
| `Scoring` | methodology, weighted score, caps, level of risk of one document | `Ratios` |
| `PeriodScores` | the periods of a session: read, compared, scored, sorted | `Scoring` |
| `*_proofs` | the theorems about the module they are named after | that module, `TLAPS` |
| `MC*` | constants for TLC | that module |

`AnalysisLifecycle` and `MultiSession` are both shown to implement
`AnalysisContract` (`KeepsContract`). `LiveUpdates` stands on the other side of
that contract: its run only accepts, settles and publishes, and what matters is
what the relay and the browser make of it.

The other modules open up what `AnalysisLifecycle` treats as the body of a phase
(and `MultiSession` as the reading of one period):
`PdfReading` gives text and tables, `PrintedAmounts` the numbers in their rows,
`FigureExtraction` the figures, `Ratios` and `Scoring` what is made of them;
`PeriodScores` does it for all periods of a session. They are separate state
machines because they share nothing with the rows, events and files but their
beginning and their end: a phase that fails there is `FinishPhase` with an
exception here.

The **grain** is the `await`: an action is the code of one process between two
awaits that touch shared state. A function of `crud.py` is one transaction and
one action, except where the code itself uses two (the jobs, and the
`SELECT ... UPDATE` of the recovery job, which the ORM sends as two statements
without a lock). In the modules of a document an action is one pass, one chunk or one
page. Formatting and logging are left out; figures and texts appear where a
decision depends on them.

### AnalysisLifecycle

State: `row` (status, cancel flag, keys of the result, whether heartbeat and
age have passed their limits), `file` (the temporary PDF), `upload` and
`canceller` (where the two requests are), `inbox`, `deliveries`, `revoked` (the
queue), `worker` (a program counter for `process_pdf`: step, task, phase,
remembered filename), `recovery`, `cleaner`, `told` (last event sent) and two
history variables.

| code | actions |
|---|---|
| `upload_pdf` | `SaveUpload`, `CreateRecord`, `RejectUpload`, `Dispatch`, `DispatchFails`, `RecordDispatchFailure` |
| `cancel_analysis` | `RequestCancel`, `RecordCancel`, `RevokeTask` |
| `run_pdf_task`, Celery | `StartWork`, `DiscardRevoked`, `Redeliver`, `WorkerCrash`, `ApiCrash` |
| `_ensure_analysis_exists` | `EnsureExists`, `CreateMissing`, `AdoptExisting` |
| `_checkpoint_analysis_phase` | `TouchRuntime`, `CheckCancel`, `BeginPhase` |
| phases | `FinishPhase` |
| `_finalize_task` | `CommitResult`, `AnnounceCompleted` |
| `_finalize_analysis_cancellation` | `CommitCancellation`, `AnnounceCancelled` |
| `_handle_task_failure`, `finally` | `CommitFailure`, `AnnounceFailed`, `CleanupTempFile` |
| `mark_stale_analyses_failed` | `RecoveryFind`, `RecoverySelect`, `RecoveryCommit`, `RecoveryAnnounce`, `RecoveryAborts` |
| `cleanup_analyses` | `CleanerFind`, `CleanerDelete` |
| the clock | `HeartbeatExpires`, `RowAges` |

### MultiSession

The same skeleton for one session: sessions share nothing, so the concurrent
actors are the deliveries of one message. The row holds the progress and the
periods listed as good or bad; a run holds how many periods it has done and
which of them failed. `process_multi_analysis` has a `finally` but no `except`:
`Transaction` and `Broadcast` send an exception straight to the removal of the
files, and the row stays as it is.

### CircuitBreaker, AIService

The breaker is a record (`state`, `failures`, `lastFailure`); each method is an
operator, because a method never waits while it holds the lock. `AIService` has
callers that begin a call if the breaker lets them, attempts that are answered,
time out and are retried, and the two ways a call ends without the breaker
learning of a failure: the agent returns `None` for a refused request
(`AnswerNothing`, recorded as a success), and a caller's own deadline cancels
the call (`Abandon`, nothing recorded). An attempt that was under way while the
provider hung is "stuck": it may time out, or still be answered, long after the
provider has come back.

### AnalysisPage, LiveUpdates

`AnalysisPage` is `AnalysisProvider` and the dashboard's save effect: one
record, one operator per update (`Analyzing`, `UploadAccepted`, `Completed`,
`Failed`, `Reset`). In `LiveUpdates`:

| code | actions |
|---|---|
| `analyze`, `poll` of `AnalysisContext.tsx` | `StartAnalysis`, `UploadDone`, `UploadFails`, `TimerFires`, `ReadResult`, `TakeAnswer` |
| the buttons that call `reset` | `PressReset` |
| `useAnalysisSocket.ts` | `SocketEffect` (part of every change of the page), `SocketClosed`, `Reconnect`, `SocketMessage` |
| `ws_manager.py`, `websocket.py` | `SocketOpens`, `SendNext`, `BroadcastRaises`, `EndBroadcast`, `NoticeDisconnect` |
| `runtime_events.py` | `PublishOutcome`, `BeginBroadcast`, `ListenerDies` |
| the run and `GET /result` | `AcceptUpload`, `SettleRun`, `ReadResult` |

The broadcast iterates over the live set of sockets with an `await` per socket.
`SetChanged` is the look Python takes at the size of that set before each step.
When the last socket leaves, the entry of the task is deleted and a later client
gets a new set, which the broadcast under way does not see (`orphan`).
`overtaken` is a history variable, which no action reads: the documents of whose
analysis something was under way when the user dropped another file.

### PdfReading

State: `doc` (kind of text layer, pages, whether `pdf2image` takes a page range),
`pc` (where the thread of each document is), `global` and `found` (the swapped
name and what a reader found there), `calls` (the OCR functions active in a
thread), `camelot` (table reads running), `page`, `enough`, `got`.

| code | actions |
|---|---|
| `is_scanned_pdf`, `extract_text` | `Check`, `ReadTextLayer` |
| `_patched_legacy` | `FindBinding`, `SetBinding`, `PutBack` |
| `extract_text_from_scanned`, facade and original | `EnterOcr`, `CallBody`, `CallOriginal`, `OcrPage`, `OcrOver` |
| `extract_tables` and its executor | `StartCamelot`, `CamelotAnswers`, `CamelotTimesOut`, `CamelotReturnsLate` |

### PrintedAmounts

An amount is a sign, a currency mark and runs of digits with marks between them;
a row is written in one style and read once: from cells (`ReadCells`), from a
line of text (`ReadText`), from a line of OCR (`ReadOcr`), or quoted by the model
(`ReadAnswer`). What the code does with patterns is said of runs: which of them a
pattern joins, where it starts anew, which candidate is preferred. Written
and read amounts are compared by meaning.

### Evidence, FigureExtraction

State: `doc` (the flags of `DocumentSignals`), `stage` (the pass that comes next),
`raw` (the best candidate of each metric), `codes` (what stood at the line codes
of profit and loss), `parsed`, `best`, `meta` (metadata of the parser, of the
model, in force), `chunk`, `figures`; `seen` and `cells` are kept for the
properties and the bound. What a pass finds in a document is its input: a
*sighting* of a metric and a value under a kind of label.

| code | actions |
|---|---|
| passes over tables, heading totals | `TableCell`, `CollectHeadingTotals` |
| passes over text: line codes, keywords, broad patterns | `CollectText`, `CollectFormCodes` |
| totals of a balance sheet, section of profit and loss with `_apply_form_like_pnl_sanity` | `CollectBalanceTotals`, `CollectProfitSection` |
| `derive_missing_metrics` | `DeriveMissing` |
| `build_metadata_from_candidate`, `apply_result_guardrails` | `BuildMetadata` |
| `extract_with_llm`, `_merge_llm_with_fallback` | `SkipLlm`, `ChunkAnswered`, `AskAgain`, `ChunkLost`, `MergeLlm` |
| `apply_issuer_metric_overrides` | `ApplyOverrides` |
| `apply_confidence_filter` | `ApplyFilter` |
| `_apply_regex_fallback` | `Scrape` |

`raw_set`, the confidence policy and `should_prefer_llm_metric` are operators of
`Evidence`; confidence is counted in percent.

### Ratios, Scoring, PeriodScores

A ratio is counted in ten-thousandths, which is the precision the code rounds to,
half to even; a score in hundredths; a weight in percent. A metric is a value or
a state with its ordered reasons. `PeriodScores` is the loop of
`process_multi_analysis` seen from the data: `ReadPeriod`, `FailPeriod`,
`Assemble`, `CancelSession`. `ScoreOfDocument` is the score of a single analysis.

`PrintedAmounts`, `PeriodScores` and the operators of `Evidence` and
`FigureExtraction` that decide about candidates and metadata were also run beside
the Python functions they model, over the states of the runs and over grids of
inputs: the numbers, states, reasons, scores and levels are the same.

## 3. What the runs check

| run | instance | shows |
|---|---|---|
| `AnalysisCelery` | 2 tasks, 1 worker, Celery, one delivery, no jobs; database, broadcast, document, crash, dispatch and revoke faults | types; one party at a time decides an outcome (`OneDecides`); a cancellation lets at most one more phase begin (`CancelStopsWithinOnePhase`); `AnalysisContract` is implemented: accepted first, one outcome, told as stored |
| `AnalysisSelfHealing` | 1 task, background mode, recovery job; database, refresh, broadcast, document and crash faults; fair | whoever wrote last, the result fits the status (`OutcomeMatchesResult`); the file is there for extraction and gone when request and run are over (`FileLivesWithRun`); no analysis stays in progress for ever |
| `AnalysisMaintenance` | 1 task, 2 workers, 2 deliveries, both jobs, crashes | two runs share a row: still nothing is cancelled unasked, and cleanup deletes no finished row, however old |
| `AnalysisRecoveryRace` | 1 task, recovery job, no fault | **violated**: the recovery job fails a row that finished between its `SELECT` and its `COMMIT` |
| `SessionBackground` | 3 periods, background mode; database, refresh, document, timeout, broadcast faults and crashes | outcome, progress, listed periods, events and files agree; no period begins after a cancellation was recorded; `AnalysisContract` is implemented |
| `SessionSelfHealing` | 1 period, 2 deliveries, Celery, both jobs; crash, dispatch, revoke faults, failing job; fair | a session is settled in the end, and none that is finished or alive is deleted |
| `BreakerCalls` | 3 callers, one impatient, threshold 2, 1 retry, provider may hang, refuse and recover; fair | the breaker is consistent, quiet after a failure, left in the end; a silent provider is shut off, one that stays up is used |
| `LiveUpdates` | 2 documents, 2 polls, 1 reconnection; network, upload, socket, publish and listener faults; a user who waits; fair | the page shows an outcome the run has; polling alone settles the page; one dead client costs no other the message |
| `PdfReading` | 2 documents of every kind read at once, at most 3 pages; OCR and Camelot fail, stop early or come late; fair | OCR never reenters itself through the swapped name (`OcrNeverReenters`), one reader per document even after a timeout (`OneReadPerDocument`), every document is read to the end |
| `PrintedAmounts` | rows of up to 3 of 15 amounts in 8 styles, read three ways; every quote of up to 3 runs, one of 18 digits | the first amount is read whole (`FirstPeriodIsRead`); where both readers make a number, it is the same but for one separator before three digits (`ReadersAgree`) |
| `Figures` | every kind of document; 22 sightings, 2 of them in tables, any set of them in the text; 2 chunks, 3 answers, a known issuer, 3 scraped figures | types and valid states; the strongest candidate is kept (`StrongestWins`); profit fits revenue, the balance adds up, a known issuer is right, a trusted reading holds |
| `PeriodScores` | up to 3 periods with 5 labels and 5 documents, failures, cancellation | averages are over adjacent years (`AveragesAreAdjacent`), order of uploads does not matter, the emission guard never raises, a level of risk is earned |

Liveness of a queued analysis needs no run of its own: `EventuallySettled` is
checked in background mode for an analysis and with the Celery queue for a
session, and both go through the same functions of `task_queue.py`. The type
invariants of the other modules hold too; they are defined for the
proofs and, being the least of what is checked, in no configuration.

### Bounds, and why they are enough

* Tasks share only workers and the batches of the jobs, so two tasks on one
  worker (`AnalysisCelery`) and two runs on one task (`AnalysisMaintenance`)
  cover the two ways runs can meet; what is proved holds for any number.
* `MaxDeliveries` 2: a third delivery meets nothing the second does not. Each
  run passes at most four phases, so nothing else is cut off.
* `Total` 3 periods: a first, a middle and a last one, with every subset of them
  bad; `Total` 1 where the second delivery is the subject, since a delivery
  resets the progress whatever it was.
* `overrun` counts to 2, more than the properties allow. The failure count of
  the breaker stops at `Threshold`, beyond which `record_failure` makes no
  difference. `MaxRetries` 1 has a first, a repeated and a last attempt.
* `MaxPolls` is 600 in the code and `MAX_RECONNECT_ATTEMPTS` is 3; with 2 and 1
  the limits are reached, which is the interesting case. `MaxSockets` 2 bounds the sockets
  of one task: a first one and one opened again. In the code a counter that is
  reset by every successful connection allows any number.
* `PdfReading`: `MaxOcrPages` is 50 in the code and OCR may stop after 5 pages; 2 and 1
  with documents of up to 3 pages reach both limits and go past the first. Two
  documents are enough for a name found swapped by somebody else; a third
  finds the same two values of it.
* `Figures`: two sightings in tables meet in every order, and the text passes
  bring further candidates of the same metric, up to six. `Largest` is 1e6 instead of
  1e13, since TLC counts in 32 bits, and no sighting is near either. Receivables are
  left out, being treated like the inventory, and so are metrics that only
  pass through. Two chunks can contradict each other.
* `PeriodScores`: three periods are a year, the year before and one that may
  repeat either. The five documents lie on both sides of the guards: sound, weak, negative,
  without a balance sheet, with figures of another scale.
* `PrintedAmounts`: three columns are two periods and what stands before them.
  Fifteen amounts have one to six groups, a first group of one to four digits,
  decimals, a sign, or the look of a note or a year, which is written with and without
  a space. One has more than the sixteen digits that are read. The theorem knows no such
  bounds.
* The clock appears as the comparisons made with it: a heartbeat or an age
  becomes stale, the timeout of the breaker or of a session elapses, in any
  state the code could see that. It never becomes fresh but by a write.

### Fairness, and why the code justifies it

* Handlers, runs and the delivery of a message go on (weak fairness): coroutines
  of one event loop that are not starved, workers that poll their queue.
  A run that has crashed takes no step, so nothing is assumed of it.
* The recovery job is started again and again by the operator (weak fairness of
  its steps), and a database outage ends some day, so it does not abort every
  attempt (strong fairness of `RecoverySelect` and `RecoveryCommit`).
  A heartbeat that nobody renews expires (weak).
* `AIService`: a call ends by an answer or by its timeout, time passes and
  callers keep coming: a breaker nobody asks stays as it is, and one failure
  is not yet an outage.
* `LiveUpdates`: browser timers fire and requests are answered or fail. Nothing
  is assumed of the run, the relay or the sockets: `PageSettles` is about
  polling with its limit.
* `PdfReading`: reader threads run on, and a Camelot read ends some time, before
  its timeout or after it. The code waits for it without a limit (the
  executor's `with` block), so without this nothing could be said.
* Clients, cancellations, faults and the cleanup job are never assumed to act.

## 4. What is proved

Every invariant and every action property that a passing run checks is also a theorem,
and so is each refinement. Each was checked by TLC first, and so was the inductive
invariant behind it. The assumptions are the `ASSUME`s of the modules, which only
give constants their types, and the conditions named below. A condition on faults
or jobs is there because section 5 tells what breaks the property without it.

### AnalysisLifecycle_proofs

For any sets of tasks and workers, either runtime, any jobs, faults and number of
deliveries:

* `TypeCorrect`: `TypeOK` is inductive. Its third part (a run in the body of a
  phase is not finalising) is what makes `BeginPhase` and `FinishPhase` typed.
* `NoUnaskedCancellation`: `CancelledOnlyIfAsked` is not inductive, since a run
  decides to cancel at a checkpoint and writes later. `RequestRecorded` adds the
  missing links: a cancel flag in a row, and a run that is about to mark its row
  cancelled, each imply that a request was recorded. It survives cleanup (a
  deleted row has no flag), recovery (which keeps the flag) and redelivery.
* `FinishedRowsKept`: `HistoryKept` needs no invariant but the types, because the
  `DELETE` of the cleanup job looks at the status once more.
* `EndsLeaveNoFile`: `LeavesNoFile`, the half of `FileLivesWithRun` that redelivery leaves
  intact: the step that rejects a request or ends a run leaves no temporary file, unless
  it is a crash. `RejectedHasNoFile` covers the two steps of a failed dispatch. What a
  second delivery does break is the other half: the first run takes the file away.

With one delivery (a second run may find the file gone and then reports an empty
document, and `OneRunPerTask` is lost):

* `FileAccountedFor`: `FileLivesWithRun`, jobs and faults being any. `HandedOver` says
  that a task is with its request, or with its one message, or with one run;
  `FileFollows`, that the file goes the same way and whoever ends removes it.
* `ResultFitsStatus`: `OutcomeMatchesResult` without the cleanup job, which would let a
  run go on with a row that has no filename. `RowStays` keeps the row;
  `ResultFollows` says what it carries at each step of a run and what
  the recovery job has loaded of it, so that either may overwrite the other.
* `CancelStopsRun`: `CancelStopsWithinOnePhase` without jobs, since the recovery job
  may fail a row whose run goes on. `CancelSeen`: a recorded request stays in the
  row until the run has seen it, and past its checkpoint one phase is begun at most.

Under `Undisturbed` (no jobs, one delivery, no exception after a commit), which
is an assumption on the constants:

* `OutcomeDecidedOnce`: `OneDecides` with `TypeOK` is inductive. It passes the
  right to decide the outcome along: upload request, delivery, run, nobody; and
  says what the row and the last event may be in each case. Its parts depend on
  each other: that a run alone has the task needs `DeliveryDecides`, which
  needs `UploadDecides`.
* `ContractKept`: initial states of `AnalysisLifecycle` are initial states of
  `AnalysisContract`, and from a state of `OneDecides` every step is a step of
  the contract or a stutter.
* `OutcomeIsFinal`: `TerminalIsFinal` from the same invariant. No run checks it
  for itself: it is part of the contract.

### MultiSession_proofs

For any number of periods, either runtime and any faults:

* `TypeCorrect` and `OnlyOldRowsDeleted` (`FreshRowsKept`), with any jobs and deliveries.
  `TypeOK` bounds a run by its progress: what failed is among the periods done, and
  a run that extracts has one left.
* `NoFileLeft` (`NoFileIsLeft`), with any jobs and deliveries: when the request and all
  its runs are over no document is left. `FilesRemoved`: a run has removed the documents
  of the periods it counted, whether they were still there or not, and the rest in its
  `finally` clause, so two runs that share the documents never leave one to each other.
* With one delivery: `FilesAccountedFor` (`FilesLiveWithRun`) from `FilesFollow`, which says
  that the run finds the documents it has not come to; `ReportsFit` (`OutcomeFitsPeriods`) from
  `ListsFollow`: nothing is listed before the commit, and what the
  recovery job loaded lists nothing either. Both rest on `Handed`: a run that decides has
  all periods done, one that starts has none.
* With one delivery and no cleanup job: `ProgressStaysHonest` (`ProgressIsHonest`) from
  `ProgressFollows`, which relates the stored progress to `run.done` step by step; and
  `ProgressToldIsStored` (`ToldIsStored`, the first half of `ToldMatchesRow`): the recovery
  job may fail a row under its run, and what clients were told of its progress is
  stored all the same. `ToldFollows` adds that the reset to 0 at the start
  takes back nothing that was told.
* With one delivery and no jobs: `EventsMatchRow` (`ToldMatchesRow`), `CancelStopsRun`
  (`CancelStopsWithinOnePeriod`) and `SessionImplementsContract` (`KeepsContract`), all
  from `OneDecides`: the run alone decides, no outcome is in the row before its
  commit nor told before its announcement, and a request to cancel stays in the row.
  Unlike an analysis, a session needs no condition on faults: an exception after
  the commit reaches no handler that writes.

The proof made one property stronger: a session begins no period at all after its
cancellation was recorded, the checkpoint being right before the period.

The conditions are as weak as the code allows. With two deliveries TLC finds each of
`OutcomeFitsPeriods`, `ProgressIsHonest`, `ToldMatchesRow`, `CancelStopsWithinOnePeriod`
and the first half of `FilesLiveWithRun` violated, and in `AnalysisLifecycle`
`OutcomeMatchesResult`, `CancelStopsWithinOnePhase` and the first half of
`FileLivesWithRun`; with one delivery, the recovery job breaks the second half of
`ToldMatchesRow` and `CancelStopsWithinOnePeriod`.

### AIService_proofs

For any number of callers, threshold and retries:

* `TypeCorrect`; no call exceeds `MaxRetries` and no breaker its threshold.
* `BreakerStaysConsistent`: `BreakerConsistent` is a property of the record
  that every method of `CircuitBreaker` preserves in whatever state it is called,
  one lemma per method. This is why late answers do no harm.
* `QuietKept`: the action property `QuietAfterFailure`.

### LiveUpdates_proofs

For any number of documents, sockets, polls and reconnections and any faults:

* `TypeCorrect`. Neither the types nor what follows bound the channel.
* `FailureStaysAlone`: the action property `OneFailureOneLoss`, for every set of sockets a
  broadcast iterates over.
* `HistoryKeepsNames` (`OnlyOvertakenMisnamed`), whatever the user presses and when: the
  history keeps a report under its own file name, unless something of its analysis was
  under way when the user dropped another file. `OthersOvertaken`, the inductive
  invariant: while a file is on the page, what is under way (`UnderWay`) is about that
  file or about an overtaken one. No run checks it,
  since the user of `LiveUpdates` waits; it was checked by TLC on an instance with
  `UserWaits` false, 2 documents, 1 poll, 1 socket and no faults.

For a user who waits (`UserWaits`; section 5 tells what the others may see):

* `PageTellsTheTruth` (`PageTellsOutcome`) from `PageFollows`. It says that whatever is under way, in a poll, the channel, the
  relay or on a wire, is about the file on the page and true of its run. A new
  analysis keeps it only because nothing of the old one is left.

### PdfReading_proofs

For any number of documents, any page limits and any order in which
threads swap the globals:

* `PositionTells`: `Placed`, the inductive invariant, says for every position of a
  reader thread which OCR calls and which table reads are active for its document.
  It needs nothing of `global` and `found`: whatever a thread finds in the
  swapped name, the facade ends in the original function.
* `OcrStaysFlat` (`OcrNeverReenters`) and `ReadersTakeTurns` (`OneReadPerDocument`)
  follow from it.

### PrintedAmounts_proofs

For rows of any number of columns and quotes of any length:

* `FirstAmountIsRead` (`FirstPeriodIsRead`), within what the readers can tell: amounts
  of at most sixteen digits with no minus behind them, no "$1,234" and no three decimals;
  lines that are grouped by spaces, in which no column or note runs on into the next and
  the first amount has four digits and no dash for a sign; of OCR, amounts of one
  size without signs (section 5 says what is read otherwise). `RowsAsPrinted`, the inductive invariant, is
  short: a row is one of amounts in one style, and what was read is the operator of its
  reader. The work is about the operators, in five layers:
  1. A sequence that is flattened by a fold holds every part at its offset and nothing
     else (`Flattening`, `Flattened`). A fold is a function on 0 .. n, and the set of
     numbers up to which it is what it should be is all of Nat (`Induct`, from the least
     number outside it), so this needs no induction theorem of the library.
  2. What `Write` puts down is read as it was meant: grouping marks are no points
     (`ReadsWhole`), the mark before decimals is the only one (`ReadsPart`). Hence the
     cells (`CellsAreRead`).
  3. Where column k of a row lies in the line (`LineOfRow`), which of its runs begin a
     match (`ColumnStarts`, `WithinColumn`) and so what a match holds (`ColumnMatch`; for
     two periods that run together `TwoColumnsMatch`).
  4. Text: the first amount begins a match (`LateColumn`), every earlier match is short
     or a year (`EarlyColumn`), so the preferred one is that amount (`TextIsRead`).
  5. OCR: one candidate covers the line (`OneSizeLine`), and its division by the larger
     size gives back the first column (`LargerAmounts`, `SingleIsRead`, `ManyAreRead`).

  The proof found what the property had left out, since the amounts of the run did not
  show it: more than sixteen digits are refused; an earlier year in a cell is skipped only
  if it is legible ("$1,999" is read as 1.999); of a single column, OCR halves six groups
  as it does four; and a line of OCR must not begin with a year. The property says so
  now, and the run has such amounts.
* `ReadersMakeTheSame` (`ReadersAgree`), for quotes of any length: both readers take the
  same marks for points but for one mark with three digits behind it
  (`PointsAgree`). The attempt showed that the property was false of longer quotes than
  the run had: the document's reader refuses more than 16 digits
  (`legacy_helpers.py:2897`) and the model's does not. The property now says so and the
  run has such a quote.

### FigureExtraction_proofs

For every kind of document, any sightings, answers, known figures and scales:

* `TypeCorrect`: every candidate has a profile of the confidence policy and every metadata
  a valid state, with a confidence between 0 and 100 (`ConfidenceBounds`).
* `StrongestKept` (`StrongestWins`): `OutranksOrder` says that ranking is a strict weak
  order, `CandidatesRank` that what is kept is the first candidate no other outranks,
  with the competitors after it counted.
* `ProfitIsPlausible` (`ProfitFitsRevenue`): consolidated forms without tables, when the
  passes are done and nothing is derived yet, and unless both line codes were seen. A
  profit that the model or a regular expression puts in later is not tested by the code.
* `BalanceHolds` (`BalanceAddsUp`): the parsed figures, before anything is merged. The link
  is `LiabilitiesAddUp`, what a derived value owes to its summands until the metadata is
  built.
* `KnownFiguresReported` (`KnownIssuerIsRight`): the readings that pass the filter. One
  near the known figure but too weak is dropped, and a regular expression may fill the gap.
* `TrustedFiguresReported` (`ConfidentReadingHolds`): an answer of the model with the same
  sign and less than ten times away may take the place of a trusted reading, and the
  known figure of an issuer; `TrustedFiguresStand` says so at every stage.

`FigureInv`, the inductive invariant, is their conjunction stage by stage.

### PeriodScores_proofs

For sessions of any length, any labels and any documents; `SessionInv` says only that
results are made once and of everything read (`Assembled`), so the work is about the operators:

* `TypeCorrect`: scores lie in 0..10000 hundredths and confidence in 0..100, whatever
  the figures (`NormalizedBounds`, `DigitsBounds`, `SumBounds`, `IntegralWell`).
* `MetricsLeave` (`EmissionNeverRefused`): every operator that makes a metric gives it
  a value, or a state with a reason that ranks first (`MetricWell`).
* `LevelsAreEarned` (`RiskIsEarned`): caps and guards leave no level better than the
  score allows (`GuardedIsEarned`).
* `OrderIsIrrelevant` (`OrderDoesNotMatter`): sorting is a permutation (`RanksCover`,
  `SortedPermutes`), linking looks at keys and not at places (`CarryingRenumbered`,
  `RatiosRenumbered`). The lemma `AnyOrder` is about every order of upload, the
  property about one.
* `AveragesFollow` (`AveragesAreAdjacent`): an average that is emitted is the one a reader
  would compute by hand from the one document of the year before (`LinkByHand`,
  `AverageRatio`).

### Only model-checked

* Liveness (`EventuallySettled`, `RecoversWithProvider`, `HangTripsBreaker`, `PageSettles`,
  `EventuallyRead`) is outside the prover's reach.
* Without the conditions above, what the runs check with redelivery, jobs and a clock:
  `AnalysisMaintenance` has two deliveries and both jobs at once.

## 5. What the code does where a property needs a condition

Each of these is a behaviour of the modules, reached in the runs named or by
lifting the condition named.

* An exception after the commit of an outcome (a broadcast in background mode,
  the refresh after a commit) reaches `_handle_task_failure`, which turns a
  completed analysis into a failed one (`tasks.py:489`). Hence "no refresh, no
  broadcast fault" in `Undisturbed`; `AnalysisSelfHealing` takes these steps.
* The recovery job writes by primary key what it selected before
  (`AnalysisRecoveryRace`), and a row deleted in between aborts its whole batch.
* The cleanup filter of analyses looks at `created_at` (`crud.py:158`), so the row
  of a slow live run is deleted; a second delivery then creates it anew, without a
  filename (`AnalysisMaintenance`).
* A queued Celery task that is cancelled and revoked is never run (`task_queue.py:194`):
  its row stays "cancelling" until the recovery job fails it, and its file stays.
  The same holds for sessions (`SessionSelfHealing`).
* A session failed by the recovery job while it waited in the queue is set to
  "processing" by its own run (`tasks.py:1204`), though `docs/ARCHITECTURE.md:269`
  calls "failed" a final state. `SessionSelfHealing` takes these steps;
  the contract is checked where no job runs.
* A run whose document was removed by an earlier delivery does not fail: what reads it
  swallows the error (`legacy_helpers.py:471`, `:526`), and the run completes with an
  empty report, or lists the period with figures. `AnalysisMaintenance` and
  `SessionSelfHealing` take these steps.
* `process_multi_analysis` handles no exception (`tasks.py:1271`): a failed
  transaction or broadcast leaves the session in progress with no run, until the
  recovery job finds it.
* A call that its caller abandons (`tasks.py:872`, `:884`) records neither success nor
  failure, so a silent provider is shut off only if some caller is patient:
  `HangTripsBreaker` needs one outside `Impatient`.
* `record_success` of a closed breaker takes one failure away
  (`circuit_breaker.py:153`); its docstring (`:139`) says the count is reset and
  `.env.example:60` speaks of consecutive failures. And what the agents return
  for a refused request counts as a success (`ai_service.py:293`): a provider that
  refuses every request is never shut off.
* `onclose` of a socket does not know that the page itself closed it, and opens
  another one for the old task: the page can keep a socket of a finished task
  for ever. A message of that task is shown under whatever file the page has
  then. `UserWaits` keeps these messages out by letting the user act only when
  nothing of an earlier analysis is under way. A user who cancels and uploads at
  once makes the answer of the first upload count again (`AnalysisContext.tsx:95`), and
  its report is saved under the name of the second file. So no run says that the history
  is right; `HistoryKeepsNames` says, of every user, that nothing else makes it wrong.
* A poll whose answer is under way when a WebSocket message completes the page
  goes on, and "cancelled" is polled until the limit, after which the page says
  "failed" (`PageTellsOutcome` allows this by its last line).
* A set of sockets that changes its size during a broadcast makes the iteration
  raise; those not yet reached miss the message (`BroadcastRaises`). Polling is
  what saves the page (`PageSettles`), also after the relay's listener has died,
  which nothing starts again.

Reading and figures:

* A table read that exceeds its 45 seconds is given up and still waited for,
  since its executor's `with` block joins the thread. That is what
  keeps `OneReadPerDocument`: without it two Camelot reads would work on one file.
* The facade's OCR entry does not reenter itself only because `ocr.py` keeps the
  function it found when it was imported; the swapped global names the entry itself.
* How many conflicts a candidate is charged with depends on the order of the
  passes: only competitors that come after it count. Which candidate is kept does not
  (`StrongestWins`).
* With both codes of profit and loss known, the sanity check replaces what it can and
  never drops anything (`ProfitFitsRevenue` has that disjunct).
* Balance checks run before the merge with the model's answers and are not repeated, so
  `BalanceAddsUp` is about the parser's figures only. Figures that a check
  removed, or a filter, may come back from the regular expressions, which are not
  multiplied by the scale of the document (`tasks.py:806`).
* Derived figures have at most 29 percent confidence in a threshold of 50: they
  decide whether the model's figure is taken, and are never reported.
* A figure of a known issuer that is within ten percent but not trusted is not
  replaced, and then filtered (`KnownIssuerIsRight` is about what passes). The file name that
  should tell the issuer is that of the temporary file (`tasks.py:795`), so only
  the text can.
* Amounts: "$1,234" is read as 1.234 and a trailing minus makes a cell unreadable
  though `legacy_helpers.py:2883` looks for it; the patterns for lines do not know
  U+2212, so a loss written with it in a line is read as a gain; four full groups are
  taken for two periods and lose their sign; a second column that begins
  with three digits is joined to the first. OCR halves a single amount of four or six groups,
  and joins notes and codes to amounts. The conditions of `FirstPeriodIsRead` list these. The
  docstring at `legacy_helpers.py:1798` says that codes of four digits are skipped; the code
  skips up to three. `legacy_helpers.py:1079` speaks of 1e14 where the code has 1e13.
* The model's "1,234" is 1.234, the document's is 1234; and only the document's reader refuses
  more than 16 digits (`ReadersAgree`).

Ratios and scores:

* Most of the weights belong to ratios that the registry suppresses or that need a
  period before, so a complete document analysed alone has a confidence of 38
  percent and is capped at 59.99 (`scoring.py`, below 0.4); `docs/API.md:273` shows
  72.5 points. In a session the averages lift it.
* `SCORING_PROFILE` (`docs/CONFIGURATION.md:277`) reaches a single analysis (`tasks.py:838`) and
  not a session (`tasks.py:1082`).
* A report of a full year whose text names a quarter is annualised by four.
* A structure test for retail chains reads turnovers that are never known at that
  point, so only words make a profile.
* A negative balance enters an average as it is, while no other ratio takes one.
* The level of risk is taken of the score before it is rounded; `RiskIsEarned` holds
  because rounding lifts a score to a threshold or leaves it on its side.

## 6. What is abstracted, and what is not modelled

* A function of `crud.py` is one atomic transaction. The database serialises
  writes of one row; what the ORM read earlier in the same function is not
  allowed to be stale, except in the recovery job, where rows are loaded long
  before they are written.
* Status "uploading" is in the row's type but nothing writes it.
* Removing a temporary file succeeds (the code logs a failure and goes on). An
  `apply_async` that raises has published nothing.
* The result of an analysis is the set of its keys that tell outcomes apart:
  data, filename, error. The result of a session is the periods listed with
  figures and those listed with an error. `recovered_at` and the total of the
  progress are left out. The comparative computation is assumed not to raise.
* `told` is the last event published; in Celery mode that it reaches a browser is
  the subject of `LiveUpdates`.
* "Refusing" includes a token endpoint that fails. Agents with a deadline of their
  own equal to that of `invoke` are assumed to lose the race to it.
* `reset()` and `track_call()` of the breaker have no caller and are left out.
* In `LiveUpdates` the dashboard stays mounted (coming back to it would save the
  report shown once more), each document is analysed once, and fault "gone" (a
  row deleted by cleanup) is defined but not in the run: the page then reports a failure.
* What Camelot, `pdf2image`, the OCR engine and the model answer is chosen. Of a text
  layer only its kind is kept.
* Which row or line names a metric (keywords, line codes, headings) is the input of
  `FigureExtraction`: a sighting says what a pass would find. Scale detection gives
  `doc.scale`. A pass finds at most one value of a metric, as the loops of the code do.
* `PrintedAmounts` reads lines of text only where amounts are grouped by spaces, which
  is the form the statements have; cells and answers in every style.
* Only the second version of metadata is built by the code, so the normalisation of
  the first is left out; guardrail events and decision traces are debugging output.
* Resolvers and candidates of debt and EBITDA belong to metrics the registry
  suppresses: they decide nothing that is emitted.
* The scores of periods use the label in place of a file name; words of text are
  the markers and flags of a document.
* Not modelled: scale words and the shape of prompts and answers, offline calibration
  (`extractor/calibration.py`, no part of a run), factor descriptions and peer
  context, NLP and recommendations, the cached GigaChat token, authentication,
  masking, settings, logging, rendering, deployment and evaluation scripts. The
  polling of sessions (`useMultiAnalysisPolling.ts`, which would poll a
  cancelled or failed session for ever) is never mounted: no page passes a
  session to the component that has it. `PROJECT.json` gives the reason of each.

## 7. Plan

Modelled, in the order of importance:

1. `AnalysisRow`, `AnalysisLifecycle`, `AnalysisContract`: the single-document
   life cycle, its refinement and its proofs.
2. `SessionRow`, `MultiSession`; `CircuitBreaker`, `AIService` with proofs.
3. `AnalysisPage`, `LiveUpdates`: the way of an outcome to the browser.
4. `PdfReading` with proofs, `PrintedAmounts`, `Evidence`, `FigureExtraction`, `Ratios`,
   `Scoring`, `PeriodScores`: from a document to figures, ratios and scores.

Still to be modelled: the token cache of the GigaChat agent; the detection of the
scale and of the line that names a metric; reconnection without the bound on
sockets, leaving the dashboard and coming back.

Theorems to come, in this order:

* `AIService_proofs`: how far the failure count may fall behind what was observed.
* `PrintedAmounts_proofs`: lines of text whose amounts are grouped by commas or have
  decimals, once the model has them.
