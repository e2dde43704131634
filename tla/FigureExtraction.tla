---------------------------- MODULE FigureExtraction ----------------------------
(***************************************************************************)
(* The figures of one document (_run_extraction_phase of src/tasks.py):    *)
(* candidates read off its tables and its text, the checks and derivations *)
(* of src/analysis/extractor, the answers of the language model            *)
(* (llm_extractor), the figures known of an issuer (issuer_fallback), the  *)
(* confidence filter and the regular expressions that fill what is still   *)
(* missing.                                                                *)
(*                                                                         *)
(* A document is what its pages show: the flags of DocumentSignals and the *)
(* sightings [pass, metric, value, label] that a pass makes of it, where a *)
(* label is a kind of row or line.  Amounts are in the unit of the document *)
(* until the metadata is built.                                            *)
(***************************************************************************)
EXTENDS Evidence, FiniteSets

CONSTANTS
    Sightings,      \* what the passes may see
    Scraped,        \* [metric, value] that extract_metrics_regex may find
    Answers,        \* answers of the language model, functions from metrics
    IssuerFigures,  \* figures known of the issuer, by metric
    Scales,         \* scale factors a text may name
    Largest,        \* no amount above it is taken (1e13 in the code)
    MaxCells,       \* bound: sightings in tables
    MaxChunks       \* settings.llm_max_chunks

Metrics ==
    { "revenue", "net_profit", "total_assets", "equity", "liabilities", "current_assets",
      "short_term_liabilities", "long_term_liabilities", "cash_and_equivalents", "inventory",
      "ebitda" }

\* The keys of the result; the long-term liabilities only help to derive.
Keys == Metrics \ {"long_term_liabilities"}

\* What a pass may read off a document, and what is derived.
CandidateProfiles ==
    {p \in {"table", "text", "ocr", "derived"}
           \X {"exact", "code", "section", "keyword", "na"}
           \X {"direct", "approximation", "derived"} : Supported(p)}

CandidateSet ==
    [value : Int, type : {"table", "text_regex", "derived", "derived_strong"},
     exact : BOOLEAN, quality : Nat, profile : CandidateProfiles,
     reason : {"none", "approximation", "pnl_replaced", "assets_replaced"},
     bonus : BOOLEAN, conflicts : Nat]

MetadataSet ==
    [value : Int \cup {Missing}, confidence : 0 .. 100,
     profile : CandidateProfiles \cup {Override},
     postprocess : {"none", "guardrail_adjusted"},
     reason : DOMAIN PublicPriority \cup {"none"}, flagged : BOOLEAN]

\* Missing is neither an amount nor a candidate; amounts are numbers.
ASSUME FigureAssumption ==
    /\ Missing \notin Int /\ Missing \notin CandidateSet
    /\ \A s \in Sightings : s.metric \in Metrics /\ s.value \in Int
    /\ \A s \in Scraped : s.metric \in Keys /\ s.value \in Int
    /\ \A answer \in Answers : \A k \in Keys \cap DOMAIN answer :
            answer[k].value \in Int \cup {Missing} /\ answer[k].confidence \in Int
    /\ DOMAIN IssuerFigures \subseteq Keys
    /\ \A k \in DOMAIN IssuerFigures : IssuerFigures[k] \in Int
    /\ Scales \subseteq Nat \ {0} /\ MaxChunks \in Nat \ {0} /\ MaxCells \in Nat
    /\ Largest \in Nat

VARIABLES
    doc,     \* DocumentSignals, and whether text and file name tell the issuer
    stage,   \* what comes next
    raw,     \* raw[m]: the best candidate so far
    seen,    \* seen[m]: the candidates so far, in order (never read by the code)
    cells,   \* sightings made in tables
    codes,   \* form_pnl_code_candidates
    parsed,  \* the metadata of the deterministic parser
    best,    \* the merged answers of the model
    chunk,   \* chunks sent, and whether the present one is sent again
    meta,    \* the metadata in force
    figures  \* the figures of the result

vars == <<doc, stage, raw, seen, cells, codes, parsed, best, chunk, meta, figures>>

Documents ==
    [form : BOOLEAN, balance : BOOLEAN, tables : BOOLEAN, standalone : BOOLEAN,
     issuer : BOOLEAN, scale : Scales]

NoCandidates == [m \in Metrics |-> Missing]
NoFigures == [k \in Keys |-> NoFigure]

-----------------------------------------------------------------------------
(* Candidates                                                               *)

\* _is_valid_financial_value: a number of a year is not an amount, nor is 0.
Valid(value) ==
    /\ value # Missing /\ value # 0
    /\ value \notin 1900 .. 2100
    /\ Abs(value) <= Largest

Totals == {"current_assets", "short_term_liabilities", "liabilities"}

\* _metric_candidate_quality: a total is only taken from a line that says so,
\* and the comprehensive income is not the net profit.
MetricQuality(metric, label) ==
    IF metric \in Totals
    THEN IF label \in {"total", "exact_total"} THEN 90 ELSE Missing
    ELSE IF metric = "net_profit" /\ label = "comprehensive" THEN Missing ELSE 50

\* What the lines of the section of profits and losses are worth.
SectionQuality(metric, label) ==
    CASE label = "code"          -> IF metric = "revenue" THEN 110 ELSE 120
      [] label = "partial"       -> IF metric = "revenue" THEN 108 ELSE 110
      [] label = "comprehensive" -> 112
      [] OTHER                   -> IF metric = "revenue" THEN 104 ELSE 106

Candidate(value, type, exact, quality, match, bonus) ==
    [value |-> value, type |-> type, exact |-> exact, quality |-> quality,
     profile |-> <<IF type = "table" THEN "table" ELSE "text", match, "direct">>,
     reason |-> "none", bonus |-> bonus, conflicts |-> 0]

\* The candidate that a pass makes of a sighting.
CandidateOf(s) ==
    LET quality == MetricQuality(s.metric, s.label)
        exact == s.label \in {"exact", "exact_total"}
        total == s.label \in {"total", "exact_total"}
        Table(e, q, match, bonus) == Candidate(s.value, "table", e, q, match, bonus)
        Text(e, q, match, bonus) == Candidate(s.value, "text_regex", e, q, match, bonus)
    IN  CASE s.pass = "line_code" -> Table(TRUE, 120, "code", TRUE)
          [] s.pass = "garbled"   -> Table(TRUE, quality, "keyword", FALSE)
          [] s.pass = "ifrs"      -> Table(TRUE, quality, "exact", FALSE)
          [] s.pass = "regular"   ->
                Table(exact, quality,
                      IF total THEN "section" ELSE IF exact THEN "exact" ELSE "keyword", total)
          [] s.pass = "approximation" ->
                [Table(FALSE, 75, "keyword", FALSE)
                    EXCEPT !.profile[3] = "approximation", !.reason = "approximation"]
          [] s.pass = "heading"   -> Table(TRUE, 112, "section", TRUE)
          [] s.pass = "text_code" -> Text(FALSE, 115, "code", TRUE)
          [] s.pass = "form_code" ->
                Text(TRUE, IF s.metric = "revenue" THEN 110 ELSE 120, "code", TRUE)
          [] s.pass = "balance"   ->
                Text(TRUE, IF s.metric = "short_term_liabilities" THEN 110 ELSE 105, "section", TRUE)
          [] s.pass = "profit_section" ->
                Text(TRUE, SectionQuality(s.metric, s.label), "exact", FALSE)
          [] OTHER -> Text(FALSE, quality, "keyword", FALSE)   \* ocr_table, keyword, broad

TablePasses == {"line_code", "garbled", "ifrs", "regular", "approximation", "ocr_table"}

\* Keyword rows are refused when the number is as small as that of a page, or
\* when their label names something else.
InTable(s) ==
    /\ s.pass \in TablePasses /\ Valid(s.value)
    /\ s.pass \in {"garbled", "ifrs", "approximation"} => Abs(s.value) >= 1000
    /\ s.pass \notin {"line_code", "approximation"} => MetricQuality(s.metric, s.label) # Missing

\* A text pass leaves alone what tables or an earlier pass gave.
Weak(metric) == raw[metric] = Missing \/ Priority(raw[metric]) < 2

\* A form without tables is searched by keyword for these alone.
Searched(metric) ==
    doc.form /\ ~doc.tables =>
        metric \in {"revenue", "net_profit", "total_assets", "current_assets", "inventory"}

BroadMetrics ==
    {"revenue", "net_profit", "total_assets", "equity", "current_assets", "short_term_liabilities"}
TextCodeMetrics ==
    {"revenue", "net_profit", "total_assets", "current_assets", "inventory",
     "long_term_liabilities", "short_term_liabilities", "cash_and_equivalents"}

\* What a pass over the text takes; only broad patterns accept any number.
InText(s, pass) ==
    /\ s.pass = pass
    /\ pass # "broad" => Valid(s.value)
    /\ CASE pass = "text_code" -> Weak(s.metric) /\ s.metric \in TextCodeMetrics
         [] pass \in {"form_code", "profit_section"} ->
                doc.form /\ ~doc.tables /\ s.metric \in {"revenue", "net_profit"}
         [] pass = "keyword" ->
                /\ Weak(s.metric) /\ Searched(s.metric) /\ s.metric \in Keys
                /\ MetricQuality(s.metric, s.label) # Missing
         [] pass = "broad" ->
                /\ Weak(s.metric) /\ Searched(s.metric) /\ s.metric \in BroadMetrics
                /\ MetricQuality(s.metric, s.label) # Missing
         [] pass = "balance" ->
                /\ doc.balance /\ raw[s.metric] = Missing
                /\ \/ s.metric \in {"short_term_liabilities", "long_term_liabilities"}
                   \/ s.metric = "equity" /\ ~doc.tables
         [] OTHER -> TRUE

-----------------------------------------------------------------------------
(* Collecting candidates                                                    *)

Init ==
    /\ doc \in Documents
    /\ stage = IF doc.tables THEN "tables" ELSE "text_code"
    /\ raw = NoCandidates
    /\ seen = [m \in Metrics |-> <<>>]
    /\ cells = 0
    /\ codes = [m \in {"revenue", "net_profit"} |-> Missing]
    /\ parsed = NoFigures
    /\ best = NoFigures
    /\ chunk = [sent |-> 0, again |-> FALSE]
    /\ meta = NoFigures
    /\ figures = [k \in Keys |-> Missing]

\* A pass finds at most one value of a metric.
OnePerMetric(found) == \A s, t \in found : s.metric = t.metric => s = t
Of(found, metric) == {s \in found : s.metric = metric}
The(found) == CHOOSE s \in found : TRUE

Collected(found) ==
    [m \in Metrics |->
        IF Of(found, m) = {} THEN raw[m] ELSE Ranked(CandidateOf(The(Of(found, m))), raw[m])]

Noticed(found) ==
    [m \in Metrics |->
        IF Of(found, m) = {} THEN seen[m] ELSE Append(seen[m], CandidateOf(The(Of(found, m))))]

FoundInText(pass) == {found \in SUBSET {s \in Sightings : InText(s, pass)} : OnePerMetric(found)}

Collect(found) == raw' = Collected(found) /\ seen' = Noticed(found)

\* One sighting in a table: the passes over the rows of one table after another.
TableCell(s) ==
    /\ stage = "tables" /\ cells < MaxCells
    /\ InTable(s)
    /\ Collect({s})
    /\ cells' = cells + 1
    /\ UNCHANGED <<doc, stage, codes, parsed, best, chunk, meta, figures>>

\* _collect_heading_total_candidates, after the last table.
CollectHeadingTotals ==
    /\ stage = "tables"
    /\ \E found \in SUBSET {s \in Sightings : s.pass = "heading" /\ Valid(s.value)} :
        /\ OnePerMetric(found)
        /\ Collect(found)
    /\ stage' = "text_code"
    /\ UNCHANGED <<doc, cells, codes, parsed, best, chunk, meta, figures>>

\* The passes over the text that only collect, each with the one after it.
NextPass == [text_code |-> "form_code", keyword |-> "broad", broad |-> "balance"]

CollectText ==
    /\ stage \in DOMAIN NextPass
    /\ \E found \in FoundInText(stage) : Collect(found)
    /\ stage' = NextPass[stage]
    /\ UNCHANGED <<doc, cells, codes, parsed, best, chunk, meta, figures>>

\* What stands at the codes of revenue and profit is remembered, ranked or not.
CollectFormCodes ==
    /\ stage = "form_code"
    /\ \E found \in FoundInText("form_code") :
        /\ Collect(found)
        /\ codes' = [m \in DOMAIN codes |->
                        IF Of(found, m) = {} THEN codes[m] ELSE The(Of(found, m)).value]
    /\ stage' = "keyword"
    /\ UNCHANGED <<doc, cells, parsed, best, chunk, meta, figures>>

\* A long-term total that equals the short-term one up to a millionth is an
\* artifact of OCR; the short-term total is collected first.
SameTotal(a, b) == Abs(a - b) <= Larger(1, Abs(b) \div 1000000)

CollectBalanceTotals ==
    /\ stage = "balance"
    /\ \E found \in FoundInText("balance") :
        /\ LET short == Collected(Of(found, "short_term_liabilities"))["short_term_liabilities"]
           IN  \A s \in Of(found, "long_term_liabilities") :
                    short # Missing => ~SameTotal(s.value, short.value)
        /\ Collect(found)
    /\ stage' = "profit_section"
    /\ UNCHANGED <<doc, cells, codes, parsed, best, chunk, meta, figures>>

\* More than 60 percent of the revenue stays as profit.
Excessive(profit, revenue) == 5 * Abs(profit) > 3 * revenue

Replacement(value) ==
    [Candidate(value, "text_regex", TRUE, 120, "code", TRUE) EXCEPT !.reason = "pnl_replaced"]

Implausible(r) ==
    /\ r["revenue"] # Missing /\ r["net_profit"] # Missing
    /\ r["revenue"].value > 0 /\ Excessive(r["net_profit"].value, r["revenue"].value)

\* With one code known, its value is taken when it narrows the margin.
Narrowed(r) ==
    [r EXCEPT
        !["revenue"] =
            IF codes["revenue"] # Missing /\ codes["revenue"] > @.value
            THEN Ranked(Replacement(codes["revenue"]), @) ELSE @,
        !["net_profit"] =
            IF codes["net_profit"] # Missing /\ Abs(codes["net_profit"]) < Abs(@.value)
            THEN Ranked(Replacement(codes["net_profit"]), @) ELSE @]

\* The one that goes: less reliable, or without a code, or else the profit.
Doubtful(r, narrowed) ==
    LET trust == [m \in {"revenue", "net_profit"} |-> 100 * Priority(r[m]) + narrowed[m].quality]
    IN  IF trust["revenue"] < trust["net_profit"] THEN "revenue"
        ELSE IF trust["net_profit"] < trust["revenue"] THEN "net_profit"
        ELSE IF codes["net_profit"] # Missing /\ codes["revenue"] = Missing THEN "revenue"
        ELSE "net_profit"

\* Mutant: nothing is dropped.
SaneKeepsBoth(r) == IF doc.standalone \/ ~Implausible(r) THEN r ELSE Narrowed(r)

\* _apply_form_like_pnl_sanity
Sane(r) ==
    IF doc.standalone \/ ~Implausible(r) THEN r
    ELSE IF codes["revenue"] # Missing /\ codes["net_profit"] # Missing
    THEN [r EXCEPT !["revenue"] = Ranked(Replacement(codes["revenue"]), @),
                   !["net_profit"] = Ranked(Replacement(codes["net_profit"]), @)]
    ELSE IF Priority(r["revenue"]) >= 3 \/ Priority(r["net_profit"]) >= 3 THEN r
    ELSE IF Implausible(Narrowed(r))
    THEN [Narrowed(r) EXCEPT ![Doubtful(r, Narrowed(r))] = Missing]
    ELSE Narrowed(r)

CollectProfitSection ==
    /\ stage = "profit_section"
    /\ \E found \in FoundInText("profit_section") :
        raw' = IF doc.form /\ ~doc.tables THEN Sane(Collected(found)) ELSE Collected(found)
    /\ seen' = [m \in Metrics |-> <<>>]
    /\ stage' = "derive"
    /\ UNCHANGED <<doc, cells, codes, parsed, best, chunk, meta, figures>>

-----------------------------------------------------------------------------
(* Deriving what is missing (guardrails.derive_missing_metrics)             *)

ValueIn(r, metric) == IF r[metric] = Missing THEN Missing ELSE r[metric].value

Inferred(value, type, quality) ==
    [value |-> value, type |-> type, exact |-> FALSE, quality |-> quality,
     profile |-> Derived, reason |-> "none", bonus |-> FALSE, conflicts |-> 0]

\* At least two percent of the assets.
Noticeable(part, assets) == 50 * part >= assets

\* Within 1000, or five percent, of the difference the balance sheet asks for.
CloseTo(sum, difference) ==
    Abs(sum - difference) <= 1000 \/ 20 * Abs(sum - difference) <= Abs(difference)

\* Mutant: the sum is not held against assets and equity.
AddsUpAlone(long, short, assets, equity) ==
    long # Missing /\ short # Missing /\ Valid(long + short)

\* _derive_liabilities_from_components
AddsUp(long, short, assets, equity) ==
    /\ long # Missing /\ short # Missing
    /\ Valid(long + short)
    /\ assets # Missing => assets <= 0 \/ Noticeable(long + short, assets)
    /\ assets # Missing /\ equity # Missing /\ Valid(assets - equity) =>
            CloseTo(long + short, assets - equity)

\* The remainder of assets and equity, unless a form without tables gave the
\* equity by a keyword only.
RemainderServes(r, assets, equity) ==
    /\ assets # Missing /\ equity # Missing
    /\ ~ /\ doc.balance /\ ~doc.tables
         /\ r["equity"].type = "text_regex" /\ ~r["equity"].exact
    /\ assets > 0 /\ Noticeable(assets - equity, assets)

WithLiabilities(r, total) ==
    LET long == IF r["long_term_liabilities"] = Missing THEN total
                ELSE ValueIn(r, "long_term_liabilities")
        short == ValueIn(r, "short_term_liabilities")
        assets == ValueIn(r, "total_assets")
        equity == ValueIn(r, "equity")
    IN  IF r["liabilities"] # Missing THEN r
        ELSE IF AddsUp(long, short, assets, equity)
        THEN [r EXCEPT !["liabilities"] = Inferred(long + short, "derived_strong", 60)]
        ELSE IF RemainderServes(r, assets, equity)
        THEN [r EXCEPT !["liabilities"] = Inferred(assets - equity, "derived_strong", 60)]
        ELSE r

WithShortTerm(r) ==
    LET rest == ValueIn(r, "liabilities") - ValueIn(r, "long_term_liabilities")
    IN  IF /\ r["short_term_liabilities"] = Missing
           /\ r["liabilities"] # Missing /\ r["long_term_liabilities"] # Missing
           /\ Valid(rest) /\ rest >= 0
        THEN [r EXCEPT !["short_term_liabilities"] = Inferred(rest, "derived", 30)]
        ELSE r

\* _derive_current_assets_from_available: two components, or the remainder.
\* Receivables, a third component, take the part that the inventory has here.
Available(r) ==
    IF r["cash_and_equivalents"] # Missing /\ r["inventory"] # Missing
    THEN ValueIn(r, "cash_and_equivalents") + ValueIn(r, "inventory")
    ELSE IF /\ \A m \in {"total_assets", "equity", "liabilities"} : r[m] # Missing
            /\ r["total_assets"].value > r["equity"].value + r["liabilities"].value
    THEN r["total_assets"].value - r["equity"].value - r["liabilities"].value
    ELSE Missing

WithCurrentAssets(r, reason) ==
    IF r["current_assets"] = Missing /\ Valid(Available(r))
    THEN [r EXCEPT !["current_assets"] =
            [Inferred(Available(r), "derived", 30) EXCEPT !.reason = reason]]
    ELSE r

\* Current assets below one of their components are dropped, and derived anew.
ComponentsFit(r) ==
    IF /\ r["current_assets"] # Missing
       /\ \E m \in {"cash_and_equivalents", "inventory"} :
            r[m] # Missing /\ r["current_assets"].value < r[m].value
    THEN WithCurrentAssets([r EXCEPT !["current_assets"] = Missing], "assets_replaced")
    ELSE r

\* The total of section IV is looked for when nothing gave it, with tables or
\* outside a balance sheet; it may be any number.
SectionTotals ==
    {Missing} \cup
        IF raw["long_term_liabilities"] = Missing /\ (doc.tables \/ ~doc.balance)
        THEN {s.value : s \in {t \in Sightings : t.pass = "section_total"}} ELSE {}

DeriveMissing ==
    /\ stage = "derive"
    /\ \E total \in SectionTotals :
        raw' = ComponentsFit(WithCurrentAssets(WithShortTerm(WithLiabilities(raw, total)), "none"))
    /\ stage' = "build"
    /\ UNCHANGED <<doc, seen, cells, codes, parsed, best, chunk, meta, figures>>

-----------------------------------------------------------------------------
(* The metadata of the parser, and the checks of a balance sheet            *)

\* Mutant: the state is changed and the flag forgotten.
SoftNullUnflagged(m) ==
    [m EXCEPT !.value = Missing, !.confidence = 0, !.postprocess = "guardrail_adjusted",
              !.reason = PreferredReason(@, "guardrail")]

\* _guardrail_soft_null
SoftNull(m) ==
    [m EXCEPT !.value = Missing, !.confidence = 0, !.postprocess = "guardrail_adjusted",
              !.reason = PreferredReason(@, "guardrail"), !.flagged = TRUE]

Exceeds(r, part, whole) ==
    r[part].value # Missing /\ r[whole].value # Missing /\ r[part].value > r[whole].value

Bounded(r, parts, whole) ==
    [k \in Keys |-> IF k \in parts /\ Exceeds(r, k, whole) THEN SoftNull(r[k]) ELSE r[k]]

\* apply_result_guardrails, in this order.
PartsOfAssets == {"current_assets", "liabilities", "equity", "short_term_liabilities"}
Guardrails(r) ==
    LET ofAssets == Bounded(r, PartsOfAssets, "total_assets")
        ofCurrent == Bounded(ofAssets, {"cash_and_equivalents", "inventory"}, "current_assets")
    IN  Bounded(ofCurrent, {"short_term_liabilities"}, "liabilities")

BuildMetadata ==
    /\ stage = "build"
    /\ LET built == [k \in Keys |->
                        IF raw[k] = Missing THEN NoFigure ELSE MetadataOf(raw[k], doc.scale)]
       IN  parsed' = IF doc.balance THEN Guardrails(built) ELSE built
    /\ meta' = parsed'
    /\ raw' = NoCandidates
    /\ codes' = [m \in DOMAIN codes |-> Missing]
    /\ stage' = "llm"
    /\ UNCHANGED <<doc, seen, cells, best, chunk, figures>>

-----------------------------------------------------------------------------
(* The language model (extract_with_llm)                                    *)

\* _ANOMALY_RULES: what may be below zero.
Signed == {"net_profit", "equity", "ebitda"}

\* parse_llm_extraction_response_detailed: one answer, item by item.
AnswerOf(item, k) ==
    [value |-> item.value,
     confidence |->
        IF k \notin Signed /\ item.value < 0 /\ Clamp(item.confidence) > 30
        THEN 30 ELSE Clamp(item.confidence),
     profile |-> <<"text", "keyword", "direct">>, postprocess |-> "none",
     reason |-> "llm", flagged |-> FALSE]

ParsedAnswer(answer) ==
    [k \in Keys |->
        IF k \in DOMAIN answer /\ Valid(answer[k].value) THEN AnswerOf(answer[k], k)
        ELSE NoFigure]

\* merge_extraction_results: of two chunks the more confident, or the first.
Surer(new, old) ==
    new.value # Missing /\ (old.value = Missing \/ new.confidence > old.confidence)

MergedAnswers(answer) == [k \in Keys |-> IF Surer(answer[k], best[k]) THEN answer[k] ELSE best[k]]

Sending == stage = "llm" /\ chunk.sent < MaxChunks

\* Extraction by the model is off, no provider is there, or no line of the
\* text speaks of figures.
SkipLlm ==
    /\ stage = "llm" /\ chunk.sent = 0 /\ ~chunk.again
    /\ stage' = "override"
    /\ UNCHANGED <<doc, raw, seen, cells, codes, parsed, best, chunk, meta, figures>>

\* A chunk is answered with figures, at once or when asked again.
ChunkAnswered(answer) ==
    /\ Sending
    /\ \E k \in Keys : ParsedAnswer(answer)[k].value # Missing
    /\ best' = MergedAnswers(ParsedAnswer(answer))
    /\ chunk' = [sent |-> chunk.sent + 1, again |-> FALSE]
    /\ UNCHANGED <<doc, stage, raw, seen, cells, codes, parsed, meta, figures>>

\* An answer of another form is asked for again, once.
AskAgain ==
    /\ Sending /\ ~chunk.again
    /\ chunk' = [chunk EXCEPT !.again = TRUE]
    /\ UNCHANGED <<doc, stage, raw, seen, cells, codes, parsed, best, meta, figures>>

\* No answer, an exception, no JSON or no figure in it: the next chunk.
ChunkLost ==
    /\ Sending
    /\ chunk' = [sent |-> chunk.sent + 1, again |-> FALSE]
    /\ UNCHANGED <<doc, stage, raw, seen, cells, codes, parsed, best, meta, figures>>

\* _merge_llm_with_fallback, when the text had no more chunks than were sent;
\* with no answer at all the metadata of the parser stays.
MergeLlm ==
    /\ stage = "llm" /\ chunk.sent > 0 /\ ~chunk.again
    /\ meta' = [k \in Keys |-> IF PreferLlm(best[k], parsed[k]) THEN best[k] ELSE parsed[k]]
    /\ best' = NoFigures
    /\ stage' = "override"
    /\ UNCHANGED <<doc, raw, seen, cells, codes, parsed, chunk, figures>>

-----------------------------------------------------------------------------
(* Issuer, filter and regular expressions (src/tasks.py:797-813)            *)

\* Mutant: only what is missing is filled in.
ShouldOverrideMissing(m, issuer) == m.value = Missing

\* _should_override: none, or more than ten percent off; a zero is 100 % off.
ShouldOverride(m, issuer) ==
    m.value = Missing \/ m.value = 0 \/ 10 * Abs(m.value - issuer) > Abs(issuer)

IssuerFigure(value) ==
    [value |-> value, confidence |-> 95, profile |-> Override, postprocess |-> "none",
     reason |-> "override", flagged |-> FALSE]

ApplyOverrides ==
    /\ stage = "override"
    /\ meta' = [k \in Keys |->
                    IF doc.issuer /\ k \in DOMAIN IssuerFigures /\ ShouldOverride(meta[k], IssuerFigures[k])
                    THEN IssuerFigure(IssuerFigures[k]) ELSE meta[k]]
    /\ stage' = "filter"
    /\ UNCHANGED <<doc, raw, seen, cells, codes, parsed, best, chunk, figures>>

\* apply_confidence_filter; figures without revenue or assets are filled up.
ApplyFilter ==
    /\ stage = "filter"
    /\ figures' = [k \in Keys |-> IF Survives(meta[k]) THEN meta[k].value ELSE Missing]
    /\ stage' = IF \E k \in {"revenue", "total_assets"} : figures'[k] \in {Missing, 0}
                THEN "scrape" ELSE "done"
    /\ UNCHANGED <<doc, raw, seen, cells, codes, parsed, best, chunk, meta>>

\* The revenue is left open when profit and assets are known.
Blocked(k) == k = "revenue" /\ figures["net_profit"] # Missing /\ figures["total_assets"] # Missing

\* _apply_regex_fallback: the first number behind a name, as printed.
Scrape ==
    /\ stage = "scrape"
    /\ \E found \in SUBSET {s \in Scraped : s.metric = "ebitda" \/ Abs(s.value) >= 1000} :
        /\ OnePerMetric(found)
        /\ figures' = [k \in Keys |->
                IF Of(found, k) # {} /\ figures[k] = Missing /\ ~Blocked(k)
                THEN The(Of(found, k)).value ELSE figures[k]]
    /\ stage' = "done"
    /\ UNCHANGED <<doc, raw, seen, cells, codes, parsed, best, chunk, meta>>

Next ==
    \/ \E s \in Sightings : TableCell(s)
    \/ CollectHeadingTotals
    \/ CollectText
    \/ CollectFormCodes
    \/ CollectBalanceTotals
    \/ CollectProfitSection
    \/ DeriveMissing
    \/ BuildMetadata
    \/ SkipLlm
    \/ \E answer \in Answers : ChunkAnswered(answer)
    \/ AskAgain
    \/ ChunkLost
    \/ MergeLlm
    \/ ApplyOverrides
    \/ ApplyFilter
    \/ Scrape

Spec == Init /\ [][Next]_vars

-----------------------------------------------------------------------------
(* Properties                                                               *)

Stages ==
    {"tables", "text_code", "form_code", "keyword", "broad", "balance", "profit_section",
     "derive", "build", "llm", "override", "filter", "scrape", "done"}
Collecting ==
    {"tables", "text_code", "form_code", "keyword", "broad", "balance", "profit_section"}

\* Candidates and metadata are of the kinds that the code knows: every profile
\* has a baseline of confidence (get_profile raises otherwise) and every state
\* of metadata is one that validate_public_metadata_state lets pass.
TypeOK ==
    /\ doc \in Documents /\ stage \in Stages
    /\ cells \in 0 .. MaxCells
    /\ chunk \in [sent : 0 .. MaxChunks, again : BOOLEAN]
    /\ raw \in [Metrics -> CandidateSet \cup {Missing}]
    /\ seen \in [Metrics -> Seq(CandidateSet)]
    /\ codes \in [{"revenue", "net_profit"} -> Int \cup {Missing}]
    /\ \A readings \in {parsed, best, meta} :
            /\ readings \in [Keys -> MetadataSet]
            /\ \A k \in Keys : ValidState(readings[k])
    /\ figures \in [Keys -> Int \cup {Missing}]

\* In whatever order tables and passes give the candidates of a metric, the one
\* kept is the first that no other outranks, and its conflicts are the
\* competing candidates that came after it (_raw_set of ranking.py).
StrongestWins ==
    stage \in Collecting =>
        \A m \in Metrics :
            IF seen[m] = <<>> THEN raw[m] = Missing
            ELSE \E i \in DOMAIN seen[m] :
                    /\ \A j \in DOMAIN seen[m] : ~Outranks(seen[m][j], seen[m][i])
                    /\ \A j \in 1 .. i - 1 : Outranks(seen[m][i], seen[m][j])
                    /\ raw[m] = [seen[m][i] EXCEPT !.conflicts =
                                    Cardinality({j \in i + 1 .. Len(seen[m]) :
                                                    Competes(seen[m][j], seen[m][i])})]

\* A consolidated form without tables whose profit exceeds 60 percent of its revenue
\* keeps both only when both were read at their line codes, before anything is derived
\* from them (_apply_form_like_pnl_sanity); later figures are not tested.
ProfitFitsRevenue ==
    (stage = "derive" /\ doc.form /\ ~doc.tables /\ ~doc.standalone) =>
        \/ ~Implausible(raw)
        \/ codes["revenue"] # Missing /\ codes["net_profit"] # Missing

\* What the parser hands on, before the model is asked: liabilities that were
\* inferred balance, that is, with assets and equity known they are within 1000
\* units, or five percent, of the difference; in a document that is a balance
\* sheet no part exceeds its whole (guardrails.py 529-629).
BalanceAddsUp ==
    stage = "llm" =>
        /\ LET total == parsed["total_assets"].value
               equity == parsed["equity"].value
               owed == parsed["liabilities"]
           IN  /\ Mode(owed) = "derived" /\ owed.value # Missing
               /\ total # Missing /\ equity # Missing
               /\ Valid((total - equity) \div doc.scale)
               => \/ Abs(owed.value - (total - equity)) <= 1000 * doc.scale
                  \/ 20 * Abs(owed.value - (total - equity)) <= Abs(total - equity)
        /\ doc.balance =>
                /\ \A k \in PartsOfAssets : ~Exceeds(parsed, k, "total_assets")
                /\ \A k \in {"cash_and_equivalents", "inventory"} :
                        ~Exceeds(parsed, k, "current_assets")
                /\ ~Exceeds(parsed, "short_term_liabilities", "liabilities")

\* Whatever parser and model made of them, the readings that pass the filter for a
\* known issuer are within ten percent of the known figures (issuer_fallback); of what
\* replaces a reading that does not pass it says nothing.
KnownIssuerIsRight ==
    (stage \in {"scrape", "done"} /\ doc.issuer) =>
        \A k \in DOMAIN IssuerFigures :
            Survives(meta[k]) =>
                10 * Abs(meta[k].value - IssuerFigures[k]) <= Abs(IssuerFigures[k])

\* A figure that the parser read off the document and trusts is reported, and
\* neither the model nor the regular expressions put one of another sign or of
\* another order of magnitude in its place; only what is known of the issuer
\* may (should_prefer_llm_metric, _apply_regex_fallback).
ConfidentReadingHolds ==
    stage = "done" =>
        \A k \in Keys :
            (Survives(parsed[k]) /\ Mode(parsed[k]) = "direct") =>
                /\ figures[k] # Missing
                /\ \/ figures[k] = parsed[k].value
                   \/ Authoritative(meta[k]) /\ figures[k] = meta[k].value
                   \/ Comparable(figures[k], parsed[k].value)
=================================================================================
