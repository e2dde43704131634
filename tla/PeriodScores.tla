----------------------------- MODULE PeriodScores -----------------------------
(***************************************************************************)
(* The ratios and scores of a session (src/tasks.py, the extraction loop   *)
(* of process_multi_analysis, _assemble_multi_period_results and what it   *)
(* calls).  Periods are read one after the other and any of them may fail; *)
(* when the last one is done, or a cancellation is noticed between two,    *)
(* those that were read are compared with each other and scored, and all   *)
(* are sorted.  The rows and messages of a session are in MultiSession.    *)
(***************************************************************************)
EXTENDS Scoring, SequencesExt

CONSTANTS
    Labels,        \* labels a session may give its periods
    Documents,     \* documents that extraction may return, see Scoring
    MaxPeriods     \* bound: periods of a session

FigureKeys ==
    {"revenue", "net_profit", "total_assets", "equity", "liabilities", "current_assets",
     "short_term_liabilities", "cash_and_equivalents", "inventory", "interest_expense", "ebitda"}

PeriodClasses == {"FY", "Q1", "Q2", "H1", "Q3", "Q4"}

ASSUME PeriodScoresAssumption ==
    /\ MaxPeriods \in Nat \ {0}
    /\ Missing \notin Int
    /\ Labels \subseteq [class : PeriodClasses, year : Nat] \cup {Unreadable}
    /\ \A doc \in Documents : doc.figures \in [FigureKeys -> Int \cup {Missing}]

VARIABLES
    periods,    \* the labels of the session, as they were uploaded
    next,       \* the period that is read next
    extracted,  \* extracted_periods: what was read
    failed,     \* failed_periods: labels of those that were not
    results     \* the periods of the stored result, <<>> before there is one

vars == <<periods, next, extracted, failed, results>>

-----------------------------------------------------------------------------
(* Sorting                                                                  *)

ClassOrder == [FY |-> 0, Q1 |-> 1, Q2 |-> 2, H1 |-> 2, Q3 |-> 3, Q4 |-> 4]

\* compatibility_sort_key as one number; what cannot be read goes last.
SortKey(l) == IF l = Unreadable THEN 999999 ELSE 100 * l.year + ClassOrder[l.class]

\* sort_periods_chronologically: by key, equal keys in the order they came.
Sorted(rs) ==
    LET Before(i, j) == \/ SortKey(rs[i].label) < SortKey(rs[j].label)
                        \/ (SortKey(rs[i].label) = SortKey(rs[j].label) /\ i <= j)
    IN  [k \in 1 .. Len(rs) |->
            rs[CHOOSE i \in DOMAIN rs : Cardinality({j \in DOMAIN rs : Before(j, i)}) = k]]

-----------------------------------------------------------------------------
(* Comparison and scores                                                    *)

\* The label of a period takes the place of its file name.
LabelMarkers(l) == CASE l.class = "Q1" -> {"q1"} [] l.class = "H1" -> {"h1"} [] OTHER -> {}
InSession(period) ==
    [period.doc EXCEPT !.markers = @ \union LabelMarkers(period.label)]

\* _resolve_multi_period_methodology: the setting is not passed on.
PeriodMethodology(period) == Methodology(InSession(period), "generic")

BasisFigures(period) == Annualize(period.doc.figures, PeriodMethodology(period).basis)

\* run_comparative_math for every period that was read.
Compared(ps) ==
    [i \in DOMAIN ps |->
        RatiosOfPeriod([j \in DOMAIN ps |-> ps[j].label],
                       [j \in DOMAIN ps |-> BasisFigures(ps[j])], i)]

\* _score_comparative_period.
Score(period, derived) ==
    ScoreFrom(BasisFigures(period), Values(derived), PeriodMethodology(period),
              period.doc)

\* Results are records of one shape; a period that failed has no score.
Scores(ps) ==
    LET compared == Compared(ps)
    IN  [i \in DOMAIN ps |->
            [label |-> ps[i].label, read |-> TRUE, doc |-> ps[i].doc,
             derived |-> compared[i], score |-> Score(ps[i], compared[i])]]

Errors(ls) == [i \in DOMAIN ls |-> [label |-> ls[i], read |-> FALSE]]

\* _assemble_multi_period_results: the failed ones first, then all are sorted.
Assembled(ps, ls) == Sorted(Errors(ls) \o Scores(ps))

-----------------------------------------------------------------------------
Init ==
    /\ periods \in UNION {[1 .. n -> Labels] : n \in 1 .. MaxPeriods}
    /\ next = 1
    /\ extracted = <<>>
    /\ failed = <<>>
    /\ results = <<>>

Running == results = <<>>

\* _process_single_period returns figures.
ReadPeriod(doc) ==
    /\ Running /\ next <= Len(periods)
    /\ extracted' = Append(extracted, [label |-> periods[next], doc |-> doc])
    /\ next' = next + 1
    /\ UNCHANGED <<periods, failed, results>>

\* _process_single_period returns an error.
FailPeriod ==
    /\ Running /\ next <= Len(periods)
    /\ failed' = Append(failed, periods[next])
    /\ next' = next + 1
    /\ UNCHANGED <<periods, extracted, results>>

\* The end of the loop.
Assemble ==
    /\ Running /\ next > Len(periods)
    /\ results' = Assembled(extracted, failed)
    /\ UNCHANGED <<periods, next, extracted, failed>>

\* _finalize_multi_analysis_cancellation: what was collected so far is kept,
\* unless that is nothing.
CancelSession ==
    /\ Running /\ next <= Len(periods) /\ next > 1
    /\ results' = Assembled(extracted, failed)
    /\ UNCHANGED <<periods, next, extracted, failed>>

Next ==
    \/ \E doc \in Documents : ReadPeriod(doc)
    \/ FailPeriod
    \/ Assemble
    \/ CancelSession

Spec == Init /\ [][Next]_vars

-----------------------------------------------------------------------------
(* Properties                                                               *)

Read == {i \in DOMAIN results : results[i].read}

ScoreOK(s) ==
    /\ s.score \in 0 .. 10000
    /\ s.confidence \in 0 .. 100
    /\ s.risk \in {"low", "medium", "high", "critical"}
    /\ s.profile \in DOMAIN Targets
    /\ s.basis \in DOMAIN Factor

\* Type invariant: every stored period has a score within its bounds, or an
\* error.
TypeOK ==
    /\ periods \in Seq(Labels) /\ next \in 1 .. Len(periods) + 1
    /\ extracted \in Seq([label : Labels, doc : Documents])
    /\ failed \in Seq(Labels)
    /\ \A i \in Read : ScoreOK(results[i].score)

\* A ratio on an average balance is the one a reader would compute by hand: the
\* year before is in the session exactly once and was read, so is the period,
\* both balances are reported, their sum is positive, and the flow is known.
\* Nothing else gives it a value (comparative.py, engine.py).  A balance below
\* zero, which no other ratio accepts, takes part as it is.
ByHand(i, flow, base) ==
    LET me == results[i]
        Same(l) == {j \in Read : results[j].label = l /\ l # Unreadable}
        before == Same([class |-> "FY", year |-> me.label.year - 1])
        factor == Factor[me.score.basis]
    IN  IF \/ me.label.class \notin {"FY", "Q1", "H1"}
           \/ Cardinality(Same(me.label)) # 1 \/ Cardinality(before) # 1
        THEN Missing
        ELSE LET prior == results[CHOOSE j \in before : TRUE]
                 opening == prior.doc.figures[base]
                 closing == me.doc.figures[base]
                 amount == me.doc.figures[flow]
             IN  IF \/ Missing \in {opening, closing, amount}
                    \/ (flow = "revenue" /\ amount # Missing /\ amount < 0)
                 THEN Missing
                 ELSE IF opening + closing <= 0 THEN Missing
                 ELSE Quantized(2 * factor * amount, opening + closing)

AveragesAreAdjacent ==
    \A i \in Read :
        /\ results[i].derived["roa"].value = ByHand(i, "net_profit", "total_assets")
        /\ results[i].derived["roe"].value = ByHand(i, "net_profit", "equity")
        /\ results[i].derived["asset_turnover"].value = ByHand(i, "revenue", "total_assets")

\* The order in which the files of a session were uploaded does not change what
\* is said of any of them.
OrderDoesNotMatter ==
    results # <<>> =>
        LET reversed == Assembled(Reverse(extracted), Reverse(failed))
        IN  {results[i] : i \in DOMAIN results} = {reversed[i] : i \in DOMAIN reversed}

\* Every metric that leaves the math layer passes validate_final_outward_emission:
\* the ValueError it raises would fail the whole session after its last period.
EmissionNeverRefused == \A i \in Read : \A m \in Metrics : MayBeEmitted(results[i].derived[m])

Severity == [low |-> 0, medium |-> 1, high |-> 2, critical |-> 3]

\* A level of risk is never better than the score shown beside it says, medium
\* needs every core and supporting figure, and low also ratios of at least two
\* fifths of the weights (apply_data_quality_guardrails).
Earned(s, figures) ==
    /\ Severity[s.risk] >= Severity[RiskLevel(s.score)]
    /\ s.risk \in {"low", "medium"} => MissingOf(figures, CoreKeys \union SupportingKeys) = {}
    /\ s.risk = "low" => s.confidence >= 40

\* Every level of risk is earned, that of a period in its session as well as that
\* of the same document analysed alone, whatever profile is configured
\* (calculate_score_from_precomputed_ratios, calculate_score_with_context).
RiskIsEarned ==
    \A i \in Read :
        /\ Earned(results[i].score, results[i].doc.figures)
        /\ \A setting \in DOMAIN Targets :
                Earned(ScoreOfDocument(results[i].doc, setting), results[i].doc.figures)
==============================================================================
