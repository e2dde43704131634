-------------------------------- MODULE Scoring --------------------------------
(***************************************************************************)
(* The integral score of one document (src/analysis/scoring.py): its       *)
(* methodology, the weighted sum of the ratios that can be used, the caps  *)
(* of the data-quality guardrails and the level of risk.                   *)
(*                                                                         *)
(* A score is counted in hundredths, a ratio in ten-thousandths, a weight  *)
(* in percent.  A document is                                              *)
(*   [figures  |-> a function of the extracted figures, Missing if None,   *)
(*    markers  |-> the interim markers in its file name and its text,      *)
(*    retail   |-> whether these name a retail chain,                      *)
(*    override |-> whether a figure comes from an issuer override,         *)
(*    leases   |-> whether it reports lease liabilities].                  *)
(***************************************************************************)
EXTENDS Ratios

-----------------------------------------------------------------------------
(* Weights and benchmarks                                                   *)

WEIGHTS ==
    [ current_ratio |-> 15, quick_ratio |-> 7, absolute_liquidity_ratio |-> 3,
      roa |-> 10, roe |-> 10, ros |-> 8, ebitda_margin |-> 7,
      equity_ratio |-> 12, financial_leverage |-> 8, interest_coverage |-> 5,
      asset_turnover |-> 5, inventory_turnover |-> 5, receivables_turnover |-> 5 ]

Scored == DOMAIN WEIGHTS

\* BENCHMARKS_BY_PROFILE; less is better for the leverage alone.
Targets ==
    [ generic |->
        [ current_ratio |-> 20000, quick_ratio |-> 10000, absolute_liquidity_ratio |-> 2000,
          roa |-> 800, roe |-> 1500, ros |-> 1000, ebitda_margin |-> 1500,
          equity_ratio |-> 5000, financial_leverage |-> 10000, interest_coverage |-> 30000,
          asset_turnover |-> 10000, inventory_turnover |-> 80000, receivables_turnover |-> 80000 ],
      retail_demo |->
        [ current_ratio |-> 10000, quick_ratio |-> 7000, absolute_liquidity_ratio |-> 1000,
          roa |-> 500, roe |-> 1200, ros |-> 400, ebitda_margin |-> 800,
          equity_ratio |-> 3500, financial_leverage |-> 20000, interest_coverage |-> 20000,
          asset_turnover |-> 15000, inventory_turnover |-> 100000, receivables_turnover |-> 100000 ] ]

LowerIsBetter == {"financial_leverage"}

\* _ANOMALY_LIMITS, in ten-thousandths.
AnomalyLimits ==
    [ roa |-> <<-10000, 20000>>, roe |-> <<-50000, 50000>>, ros |-> <<-20000, 20000>>,
      ebitda_margin |-> <<-20000, 20000>>, equity_ratio |-> <<-10000, 15000>>,
      financial_leverage |-> <<0, 1000000>>, interest_coverage |-> <<-500000, 5000000>>,
      asset_turnover |-> <<0, 500000>>, inventory_turnover |-> <<0, 5000000>>,
      receivables_turnover |-> <<0, 5000000>> ]

\* A multiple of every target, so that a normalised ratio is a whole number of
\* parts of it.
Whole == [generic |-> 240000, retail_demo |-> 2100000]

-----------------------------------------------------------------------------
(* The weighted sum                                                         *)

Anomalous(ratio, value) ==
    /\ ratio \in DOMAIN AnomalyLimits
    /\ \/ value < AnomalyLimits[ratio][1]
       \/ value > AnomalyLimits[ratio][2]

\* _normalize_ratio: 0 to Whole[profile], or Missing when it cannot be used.
Normalized(profile, ratio, value) ==
    LET target == Targets[profile][ratio]
        part == Whole[profile] \div target
    IN  CASE value = Missing -> Missing
          [] value # Missing /\ Anomalous(ratio, value) -> Missing
          [] value # Missing /\ ~Anomalous(ratio, value) /\ ratio \in LowerIsBetter ->
                IF value <= 0 THEN Missing
                ELSE IF value >= 2 * target THEN 0
                ELSE Whole[profile] - value * (part \div 2)
          [] OTHER -> IF value <= 0 THEN 0
                      ELSE IF value >= target THEN Whole[profile] ELSE value * part

\* Summand by summand: a fold is out of reach of the provers.
SumOf(f) ==
    f["current_ratio"] + f["quick_ratio"] + f["absolute_liquidity_ratio"]
    + f["roa"] + f["roe"] + f["ros"] + f["ebitda_margin"]
    + f["equity_ratio"] + f["financial_leverage"] + f["interest_coverage"]
    + f["asset_turnover"] + f["inventory_turnover"] + f["receivables_turnover"]

\* Four more decimal digits of w / d by long division: w and d fill 31 bits.
NextDigit(s, d) ==
    [quotient |-> 10 * s.quotient + (10 * s.rest) \div d, rest |-> (10 * s.rest) % d]
Digits(w, d) ==
    LET point == [quotient |-> w \div d, rest |-> w % d]
    IN  NextDigit(NextDigit(NextDigit(NextDigit(point, d), d), d), d)

\* _risk_level: every threshold is a whole number of points.
RiskLevel(hundredths) ==
    CASE hundredths >= 7500 -> "low"
      [] hundredths < 7500 /\ hundredths >= 5500 -> "medium"
      [] hundredths < 5500 /\ hundredths >= 3500 -> "high"
      [] OTHER -> "critical"

\* calculate_integral_score: what is missing gives its weight to the others;
\* the level is that of the score before it is rounded.
IntegralScore(ratios, profile) ==
    LET norm == [r \in Scored |-> Normalized(profile, r, ratios[r])]
        Used(f) == [r \in Scored |-> IF norm[r] # Missing THEN f[r] ELSE 0]
        weight == SumOf(Used(WEIGHTS))
        whole == weight * Whole[profile]
        total == Digits(SumOf(Used([r \in Scored |-> norm[r] * WEIGHTS[r]])), whole)
    IN  IF weight = 0 THEN [score |-> 0, risk |-> RiskLevel(0), confidence |-> 0]
        ELSE [score |-> IF 2 * total.rest >= whole THEN total.quotient + 1 ELSE total.quotient,
              risk |-> RiskLevel(total.quotient),
              confidence |-> weight]

-----------------------------------------------------------------------------
(* Methodology                                                              *)

\* The structure test of a retail chain reads turnovers of the document on its
\* own, and these are never known: averages need a period before.
RetailByStructure(figures, ratios) ==
    /\ figures["inventory"] # Missing
    /\ \/ ratios["asset_turnover"] # Missing /\ ratios["asset_turnover"] >= 12000
       \/ ratios["receivables_turnover"] # Missing /\ ratios["receivables_turnover"] >= 200000

\* _detect_benchmark_profile; setting is the override, "generic" when there is none.
BenchmarkProfile(doc, ratios, setting) ==
    IF setting # "generic" THEN setting
    ELSE IF doc.retail \/ RetailByStructure(doc.figures, ratios) THEN "retail_demo"
    ELSE "generic"

\* _detect_period_basis: a marker of a quarter outweighs one of a half-year.
PeriodBasis(doc) ==
    IF doc.figures["revenue"] = Missing THEN "reported"
    ELSE IF "q1" \in doc.markers THEN "annualized_q1"
    ELSE IF "h1" \in doc.markers THEN "annualized_h1"
    ELSE "reported"

Values(derived) == [r \in DOMAIN derived |-> derived[r].value]

\* resolve_scoring_methodology, from the ratios of the document on its own.
Methodology(doc, setting) ==
    [profile |-> BenchmarkProfile(doc, Values(RatiosOfDocument(doc.figures)), setting),
     basis |-> PeriodBasis(doc)]

AnnualizedKeys == {"revenue", "net_profit", "ebitda", "interest_expense"}
Factor == [reported |-> 1, annualized_q1 |-> 4, annualized_h1 |-> 2]

\* annualize_metrics_for_period.
Annualize(figures, basis) ==
    [key \in DOMAIN figures |->
        IF key \in AnnualizedKeys /\ figures[key] # Missing
        THEN Factor[basis] * figures[key] ELSE figures[key]]

\* _apply_scoring_methodology_adjustments: the leverage by debt alone replaces
\* the total one for a retail chain, when it is known.
Adjusted(ratios, method, figures, doc) ==
    LET byDebt == /\ method.profile = "retail_demo"
                  /\ ratios["financial_leverage_debt_only"] # Missing
    IN  [ratios |-> [ratios EXCEPT !["financial_leverage"] =
                        IF byDebt THEN ratios["financial_leverage_debt_only"]
                        ELSE ratios["financial_leverage_total"]],
         adjustments |->
            (IF byDebt THEN {"leverage_debt_only"} ELSE {})
            \union (IF figures["interest_expense"] # Missing /\ figures["interest_expense"] < 0
                    THEN {"interest_coverage_sign_corrected"} ELSE {})
            \union (IF doc.override THEN {"issuer_override"} ELSE {}),
         ifrs16 |-> byDebt \/ doc.leases \/ doc.override]

-----------------------------------------------------------------------------
(* Guardrails                                                               *)

CoreKeys == {"revenue", "total_assets", "liabilities", "current_assets", "short_term_liabilities"}
SupportingKeys == {"net_profit", "equity"}

MissingOf(figures, keys) == {key \in keys : figures[key] = Missing}

\* The strictest cap that applies and why; 10000 is no cap.
Cap(figures, confidence) ==
    IF MissingOf(figures, CoreKeys) # {}
    THEN [score |-> 3999, why |-> MissingOf(figures, CoreKeys)]
    ELSE IF MissingOf(figures, SupportingKeys) # {}
    THEN [score |-> 5499, why |-> MissingOf(figures, SupportingKeys)]
    ELSE IF confidence < 40 THEN [score |-> 5999, why |-> {"low_confidence"}]
    ELSE [score |-> 10000, why |-> {}]

\* Mutant: the score is capped and the level left.
GuardedScoreOnly(raw, figures) ==
    LET cap == Cap(figures, raw.confidence)
    IN  [score |-> IF raw.score > cap.score THEN cap.score ELSE raw.score, risk |-> raw.risk,
         confidence |-> raw.confidence, guardrails |-> cap.why]

\* apply_data_quality_guardrails: the level changes only with the score.
Guarded(raw, figures) ==
    LET cap == Cap(figures, raw.confidence)
    IN  IF raw.score > cap.score
        THEN [score |-> cap.score, risk |-> RiskLevel(cap.score),
              confidence |-> raw.confidence, guardrails |-> cap.why]
        ELSE [score |-> raw.score, risk |-> raw.risk,
              confidence |-> raw.confidence, guardrails |-> {}]

\* calculate_score_from_precomputed_ratios.
ScoreFrom(figures, ratios, method, doc) ==
    LET adjusted == Adjusted(ratios, method, figures, doc)
        guarded == Guarded(IntegralScore(adjusted.ratios, method.profile), figures)
    IN  [ratios |-> adjusted.ratios, score |-> guarded.score, risk |-> guarded.risk,
         confidence |-> guarded.confidence, guardrails |-> guarded.guardrails,
         profile |-> method.profile, basis |-> method.basis,
         adjustments |-> adjusted.adjustments, ifrs16 |-> adjusted.ifrs16]

\* calculate_score_with_context: one document, analysed alone.
ScoreOfDocument(doc, setting) ==
    LET method == Methodology(doc, setting)
        figures == Annualize(doc.figures, method.basis)
    IN  ScoreFrom(figures, Values(RatiosOfDocument(figures)), method, doc)
==============================================================================
