-------------------------------- MODULE Ratios --------------------------------
(***************************************************************************)
(* The math layer: ratios of one set of figures (src/analysis/math/engine, *)
(* registry, precompute, eligibility, coverage, validators, normalization, *)
(* rounding, reason_resolution, emission_guard) and the linking of the     *)
(* periods of a session (comparative, periods).                            *)
(*                                                                         *)
(* A figure is an integer or Missing; an input is a figure with the reason *)
(* codes it carries, and a key that is not given is a missing figure with  *)
(* none.  A ratio is counted in ten-thousandths, the precision of          *)
(* RATIO_STANDARD.  All figures are amounts of money, so units never       *)
(* differ, and the extraction metadata never names a unit or a currency.   *)
(* Every family with a resolver is suppressed in the registry, so the      *)
(* resolvers do not run and their candidates decide nothing.               *)
(***************************************************************************)
EXTENDS Integers, Sequences, FiniteSetsExt

CONSTANT Missing   \* None: a figure that is not known

-----------------------------------------------------------------------------
(* Reasons                                                                  *)

\* The ladder of reason_resolution, ties broken by the name of the code.
ReasonLadder ==
    << "REQUIRED_INPUT_MISSING", "COMPUTE_BASIS_MISSING", "DENOMINATOR_INPUT_MISSING",
       "DENOMINATOR_POLICY_REFUSED", "INPUT_UNEXPECTED_NEGATIVE",
       "AVERAGE_BALANCE_CONTEXT_MISSING", "FORBIDDEN_APPROXIMATION",
       "INCOMPATIBLE_CLOSING_BASIS", "INCOMPATIBLE_OPENING_BASIS",
       "MISSING_CLOSING_BALANCE", "MISSING_OPENING_BALANCE",
       "DUPLICATE_PERIOD_ID", "UNSUPPORTED_PERIOD_CLASS",
       "INTENTIONALLY_SUPPRESSED" >>

CoverageCodes == {"INTENTIONALLY_SUPPRESSED"}

Ordered(codes) ==
    LET places == {i \in DOMAIN ReasonLadder : ReasonLadder[i] \in codes}
        Rank(i) == Cardinality({j \in places : j <= i})
    IN  [k \in 1 .. Cardinality(places) |-> ReasonLadder[CHOOSE i \in places : Rank(i) = k]]

\* Mutant: the reasons of a suppressed metric are ordered like any others.
OutwardReasonsLadder(state, codes) == Ordered(codes)

\* The reasons of a metric without a value, the primary one first.
OutwardReasons(state, codes) ==
    IF state = "suppressed"
    THEN <<"INTENTIONALLY_SUPPRESSED">> \o Ordered(codes \ CoverageCodes)
    ELSE IF codes = {} THEN <<"COMPUTE_BASIS_MISSING">> ELSE Ordered(codes)

Refused(state, codes) ==
    [state |-> state, value |-> Missing, reasons |-> OutwardReasons(state, codes)]

Valid(value) == [state |-> "valid", value |-> value, reasons |-> <<>>]

\* What validate_final_outward_emission accepts: a metric without a value names
\* a primary reason, and the coverage codes are for suppressed metrics alone.
MayBeEmitted(m) ==
    \/ m.state = "valid" /\ m.value # Missing
    \/ /\ m.state = "suppressed"
       /\ m.reasons # <<>> /\ m.reasons[1] \in CoverageCodes
    \/ /\ m.state = "invalid"
       /\ m.reasons # <<>> /\ m.reasons[1] \notin CoverageCodes

-----------------------------------------------------------------------------
(* The registry                                                             *)

BaseKeys == {"total_assets", "equity"}
OpeningOf == [total_assets |-> "opening_total_assets", equity |-> "opening_equity"]
ClosingOf == [total_assets |-> "closing_total_assets", equity |-> "closing_equity"]
AverageOf == [total_assets |-> "average_total_assets", equity |-> "average_equity"]

Plain(num, den) ==
    [num |-> num, den |-> den, base |-> "none", coverage |-> "full", policy |-> "strict_positive"]
Average(num, base) ==
    [num |-> num, den |-> AverageOf[base], base |-> base, coverage |-> "full",
     policy |-> "strict_positive"]
Suppressed(inputs) ==
    [num |-> inputs[1], den |-> inputs[2], base |-> "none", coverage |-> "suppressed",
     policy |-> "none"]

REGISTRY ==
    [ current_ratio                |-> Plain("current_assets", "short_term_liabilities"),
      absolute_liquidity_ratio     |-> Plain("cash_and_equivalents", "short_term_liabilities"),
      ros                          |-> Plain("net_profit", "revenue"),
      equity_ratio                 |-> Plain("equity", "total_assets"),
      ebitda_margin                |-> Suppressed(<<"ebitda_reported", "revenue">>),
      quick_ratio                  |-> Suppressed(<<"none", "none">>),
      roa                          |-> Average("net_profit", "total_assets"),
      roe                          |-> Average("net_profit", "equity"),
      financial_leverage           |-> Suppressed(<<"none", "none">>),
      financial_leverage_total     |-> Suppressed(<<"none", "none">>),
      financial_leverage_debt_only |-> Suppressed(<<"none", "none">>),
      interest_coverage            |-> Suppressed(<<"none", "none">>),
      asset_turnover               |-> Average("revenue", "total_assets"),
      inventory_turnover           |-> Suppressed(<<"none", "none">>),
      receivables_turnover         |-> Suppressed(<<"none", "none">>) ]

Metrics == DOMAIN REGISTRY

\* INPUT_DOMAIN_CONSTRAINTS: one metric that declares an input non-negative
\* makes it so for all of them.
NonNegative ==
    {"current_assets", "short_term_liabilities", "cash_and_equivalents", "revenue",
     "equity", "total_assets", "average_total_assets", "average_equity"}

-----------------------------------------------------------------------------
(* Inputs and candidates                                                    *)

Input(value, reasons) == [value |-> value, reasons |-> reasons]
NoInput == Input(Missing, {})

Given(inputs, key) == IF key \in DOMAIN inputs THEN inputs[key] ELSE NoInput

\* validate_input_semantics: a refused figure is dropped, its reason stays.
Validated(key, in) ==
    IF in.value # Missing /\ key \in NonNegative /\ in.value < 0
    THEN Input(Missing, in.reasons \union {"INPUT_UNEXPECTED_NEGATIVE"})
    ELSE in

NormalizeInputs(raw) == [key \in DOMAIN raw |-> Validated(key, raw[key])]

\* _candidate_state of a reported figure.
CandidateState(in) ==
    IF in.value = Missing THEN "MISSING" ELSE IF in.reasons # {} THEN "INVALID" ELSE "READY"

\* validate_average_balance_basis: the reasons that refuse, none when eligible.
BasisRefusal(opening, closing) ==
    CASE CandidateState(opening) = "MISSING" -> {"MISSING_OPENING_BALANCE", "FORBIDDEN_APPROXIMATION"}
      [] CandidateState(opening) = "INVALID" -> {"INCOMPATIBLE_OPENING_BASIS"}
      [] CandidateState(closing) = "MISSING" -> {"MISSING_CLOSING_BALANCE"}
      [] CandidateState(closing) = "INVALID" -> {"INCOMPATIBLE_CLOSING_BASIS"}
      [] OTHER -> {}

\* The figure a formula reads, in halves so that an average is an integer: a
\* ready candidate loses its baggage, anything else is read as it was given.
ComputeInput(inputs, key) ==
    LET in == Given(inputs, key)
    IN  IF in.value = Missing THEN in ELSE Input(2 * in.value, in.reasons)

\* The average is computed again from both balances; the one that comparative
\* prepared is not used.
AverageInput(inputs, base) ==
    Input(Given(inputs, OpeningOf[base]).value + Given(inputs, ClosingOf[base]).value, {})

-----------------------------------------------------------------------------
(* One metric                                                               *)

\* classify_denominator; figures are finite, and none but 0 is near zero.
DenominatorClass(value) ==
    CASE value = Missing                -> "missing"
      [] value # Missing /\ value = 0   -> "zero"
      [] value # Missing /\ value < 0   -> "negative"
      [] OTHER                          -> "positive"

\* evaluate_denominator_policy; a policy it does not know refuses.
Allowed(policy, class) ==
    \/ policy = "strict_positive" /\ class = "positive"
    \/ policy = "allow_any_non_zero" /\ class \in {"positive", "negative"}

\* _validate_denominator_policy; no policy refuses nothing.
DenominatorRefusal(policy, value) ==
    IF policy = "none" THEN {}
    ELSE IF DenominatorClass(value) = "missing" THEN {"DENOMINATOR_INPUT_MISSING"}
    ELSE IF Allowed(policy, DenominatorClass(value)) THEN {}
    ELSE {"DENOMINATOR_POLICY_REFUSED"}

\* n / d in ten-thousandths, half to even (d > 0).
Quantized(n, d) ==
    LET q == (10000 * n) \div d
        r == (10000 * n) % d
    IN  IF 2 * r < d \/ (2 * r = d /\ q % 2 = 0) THEN q ELSE q + 1

\* The computation of a ratio, behind guards of its own.
Divided(n, d) ==
    IF n = Missing \/ d = Missing THEN Refused("invalid", {})
    ELSE IF d = 0 THEN Refused("invalid", {})
    ELSE Valid(Quantized(n, d))

\* _compute_metric after eligibility and coverage: input reasons first, then
\* the denominator together with what is missing, then the division.
Formula(num, den, policy) ==
    LET carried == num.reasons \union den.reasons
        refused == DenominatorRefusal(policy, den.value)
                   \union (IF num.value = Missing THEN {"REQUIRED_INPUT_MISSING"} ELSE {})
    IN  IF carried # {} THEN Refused("invalid", carried)
        ELSE IF refused # {} THEN Refused("invalid", refused)
        ELSE Divided(num.value, den.value)

ComputeMetric(def, inputs) ==
    LET basis == IF def.base = "none" THEN {}
                 ELSE BasisRefusal(Given(inputs, OpeningOf[def.base]),
                                   Given(inputs, ClosingOf[def.base]))
        carried == Given(inputs, def.num).reasons \union Given(inputs, def.den).reasons
        den == IF def.base = "none" THEN ComputeInput(inputs, def.den)
               ELSE AverageInput(inputs, def.base)
    IN  IF basis # {} THEN Refused("invalid", basis \union carried)
        ELSE IF def.coverage = "suppressed"
             THEN Refused("suppressed", CoverageCodes \union carried)
        ELSE Formula(ComputeInput(inputs, def.num), den, def.policy)

Compute(inputs) == [m \in Metrics |-> ComputeMetric(REGISTRY[m], inputs)]

\* calculate_ratios: one document on its own.
RatiosOfDocument(figures) ==
    Compute(NormalizeInputs([key \in DOMAIN figures |-> Input(figures[key], {})]))

-----------------------------------------------------------------------------
(* Periods of a session: a label is a class and a year, or unreadable       *)

Unreadable == [class |-> "none", year |-> 0]
StrictClasses == {"FY", "Q1", "H1"}

\* The indices of the documents that carry the label l.
Carrying(labels, l) == {i \in DOMAIN labels : labels[i] = l /\ l # Unreadable}

Duplicated(labels, l) == Cardinality(Carrying(labels, l)) > 1

\* _lookup_opening_balance / _lookup_prior_comparable: the year before.
YearBefore(l, class) == [class |-> class, year |-> l.year - 1]

\* Mutant: the index keeps one document of each label.
LinkToLatest(labels, l, class) ==
    LET found == Carrying(labels, YearBefore(l, class))
    IN  IF l.class \in StrictClasses /\ found # {}
        THEN {CHOOSE i \in found : \A j \in found : j <= i} ELSE {}

\* The period of the index that a link leads to, {} when there is none.
LinkTo(labels, l, class) ==
    IF l.class \in StrictClasses /\ ~Duplicated(labels, l)
       /\ ~Duplicated(labels, YearBefore(l, class))
    THEN Carrying(labels, YearBefore(l, class))
    ELSE {}

\* Mutant: the period before of the same class.
OpeningLinkPrior(labels, l) == LinkTo(labels, l, l.class)

OpeningLink(labels, l) == LinkTo(labels, l, "FY")
PriorLink(labels, l) == LinkTo(labels, l, l.class)

Comparability(labels, l) ==
    IF l.class \notin StrictClasses \/ Duplicated(labels, l) \/ OpeningLink(labels, l) = {}
    THEN "not_comparable"
    ELSE IF PriorLink(labels, l) = {} THEN "partially_comparable" ELSE "comparable"

\* _build_average_balance_reasons, together with the flags it filters.
BasisReasons(labels, l) ==
    (IF l # Unreadable /\ Duplicated(labels, l) THEN {"DUPLICATE_PERIOD_ID"} ELSE {})
    \union (IF l.class \notin StrictClasses THEN {"UNSUPPORTED_PERIOD_CLASS"} ELSE {})
    \union (IF OpeningLink(labels, l) = {} THEN {"MISSING_OPENING_BALANCE"} ELSE {})

\* _build_average_balance_inputs: the balances are the raw figures, not yet
\* validated; any reason sticks to both.
BalanceInputs(labels, figures, i, base) ==
    LET reasons == BasisReasons(labels, labels[i])
        closing == figures[i][base]
        opening == IF OpeningLink(labels, labels[i]) = {} THEN Missing
                   ELSE figures[CHOOSE j \in OpeningLink(labels, labels[i]) : TRUE][base]
        known == opening # Missing /\ closing # Missing /\ reasons = {}
    IN  [opening |-> Input(opening, reasons),
         closing |-> Input(closing, reasons),
         average |-> IF known THEN Input((opening + closing) \div 2, {})
                     ELSE Input(Missing, reasons \union {"AVERAGE_BALANCE_CONTEXT_MISSING"})]

PreparedInputs(labels, figures, i) ==
    LET balances == [b \in BaseKeys |-> BalanceInputs(labels, figures, i, b)]
        keys == DOMAIN figures[i] \union {OpeningOf[b] : b \in BaseKeys}
                \union {ClosingOf[b] : b \in BaseKeys} \union {AverageOf[b] : b \in BaseKeys}
        BaseOf(key) == CHOOSE b \in BaseKeys : key \in {OpeningOf[b], ClosingOf[b], AverageOf[b]}
    IN  [key \in keys |->
            IF key \in DOMAIN figures[i] THEN Input(figures[i][key], {})
            ELSE IF key = OpeningOf[BaseOf(key)] THEN balances[BaseOf(key)].opening
            ELSE IF key = ClosingOf[BaseOf(key)] THEN balances[BaseOf(key)].closing
            ELSE balances[BaseOf(key)].average]

\* run_comparative_math for the document at i.
RatiosOfPeriod(labels, figures, i) == Compute(NormalizeInputs(PreparedInputs(labels, figures, i)))
==============================================================================
