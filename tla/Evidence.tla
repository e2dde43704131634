-------------------------------- MODULE Evidence --------------------------------
(***************************************************************************)
(* What an extracted figure rests on and how far it is trusted             *)
(* (src/analysis/extractor/semantics, confidence_policy, ranking and       *)
(* runtime_decisions).  Confidence is counted in percent.                  *)
(*                                                                         *)
(* A profile is <<source, match, mode>>.  A candidate is                   *)
(*   [value, type, exact, quality, profile, reason, bonus, conflicts]:     *)
(* type and exact rank it among the candidates of a metric, bonus says     *)
(* that it carries the signal of a line code or of a section total.  The   *)
(* metadata of a figure is                                                 *)
(*   [value, confidence, profile, postprocess, reason, flagged].           *)
(* Only the second version of metadata is ever built, so the first one is  *)
(* never normalised.                                                       *)
(***************************************************************************)
EXTENDS Integers, Sequences

CONSTANT Missing   \* None

-----------------------------------------------------------------------------
(* The confidence policy                                                    *)

\* CALIBRATED_RUNTIME_CONFIDENCE_POLICY: what can be read off a document.
Baselines ==
    [ table |-> [exact |-> 92, code |-> 88, section |-> 80, keyword |-> 60],
      text  |-> [exact |-> 68, code |-> 74, section |-> 66, keyword |-> 56],
      ocr   |-> [exact |-> 56, code |-> 60, section |-> 58] ]

ReadOff(profile) ==
    profile[1] \in DOMAIN Baselines /\ profile[2] \in DOMAIN Baselines[profile[1]]

Derived == <<"derived", "na", "derived">>
Override == <<"issuer_fallback", "na", "policy_override">>
Mode(m) == m.profile[3]

\* The profiles of the policy; any other makes get_profile raise.
Supported(profile) ==
    \/ profile \in {Derived, Override}
    \/ ReadOff(profile) /\ profile[3] = "direct"
    \/ ReadOff(profile) /\ profile[3] = "approximation" /\ profile # <<"text", "exact", "approximation">>

Baseline(profile) ==
    CASE profile[3] = "direct"        -> Baselines[profile[1]][profile[2]]
      [] profile[3] = "approximation" -> 20
      [] profile[3] = "derived"       -> 35
      [] OTHER                        -> 95

QualityDelta(quality) ==
    CASE quality >= 110                 -> 5
      [] quality >= 90 /\ quality < 110 -> 3
      [] quality >= 75 /\ quality < 90  -> 0
      [] quality >= 60 /\ quality < 75  -> -6
      [] OTHER                          -> -10

\* Keywords of plain text, and what is not read off directly, earn no bonus.
StructuralBonus(c) ==
    IF c.bonus /\ Mode(c) = "direct" /\ c.profile # <<"text", "keyword", "direct">> THEN 2 ELSE 0

ConflictPenalty(conflicts) == IF conflicts >= 3 THEN -15 ELSE -5 * conflicts

Clamp(percent) == IF percent < 0 THEN 0 ELSE IF percent > 100 THEN 100 ELSE percent

\* build_policy_decision_log; a candidate is never guardrail_adjusted yet.
Confidence(c) ==
    Clamp(Baseline(c.profile) + QualityDelta(c.quality) + StructuralBonus(c)
          + ConflictPenalty(c.conflicts))

-----------------------------------------------------------------------------
(* Ranking of candidates                                                    *)

Priority(c) ==
    CASE c.type = "table" /\ c.exact  -> 3
      [] c.type = "text_regex"        -> 2
      [] c.type = "table" /\ ~c.exact -> 1
      [] OTHER                        -> 0

Outranks(new, old) ==
    \/ Priority(new) > Priority(old)
    \/ Priority(new) = Priority(old) /\ new.quality > old.quality

Abs(n) == IF n < 0 THEN -n ELSE n
Larger(a, b) == IF a > b THEN a ELSE b

\* More than 1000 apart, and more than one percent.
MateriallyDiffers(a, b) ==
    Abs(a - b) > 1000 /\ 100 * Abs(a - b) > Larger(Abs(a), Abs(b))

Competes(new, old) ==
    new.quality >= 60 /\ Mode(new) = "direct" /\ MateriallyDiffers(old.value, new.value)

\* Mutant: of two equals the later one is kept.
RankedLatest(new, old) ==
    IF old # Missing /\ Outranks(old, new) THEN old ELSE new

\* _raw_set: what is kept of a new candidate and the one there is.
Ranked(new, old) ==
    IF old = Missing THEN new
    ELSE IF Outranks(new, old) THEN new
    ELSE IF Competes(new, old) THEN [old EXCEPT !.conflicts = @ + 1]
    ELSE old

-----------------------------------------------------------------------------
(* Metadata                                                                 *)

NoFigure ==
    [value |-> Missing, confidence |-> 0, profile |-> Derived, postprocess |-> "none",
     reason |-> "none", flagged |-> FALSE]

\* build_metadata_from_candidate and the scale of the document.
MetadataOf(c, scale) ==
    [value |-> scale * c.value, confidence |-> Confidence(c), profile |-> c.profile,
     postprocess |-> "none", reason |-> c.reason, flagged |-> FALSE]

Authoritative(m) == Mode(m) = "policy_override"

\* validate_public_metadata_state: anything else raises.
ValidState(m) ==
    /\ Authoritative(m) => m.profile = Override /\ m.reason # "none"
    /\ Mode(m) = "derived" <=> m.profile[1] = "derived"
    /\ m.profile[2] = "na" => m.profile[1] \in {"derived", "issuer_fallback"}
    /\ m.postprocess = "guardrail_adjusted" => m.reason # "none" /\ m.flagged

\* The priority of a reason when it may stay in the final state.
PublicPriority ==
    [ override |-> 500, guardrail |-> 400, pnl_replaced |-> 300, assets_replaced |-> 200,
      llm |-> 120, approximation |-> 110 ]

\* select_preferred_reason_code: the first of two equals.
PreferredReason(a, b) ==
    IF a \in DOMAIN PublicPriority
       /\ (b \notin DOMAIN PublicPriority \/ PublicPriority[a] >= PublicPriority[b])
    THEN a ELSE IF b \in DOMAIN PublicPriority THEN b ELSE "none"

-----------------------------------------------------------------------------
(* Decisions                                                                *)

Threshold == 50
StrongDirect == 70

Survives(m) == m.value # Missing /\ (Authoritative(m) \/ m.confidence >= Threshold)

Strong(m) == m.value # Missing /\ Mode(m) = "direct" /\ m.confidence >= StrongDirect

Replaceable(m) == ~Authoritative(m) /\ (Mode(m) = "derived" \/ ~Survives(m))

\* Neither is zero, they have one sign and are less than ten times apart.
Comparable(a, b) ==
    /\ (a > 0 /\ b > 0) \/ (a < 0 /\ b < 0)
    /\ Abs(a) < 10 * Abs(b) /\ Abs(b) < 10 * Abs(a)

\* Mutant: the figures are not compared.
PreferLlmAnyway(llm, parsed) ==
    Survives(llm) /\ Strong(llm) /\ (parsed.value = Missing \/ ~Authoritative(parsed))

\* should_prefer_llm_metric.
PreferLlm(llm, parsed) ==
    /\ Survives(llm) /\ Strong(llm)
    /\ \/ parsed.value = Missing
       \/ ~Authoritative(parsed) /\ (Replaceable(parsed) \/ Comparable(parsed.value, llm.value))

\* _llm_rejection_reason, "none" when there is none.
RejectionReason(llm, parsed) ==
    IF llm.value = Missing THEN "none"
    ELSE IF ~(Survives(llm) /\ Strong(llm)) THEN "below_threshold"
    ELSE IF parsed.value = Missing THEN "none"
    ELSE IF Authoritative(parsed) THEN "authoritative_override"
    ELSE IF Replaceable(parsed) THEN "none"
    ELSE IF ~Comparable(parsed.value, llm.value) THEN "same_sign_ratio"
    ELSE "strong_direct_fallback"
================================================================================
