------------------------- MODULE FigureExtraction_proofs -------------------------
(***************************************************************************)
(* What FigureExtraction promises, for every document, every candidate its *)
(* passes may see, every answer of the model and every known figure.       *)
(*                                                                         *)
(* Order holds the facts about the ranking of candidates, Evidence those   *)
(* about profiles and confidence; each invariant then rests on FigureInv,  *)
(* whose conjuncts say stage by stage what the figures rest on.            *)
(***************************************************************************)
EXTENDS FigureExtraction, FiniteSetTheorems, SequenceTheorems, TLAPS

-----------------------------------------------------------------------------
(* Profiles and confidence                                                  *)

\* The profiles that the passes give their candidates are ones of the policy.
LEMMA ProfilesGiven ==
    /\ Derived \in CandidateProfiles
    /\ \A source \in {"table", "text"} : \A match \in {"exact", "code", "section", "keyword"} :
            <<source, match, "direct">> \in CandidateProfiles
    /\ <<"table", "keyword", "approximation">> \in CandidateProfiles
BY DEF CandidateProfiles, Supported, ReadOff, Baselines, Derived, Override

\* A profile of a candidate is Derived or is read off a document, and the
\* policy has a baseline for it.
LEMMA ProfileShape ==
    ASSUME NEW p \in CandidateProfiles
    PROVE  /\ Supported(p)
           /\ p[3] # "policy_override"
           /\ p[3] = "derived" <=> p[1] = "derived"
           /\ p[2] = "na" => p[1] = "derived"
           /\ Baseline(p) \in Int
<1>1. /\ Supported(p) /\ p # Override
      /\ p[1] \in {"table", "text", "ocr", "derived"}
      /\ p[2] \in {"exact", "code", "section", "keyword", "na"}
      /\ p[3] \in {"direct", "approximation", "derived"}
  BY DEF CandidateProfiles, Override
<1>2. CASE p = Derived
  BY <1>1, <1>2 DEF Derived, Baseline
<1>3. CASE ReadOff(p) /\ p[3] \in {"direct", "approximation"}
  <2>1. /\ p[1] \in {"table", "text", "ocr"}
        /\ p[2] \in {"exact", "code", "section", "keyword"}
        /\ Baselines[p[1]][p[2]] \in Int
    BY <1>1, <1>3 DEF ReadOff, Baselines
  <2> QED BY <1>1, <1>3, <2>1 DEF Baseline
<1> QED BY <1>1, <1>2, <1>3 DEF Supported

\* Whatever its quality and its conflicts, a candidate is trusted between 0 and
\* 100 percent (build_policy_decision_log).
LEMMA ConfidenceBounds == \A c \in CandidateSet : Confidence(c) \in 0 .. 100
<1> SUFFICES ASSUME NEW c \in CandidateSet PROVE Confidence(c) \in 0 .. 100
  OBVIOUS
<1>1. c.profile \in CandidateProfiles /\ c.quality \in Nat /\ c.conflicts \in Nat
  BY DEF CandidateSet
<1>2. Baseline(c.profile) \in Int
  BY <1>1, ProfileShape
<1>3. QualityDelta(c.quality) \in Int
  BY <1>1 DEF QualityDelta
<1>4. StructuralBonus(c) \in Int
  BY DEF StructuralBonus
<1>5. ConflictPenalty(c.conflicts) \in Int
  BY <1>1 DEF ConflictPenalty
<1>6. \A n \in Int : Clamp(n) \in 0 .. 100
  BY DEF Clamp
<1>7. Baseline(c.profile) + QualityDelta(c.quality) + StructuralBonus(c)
          + ConflictPenalty(c.conflicts) \in Int
  BY <1>2, <1>3, <1>4, <1>5
<1> QED BY <1>6, <1>7 DEF Confidence

-----------------------------------------------------------------------------
(* The ranking of candidates                                                *)

LEMMA PriorityType == \A c \in CandidateSet : Priority(c) \in 0 .. 3
BY DEF Priority

\* Outranks compares priority, then quality: it is irreflexive, and what ranks
\* above c ranks above everything that does not outrank c.
LEMMA OutranksOrder ==
    ASSUME NEW a \in CandidateSet, NEW b \in CandidateSet, NEW c \in CandidateSet
    PROVE  /\ ~Outranks(a, a)
           /\ Outranks(a, b) /\ ~Outranks(c, b) => Outranks(a, c) /\ ~Outranks(c, a)
<1>1. /\ Priority(a) \in 0 .. 3 /\ Priority(b) \in 0 .. 3 /\ Priority(c) \in 0 .. 3
  BY PriorityType
<1>2. a.quality \in Nat /\ b.quality \in Nat /\ c.quality \in Nat
  BY DEF CandidateSet
<1> QED BY <1>1, <1>2 DEF Outranks

\* What is kept of the candidates s of a metric: the first that none outranks,
\* with its conflicts.
Strongest(r, s, i) ==
    /\ \A j \in DOMAIN s : ~Outranks(s[j], s[i])
    /\ \A j \in 1 .. i - 1 : Outranks(s[i], s[j])
    /\ r = [s[i] EXCEPT !.conflicts =
                Cardinality({j \in i + 1 .. Len(s) : Competes(s[j], s[i])})]
Kept(r, s) == IF s = <<>> THEN r = Missing ELSE \E i \in DOMAIN s : Strongest(r, s, i)

\* The rank of a candidate is not touched by its conflicts.
LEMMA ConflictsDoNotRank ==
    ASSUME NEW c \in CandidateSet, NEW n \in Nat
    PROVE  LET r == [c EXCEPT !.conflicts = n]
           IN  /\ r \in CandidateSet
               /\ r.value = c.value /\ r.type = c.type /\ r.exact = c.exact
               /\ r.quality = c.quality /\ r.profile = c.profile /\ r.conflicts = n
BY DEF CandidateSet

LEMMA ConflictsAreCounted ==
    ASSUME NEW s \in Seq(CandidateSet), NEW i \in DOMAIN s
    PROVE  LET later == {j \in i + 1 .. Len(s) : Competes(s[j], s[i])}
           IN  IsFiniteSet(later) /\ Cardinality(later) \in Nat
<1> DEFINE later == {j \in i + 1 .. Len(s) : Competes(s[j], s[i])}
<1>1. i \in Nat /\ Len(s) \in Nat
  BY LenProperties
<1>2. IsFiniteSet(i + 1 .. Len(s))
  BY <1>1, FS_Interval
<1>3. IsFiniteSet(later)
  BY <1>2, FS_Subset
<1> QED BY <1>3, FS_CardinalityType

\* One candidate more (_raw_set): what was kept of those before it becomes what
\* is kept of all.
LEMMA RankedKeepsStrongest ==
    ASSUME Missing \notin CandidateSet,
           NEW s \in Seq(CandidateSet), NEW r \in CandidateSet \cup {Missing}, Kept(r, s),
           NEW c \in CandidateSet, c.conflicts = 0
    PROVE  Kept(Ranked(c, r), Append(s, c)) /\ Ranked(c, r) \in CandidateSet
<1> DEFINE t == Append(s, c)
           n == Len(s) + 1
<1>1. /\ t \in Seq(CandidateSet) /\ Len(t) = n /\ n \in Nat /\ Len(s) \in Nat
      /\ DOMAIN t = 1 .. n /\ DOMAIN s = 1 .. Len(s) /\ t[n] = c /\ t # <<>>
      /\ \A j \in 1 .. Len(s) : t[j] = s[j] /\ s[j] \in CandidateSet
  BY AppendProperties, LenProperties
<1>2. [c EXCEPT !.conflicts = 0] = c
  BY DEF CandidateSet
<1> HIDE DEF t, n
<1>3. {j \in n + 1 .. Len(t) : Competes(t[j], t[n])} = {}
  BY <1>1
<1>4. Cardinality({}) = 0
  BY FS_EmptySet
<1>5. ~Outranks(c, c)
  BY OutranksOrder
<1>6. CASE s = <<>>
  <2>1. r = Missing /\ Len(s) = 0 /\ n = 1
    BY <1>1, <1>6 DEF Kept, n
  <2>2. Ranked(c, r) = c
    BY <2>1 DEF Ranked
  <2>3. Strongest(c, t, n)
    BY <1>1, <1>2, <1>3, <1>4, <1>5, <2>1 DEF Strongest
  <2> QED BY <1>1, <2>2, <2>3 DEF Kept, t
<1>7. CASE s # <<>>
  <2>1. PICK i \in DOMAIN s : Strongest(r, s, i)
    BY <1>7 DEF Kept
  <2> DEFINE later == {j \in i + 1 .. Len(s) : Competes(s[j], s[i])}
  <2>2. IsFiniteSet(later) /\ Cardinality(later) \in Nat
    BY ConflictsAreCounted
  <2>3. /\ s[i] \in CandidateSet /\ r \in CandidateSet /\ r # Missing
        /\ r = [s[i] EXCEPT !.conflicts = Cardinality(later)]
        /\ r.value = s[i].value /\ r.type = s[i].type /\ r.exact = s[i].exact
        /\ r.quality = s[i].quality /\ r.profile = s[i].profile
        /\ r.conflicts = Cardinality(later)
    BY <1>1, <2>1, <2>2, ConflictsDoNotRank DEF Strongest
  <2>4. Outranks(c, r) <=> Outranks(c, s[i])
    BY <2>3 DEF Outranks, Priority
  <2>5. Competes(c, r) <=> Competes(c, s[i])
    BY <2>3 DEF Competes
  <2>6. CASE Outranks(c, s[i])
    <3>1. Ranked(c, r) = c
      BY <2>3, <2>4, <2>6 DEF Ranked
    <3>2. \A j \in 1 .. Len(s) : Outranks(c, s[j]) /\ ~Outranks(s[j], c)
      BY <1>1, <2>1, <2>3, <2>6, OutranksOrder DEF Strongest
    <3>3. \A j \in DOMAIN t : ~Outranks(t[j], t[n])
      BY <1>1, <1>5, <3>2 DEF n
    <3>4. \A j \in 1 .. n - 1 : Outranks(t[n], t[j])
      BY <1>1, <3>2 DEF n
    <3>5. Strongest(c, t, n)
      BY <1>1, <1>2, <1>3, <1>4, <3>3, <3>4 DEF Strongest
    <3> QED BY <1>1, <3>1, <3>5 DEF Kept, t
  <2>7. CASE ~Outranks(c, s[i])
    <3> DEFINE more == {j \in i + 1 .. Len(t) : Competes(t[j], t[i])}
    <3>1. i \in 1 .. Len(s) /\ t[i] = s[i] /\ n \notin later /\ i < n
      BY <1>1 DEF n
    <3>2. more = IF Competes(c, s[i]) THEN later \cup {n} ELSE later
      <4>1. \A j \in i + 1 .. Len(s) : j \in more <=> j \in later
        BY <1>1, <3>1 DEF n
      <4>2. n \in more <=> Competes(c, s[i])
        BY <1>1, <3>1
      <4>3. more \subseteq (i + 1 .. Len(s)) \cup {n} /\ later \subseteq i + 1 .. Len(s)
        BY <1>1, <3>1 DEF n
      <4> HIDE DEF more, later
      <4>4. CASE Competes(c, s[i])
        BY <4>1, <4>2, <4>3, <4>4
      <4>5. CASE ~Competes(c, s[i])
        <5>1. more \subseteq i + 1 .. Len(s)
          BY <4>2, <4>3, <4>5
        <5>2. more = later
          BY <4>1, <4>3, <5>1
        <5> QED BY <4>5, <5>2
      <4> QED BY <4>4, <4>5
    <3>3. Cardinality(later \cup {n}) = Cardinality(later) + 1
      BY <2>2, <3>1, FS_AddElement
    <3> HIDE DEF more, later
    <3>4. Ranked(c, r) = [s[i] EXCEPT !.conflicts = Cardinality(more)]
      <4>1. CASE Competes(c, s[i])
        <5>1. Ranked(c, r) = [r EXCEPT !.conflicts = Cardinality(later) + 1]
          BY <2>3, <2>4, <2>5, <2>7, <4>1 DEF Ranked
        <5>2. Cardinality(more) = Cardinality(later) + 1
          BY <3>2, <3>3, <4>1
        <5> QED BY <2>3, <5>1, <5>2 DEF CandidateSet
      <4>2. CASE ~Competes(c, s[i])
        BY <2>3, <2>4, <2>5, <2>7, <3>2, <4>2 DEF Ranked
      <4> QED BY <4>1, <4>2
    <3>5. Cardinality(more) \in Nat
      BY <2>2, <3>2, <3>3
    <3>6. Ranked(c, r) \in CandidateSet
      BY <2>3, <3>4, <3>5, ConflictsDoNotRank
    <3>7. \A j \in DOMAIN t : ~Outranks(t[j], t[i])
      BY <1>1, <2>1, <2>7, <3>1 DEF Strongest, n
    <3>8. \A j \in 1 .. i - 1 : Outranks(t[i], t[j])
      BY <1>1, <2>1, <3>1 DEF Strongest, n
    <3>9. Strongest(Ranked(c, r), t, i)
      BY <3>4, <3>7, <3>8, <3>1 DEF Strongest, more
    <3> QED BY <1>1, <3>1, <3>6, <3>9 DEF Kept, t, n
  <2> QED BY <2>6, <2>7
<1> QED BY <1>6, <1>7

-----------------------------------------------------------------------------
(* What a pass collects                                                     *)

Table == [Metrics -> CandidateSet \cup {Missing}]

\* A candidate as a pass makes it.
Fresh(c) == c \in CandidateSet /\ c.conflicts = 0 /\ Mode(c) # "derived"

Usable(found) ==
    /\ OnePerMetric(found)
    /\ \A s \in found : s.metric \in Metrics /\ s.value \in Int /\ Fresh(CandidateOf(s))

\* Nothing is derived yet; nothing comes from a table.
Direct(r) == \A m \in Metrics : r[m] # Missing => Mode(r[m]) # "derived"
FromText(r) == \A m \in Metrics : r[m] # Missing => r[m].type = "text_regex"

LEMMA NothingIsMissing ==
    /\ Missing \notin Int /\ Missing \notin CandidateSet
    /\ \A s \in Sightings : s.metric \in Metrics /\ s.value \in Int
BY FigureAssumption

LEMMA QualityType ==
    ASSUME NEW metric, NEW label
    PROVE  /\ MetricQuality(metric, label) # Missing => MetricQuality(metric, label) \in Nat
           /\ SectionQuality(metric, label) \in Nat
BY DEF MetricQuality, SectionQuality

\* A candidate of one of the kinds that the passes build.
LEMMA BuiltFresh ==
    ASSUME NEW value \in Int, NEW type \in {"table", "text_regex"}, NEW exact \in BOOLEAN,
           NEW quality \in Nat, NEW match \in {"exact", "code", "section", "keyword"},
           NEW bonus \in BOOLEAN
    PROVE  /\ Fresh(Candidate(value, type, exact, quality, match, bonus))
           /\ Candidate(value, type, exact, quality, match, bonus).type = type
BY ProfilesGiven DEF Candidate, Fresh, Mode, CandidateSet

LEMMA CellUsable ==
    ASSUME NEW s \in Sightings, InTable(s)
    PROVE  Usable({s})
<1>1. s.metric \in Metrics /\ s.value \in Int
  BY NothingIsMissing
<1>2. s.pass \in TablePasses
  BY DEF InTable
<1>3. Fresh(CandidateOf(s))
  <2>1. CASE s.pass = "line_code"
    <3>1. CandidateOf(s) = Candidate(s.value, "table", TRUE, 120, "code", TRUE)
      BY <2>1 DEF CandidateOf
    <3>2. Fresh(Candidate(s.value, "table", TRUE, 120, "code", TRUE))
      BY <1>1, BuiltFresh
    <3> QED BY <3>1, <3>2
  <2>2. CASE s.pass = "approximation"
    <3>1. CandidateOf(s) = [Candidate(s.value, "table", FALSE, 75, "keyword", FALSE)
                EXCEPT !.profile[3] = "approximation", !.reason = "approximation"]
      BY <2>2 DEF CandidateOf
    <3>2. CandidateOf(s) =
            [value |-> s.value, type |-> "table", exact |-> FALSE, quality |-> 75,
             profile |-> <<"table", "keyword", "approximation">>,
             reason |-> "approximation", bonus |-> FALSE, conflicts |-> 0]
      <4> DEFINE direct == <<"table", "keyword", "direct">>
                 approximated == <<"table", "keyword", "approximation">>
      <4>1. [direct EXCEPT ![3] = "approximation"] = approximated
        OBVIOUS
      <4>2. CandidateOf(s) =
                [[value |-> s.value, type |-> "table", exact |-> FALSE, quality |-> 75,
                  profile |-> direct, reason |-> "none", bonus |-> FALSE, conflicts |-> 0]
                    EXCEPT !.profile = [@ EXCEPT ![3] = "approximation"],
                           !.reason = "approximation"]
        BY <3>1 DEF Candidate
      <4> QED BY <4>1, <4>2
    <3> QED BY <1>1, <3>2, ProfilesGiven DEF Fresh, Mode, CandidateSet
  <2>3. CASE s.pass \in {"garbled", "ifrs", "regular", "ocr_table"}
    <3>1. MetricQuality(s.metric, s.label) \in Nat
      BY <2>3, QualityType DEF InTable
    <3>2. \E type \in {"table", "text_regex"} : \E exact, bonus \in BOOLEAN :
            \E match \in {"exact", "section", "keyword"} :
                CandidateOf(s) = Candidate(s.value, type, exact, MetricQuality(s.metric, s.label),
                                           match, bonus)
      <4>1. CASE s.pass = "garbled"
        <5>1. CandidateOf(s) = Candidate(s.value, "table", TRUE,
                    MetricQuality(s.metric, s.label), "keyword", FALSE)
          BY <4>1 DEF CandidateOf
        <5> QED BY <5>1
      <4>2. CASE s.pass = "ifrs"
        <5>1. CandidateOf(s) = Candidate(s.value, "table", TRUE,
                    MetricQuality(s.metric, s.label), "exact", FALSE)
          BY <4>2 DEF CandidateOf
        <5> QED BY <5>1
      <4>3. CASE s.pass = "regular"
        <5> DEFINE exact == s.label \in {"exact", "exact_total"}
                   total == s.label \in {"total", "exact_total"}
                   match == IF total THEN "section" ELSE IF exact THEN "exact" ELSE "keyword"
        <5>1. CandidateOf(s) = Candidate(s.value, "table", exact,
                    MetricQuality(s.metric, s.label), match, total)
          BY <4>3 DEF CandidateOf
        <5>2. exact \in BOOLEAN /\ total \in BOOLEAN
              /\ match \in {"exact", "section", "keyword"}
          OBVIOUS
        <5> HIDE DEF exact, total, match
        <5> QED BY <5>1, <5>2
      <4>4. CASE s.pass = "ocr_table"
        <5>1. CandidateOf(s) = Candidate(s.value, "text_regex", FALSE,
                    MetricQuality(s.metric, s.label), "keyword", FALSE)
          BY <4>4 DEF CandidateOf
        <5> QED BY <5>1
      <4> QED BY <2>3, <4>1, <4>2, <4>3, <4>4
    <3> QED BY <1>1, <3>1, <3>2, BuiltFresh
  <2> QED BY <1>2, <2>1, <2>2, <2>3 DEF TablePasses
<1> QED BY <1>1, <1>3 DEF Usable, OnePerMetric

LEMMA HeadingsUsable ==
    ASSUME NEW found \in SUBSET {s \in Sightings : s.pass = "heading" /\ Valid(s.value)},
           OnePerMetric(found)
    PROVE  Usable(found)
<1>1. ASSUME NEW s \in found
      PROVE  s.metric \in Metrics /\ s.value \in Int /\ Fresh(CandidateOf(s))
  BY NothingIsMissing, BuiltFresh DEF CandidateOf
<1> QED BY <1>1 DEF Usable

TextPasses == {"text_code", "form_code", "keyword", "broad", "balance", "profit_section"}

LEMMA TextUsable ==
    ASSUME NEW pass \in TextPasses, NEW found \in FoundInText(pass)
    PROVE  /\ Usable(found)
           /\ \A s \in found : CandidateOf(s).type = "text_regex"
<1>1. found \subseteq Sightings /\ OnePerMetric(found) /\ \A s \in found : InText(s, pass)
  BY DEF FoundInText
<1>2. ASSUME NEW s \in found
      PROVE  /\ s.metric \in Metrics /\ s.value \in Int
             /\ Fresh(CandidateOf(s)) /\ CandidateOf(s).type = "text_regex"
  <2>1. s.metric \in Metrics /\ s.value \in Int /\ s.pass = pass /\ InText(s, pass)
    BY <1>1, NothingIsMissing DEF InText
  <2>2. CASE pass \in {"text_code", "form_code", "balance"}
    <3>1. \E exact \in BOOLEAN : \E quality \in Nat : \E match \in {"code", "section"} :
            CandidateOf(s) = Candidate(s.value, "text_regex", exact, quality, match, TRUE)
      <4>1. CASE pass = "text_code"
        <5>1. CandidateOf(s) = Candidate(s.value, "text_regex", FALSE, 115, "code", TRUE)
          BY <2>1, <4>1 DEF CandidateOf
        <5> QED BY <5>1
      <4>2. CASE pass = "form_code"
        <5>1. CandidateOf(s) = Candidate(s.value, "text_regex", TRUE,
                    IF s.metric = "revenue" THEN 110 ELSE 120, "code", TRUE)
          BY <2>1, <4>2 DEF CandidateOf
        <5> QED BY <5>1
      <4>3. CASE pass = "balance"
        <5>1. CandidateOf(s) = Candidate(s.value, "text_regex", TRUE,
                    IF s.metric = "short_term_liabilities" THEN 110 ELSE 105, "section", TRUE)
          BY <2>1, <4>3 DEF CandidateOf
        <5> QED BY <5>1
      <4> QED BY <2>2, <4>1, <4>2, <4>3
    <3>2. PICK exact \in BOOLEAN, quality \in Nat, match \in {"code", "section"} :
            CandidateOf(s) = Candidate(s.value, "text_regex", exact, quality, match, TRUE)
      BY <3>1
    <3>3. match \in {"exact", "code", "section", "keyword"} /\ s.value \in Int
      BY <2>1, <3>2
    <3>4. ASSUME NEW bonus \in BOOLEAN
          PROVE  /\ Fresh(Candidate(s.value, "text_regex", exact, quality, match, bonus))
                 /\ Candidate(s.value, "text_regex", exact, quality, match, bonus).type
                        = "text_regex"
      BY <3>3, BuiltFresh
    <3> QED BY <2>1, <3>2, <3>4
  <2>3. CASE pass = "profit_section"
    BY <2>1, <2>3, BuiltFresh, QualityType DEF CandidateOf
  <2>4. CASE pass \in {"keyword", "broad"}
    <3>1. MetricQuality(s.metric, s.label) \in Nat
      BY <2>1, <2>4, QualityType DEF InText
    <3> QED BY <2>1, <2>4, <3>1, BuiltFresh DEF CandidateOf
  <2> QED BY <2>2, <2>3, <2>4 DEF TextPasses
<1> QED BY <1>1, <1>2 DEF Usable

\* What is kept is the new candidate or the one there was, but for its conflicts.
LEMMA RankedIsOne ==
    ASSUME NEW new \in CandidateSet, NEW old \in CandidateSet \cup {Missing}
    PROVE  /\ Ranked(new, old) \in CandidateSet
           /\ Mode(new) # "derived" /\ (old # Missing => Mode(old) # "derived")
                => Mode(Ranked(new, old)) # "derived"
           /\ new.type = "text_regex" /\ (old # Missing => old.type = "text_regex")
                => Ranked(new, old).type = "text_regex"
<1>1. \/ Ranked(new, old) = new
      \/ /\ old # Missing
         /\ \/ Ranked(new, old) = old
            \/ Ranked(new, old) = [old EXCEPT !.conflicts = old.conflicts + 1]
  BY DEF Ranked
<1>2. ASSUME old # Missing
      PROVE  LET more == [old EXCEPT !.conflicts = old.conflicts + 1]
             IN  more \in CandidateSet /\ more.type = old.type /\ more.profile = old.profile
  <2>1. old \in CandidateSet /\ old.conflicts + 1 \in Nat
    BY <1>2 DEF CandidateSet
  <2> QED BY <2>1, ConflictsDoNotRank
<1> QED BY <1>1, <1>2 DEF Mode

LEMMA CollectedType ==
    ASSUME NEW found, Usable(found), raw \in Table, seen \in [Metrics -> Seq(CandidateSet)]
    PROVE  /\ Collected(found) \in Table
           /\ Noticed(found) \in [Metrics -> Seq(CandidateSet)]
           /\ Direct(raw) => Direct(Collected(found))
           /\ FromText(raw) /\ (\A s \in found : CandidateOf(s).type = "text_regex")
                => FromText(Collected(found))
           /\ (\A m \in Metrics : Kept(raw[m], seen[m]))
                => \A m \in Metrics : Kept(Collected(found)[m], Noticed(found)[m])
<1>1. ASSUME NEW m \in Metrics, Of(found, m) # {}
      PROVE  /\ The(Of(found, m)) \in found
             /\ Fresh(CandidateOf(The(Of(found, m))))
  BY <1>1 DEF Of, The, Usable
<1>2. ASSUME NEW m \in Metrics
      PROVE  raw[m] \in CandidateSet \cup {Missing} /\ seen[m] \in Seq(CandidateSet)
  BY DEF Table
<1>3. ASSUME NEW m \in Metrics
      PROVE  /\ Collected(found)[m] \in CandidateSet \cup {Missing}
             /\ Noticed(found)[m] \in Seq(CandidateSet)
             /\ Direct(raw) /\ Collected(found)[m] # Missing
                    => Mode(Collected(found)[m]) # "derived"
             /\ FromText(raw) /\ (\A s \in found : CandidateOf(s).type = "text_regex")
                    /\ Collected(found)[m] # Missing => Collected(found)[m].type = "text_regex"
             /\ Kept(raw[m], seen[m]) => Kept(Collected(found)[m], Noticed(found)[m])
  <2>1. CASE Of(found, m) = {}
    <3>1. Collected(found)[m] = raw[m] /\ Noticed(found)[m] = seen[m]
      BY <2>1 DEF Collected, Noticed
    <3> QED BY <1>2, <3>1 DEF Direct, FromText
  <2>2. CASE Of(found, m) # {}
    <3> DEFINE c == CandidateOf(The(Of(found, m)))
    <3>1. /\ Collected(found)[m] = Ranked(c, raw[m])
          /\ Noticed(found)[m] = Append(seen[m], c)
      BY <2>2 DEF Collected, Noticed
    <3>2. The(Of(found, m)) \in found /\ c \in CandidateSet /\ c.conflicts = 0
          /\ Mode(c) # "derived"
      BY <1>1, <2>2 DEF Fresh
    <3>3. (\A s \in found : CandidateOf(s).type = "text_regex") => c.type = "text_regex"
      BY <3>2
    <3> HIDE DEF c
    <3>4. Ranked(c, raw[m]) \in CandidateSet
      BY <1>2, <3>2, RankedIsOne
    <3>5. Append(seen[m], c) \in Seq(CandidateSet)
      BY <1>2, <3>2, AppendProperties
    <3>6. Kept(raw[m], seen[m]) => Kept(Ranked(c, raw[m]), Append(seen[m], c))
      BY <1>2, <3>2, RankedKeepsStrongest, NothingIsMissing
    <3>7. Direct(raw) => Mode(Ranked(c, raw[m])) # "derived"
      BY <1>2, <3>2, RankedIsOne DEF Direct
    <3>8. FromText(raw) /\ c.type = "text_regex" => Ranked(c, raw[m]).type = "text_regex"
      BY <1>2, <3>2, RankedIsOne DEF FromText
    <3> QED BY <3>1, <3>3, <3>4, <3>5, <3>6, <3>7, <3>8
  <2> QED BY <2>1, <2>2
<1>4. Collected(found) \in Table
  BY <1>3 DEF Collected, Table
<1>5. Noticed(found) \in [Metrics -> Seq(CandidateSet)]
  BY <1>3 DEF Noticed
<1>6. Direct(raw) => Direct(Collected(found))
  BY <1>3 DEF Direct
<1>7. FromText(raw) /\ (\A s \in found : CandidateOf(s).type = "text_regex")
        => FromText(Collected(found))
  BY <1>3 DEF FromText
<1> QED BY <1>3, <1>4, <1>5, <1>6, <1>7

-----------------------------------------------------------------------------
(* Profit and revenue, and what is derived                                  *)

Pnl == {"revenue", "net_profit"}

LEMMA CodesRankIn ==
    ASSUME NEW value \in Int, NEW old \in CandidateSet \cup {Missing}
    PROVE  /\ Ranked(Replacement(value), old) \in CandidateSet
           /\ (old # Missing => Mode(old) # "derived")
                => Mode(Ranked(Replacement(value), old)) # "derived"
           /\ (old # Missing => old.type = "text_regex")
                => Ranked(Replacement(value), old).type = "text_regex"
<1>1. Replacement(value) \in CandidateSet /\ Mode(Replacement(value)) # "derived"
      /\ Replacement(value).type = "text_regex"
  BY ProfilesGiven DEF Replacement, Candidate, CandidateSet, Mode
<1> QED BY <1>1, RankedIsOne

LEMMA NarrowedType ==
    ASSUME NEW r \in Table, codes \in [Pnl -> Int \cup {Missing}]
    PROVE  Narrowed(r) \in Table /\ (Direct(r) => Direct(Narrowed(r)))
<1>1. Pnl \subseteq Metrics /\ Narrowed(r) = [m \in Metrics |-> Narrowed(r)[m]]
      /\ \A m \in Metrics \ Pnl : Narrowed(r)[m] = r[m]
  BY DEF Narrowed, Pnl, Metrics, Table
<1>2. \A m \in Metrics : r[m] \in CandidateSet \cup {Missing}
  BY DEF Table
<1>3. ASSUME NEW m \in Pnl
      PROVE  /\ Narrowed(r)[m] \in CandidateSet \cup {Missing}
             /\ Direct(r) /\ Narrowed(r)[m] # Missing => Mode(Narrowed(r)[m]) # "derived"
  <2> DEFINE more == codes["revenue"] # Missing /\ codes["revenue"] > r["revenue"].value
             less == codes["net_profit"] # Missing
                     /\ Abs(codes["net_profit"]) < Abs(r["net_profit"].value)
             a == IF more THEN Ranked(Replacement(codes["revenue"]), r["revenue"])
                  ELSE r["revenue"]
             b == IF less THEN Ranked(Replacement(codes["net_profit"]), r["net_profit"])
                  ELSE r["net_profit"]
  <2>0. Narrowed(r) = [r EXCEPT !["revenue"] = a, !["net_profit"] = b]
    BY DEF Narrowed
  <2>1. \/ Narrowed(r)[m] = r[m]
        \/ codes[m] # Missing /\ Narrowed(r)[m] = Ranked(Replacement(codes[m]), r[m])
    <3>1. CASE m = "revenue"
      <4>1. Narrowed(r)[m] = a
        BY <1>1, <2>0, <3>1 DEF Table
      <4> QED BY <3>1, <4>1
    <3>2. CASE m = "net_profit"
      <4>1. Narrowed(r)[m] = b
        BY <1>1, <2>0, <3>2 DEF Table
      <4> QED BY <3>2, <4>1
    <3> QED BY <3>1, <3>2 DEF Pnl
  <2>2. codes[m] \in Int \cup {Missing} /\ r[m] \in CandidateSet \cup {Missing}
    BY <1>1, <1>2
  <2> QED BY <1>1, <2>1, <2>2, CodesRankIn DEF Direct
<1>4. Narrowed(r) \in Table
  BY <1>1, <1>2, <1>3 DEF Table
<1>5. Direct(r) => Direct(Narrowed(r))
  BY <1>1, <1>3 DEF Direct
<1> QED BY <1>4, <1>5

LEMMA SaneType ==
    ASSUME NEW r \in Table, codes \in [Pnl -> Int \cup {Missing}]
    PROVE  Sane(r) \in Table /\ (Direct(r) => Direct(Sane(r)))
<1>1. CASE Sane(r) = r
  BY <1>1
<1>2. CASE Sane(r) = Narrowed(r)
  BY <1>2, NarrowedType
<1>3. CASE \E m \in Pnl : Sane(r) = [Narrowed(r) EXCEPT ![m] = Missing]
  <2>1. PICK m \in Pnl : Sane(r) = [Narrowed(r) EXCEPT ![m] = Missing]
    BY <1>3
  <2>2. Narrowed(r) \in Table /\ (Direct(r) => Direct(Narrowed(r)))
    BY NarrowedType
  <2> QED BY <2>1, <2>2 DEF Table, Direct
<1>4. CASE /\ codes["revenue"] # Missing /\ codes["net_profit"] # Missing
           /\ Sane(r) = [r EXCEPT !["revenue"] = Ranked(Replacement(codes["revenue"]), @),
                                  !["net_profit"] = Ranked(Replacement(codes["net_profit"]), @)]
  <2> DEFINE a == Ranked(Replacement(codes["revenue"]), r["revenue"])
             b == Ranked(Replacement(codes["net_profit"]), r["net_profit"])
  <2>1. Sane(r) = [r EXCEPT !["revenue"] = a, !["net_profit"] = b]
    BY <1>4
  <2>2. /\ r["revenue"] \in CandidateSet \cup {Missing}
        /\ r["net_profit"] \in CandidateSet \cup {Missing}
        /\ codes["revenue"] \in Int /\ codes["net_profit"] \in Int
        /\ "revenue" \in Metrics /\ "net_profit" \in Metrics
    BY <1>4 DEF Table, Metrics, Pnl
  <2>3. /\ a \in CandidateSet /\ b \in CandidateSet
        /\ Direct(r) => Mode(a) # "derived" /\ Mode(b) # "derived"
    BY <2>2, CodesRankIn DEF Direct
  <2> HIDE DEF a, b
  <2>4. Sane(r) \in Table
    BY <2>1, <2>3 DEF Table
  <2>5. \A m \in Metrics : Sane(r)[m] = IF m = "revenue" THEN a
                                        ELSE IF m = "net_profit" THEN b ELSE r[m]
    BY <2>1 DEF Table
  <2> QED BY <2>3, <2>4, <2>5 DEF Direct
<1> QED BY <1>1, <1>2, <1>3, <1>4 DEF Sane, Doubtful, Pnl

\* After the check (_apply_form_like_pnl_sanity) an implausible pair stays only
\* when both line codes were seen: no candidate comes from a table here, so
\* none is too reliable to be dropped.
LEMMA SaneIsPlausible ==
    ASSUME NEW r \in Table, FromText(r), codes \in [Pnl -> Int \cup {Missing}], ~doc.standalone
    PROVE  \/ ~Implausible(Sane(r))
           \/ codes["revenue"] # Missing /\ codes["net_profit"] # Missing
<1>1. SUFFICES ASSUME ~(codes["revenue"] # Missing /\ codes["net_profit"] # Missing)
               PROVE  ~Implausible(Sane(r))
  OBVIOUS
<1>2. CASE ~Implausible(r)
  BY <1>2 DEF Sane
<1>3. CASE Implausible(r)
  <2>1. r["revenue"] # Missing /\ r["net_profit"] # Missing
    BY <1>3 DEF Implausible
  <2>2. Priority(r["revenue"]) = 2 /\ Priority(r["net_profit"]) = 2
    BY <2>1 DEF FromText, Priority, Metrics
  <2>3. Sane(r) = IF Implausible(Narrowed(r))
                  THEN [Narrowed(r) EXCEPT ![Doubtful(r, Narrowed(r))] = Missing]
                  ELSE Narrowed(r)
    BY <1>1, <1>3, <2>2 DEF Sane
  <2>4. CASE ~Implausible(Narrowed(r))
    BY <2>3, <2>4
  <2>5. CASE Implausible(Narrowed(r))
    <3>1. Doubtful(r, Narrowed(r)) \in Pnl /\ Narrowed(r) \in Table
      BY NarrowedType DEF Doubtful, Pnl
    <3>2. Sane(r)[Doubtful(r, Narrowed(r))] = Missing
      BY <2>3, <2>5, <3>1 DEF Table, Metrics, Pnl
    <3> QED BY <3>1, <3>2 DEF Implausible, Pnl
  <2> QED BY <2>4, <2>5
<1> QED BY <1>2, <1>3

LEMMA InferredType ==
    ASSUME NEW value \in Int, NEW type \in {"derived", "derived_strong"}, NEW quality \in Nat
    PROVE  /\ Inferred(value, type, quality) \in CandidateSet
           /\ Inferred(value, type, quality).value = value
BY ProfilesGiven DEF Inferred, CandidateSet

\* Liabilities that are derived at this step are within 1000, or five percent,
\* of the difference of assets and equity, when that may be an amount.
LEMMA LiabilitiesDerived ==
    ASSUME NEW r \in Table, NEW total \in Int \cup {Missing}
    PROVE  LET derived == WithLiabilities(r, total)
               assets == r["total_assets"]
               equity == r["equity"]
           IN  /\ derived \in Table
               /\ \A m \in Metrics \ {"liabilities"} : derived[m] = r[m]
               /\ \/ derived["liabilities"] = r["liabilities"]
                  \/ assets # Missing /\ equity # Missing /\ Valid(assets.value - equity.value)
                     => CloseTo(derived["liabilities"].value, assets.value - equity.value)
<1> DEFINE long == IF r["long_term_liabilities"] = Missing THEN total
                   ELSE ValueIn(r, "long_term_liabilities")
           short == ValueIn(r, "short_term_liabilities")
           assets == ValueIn(r, "total_assets")
           equity == ValueIn(r, "equity")
<1>1. \A m \in Metrics : /\ r[m] \in CandidateSet \cup {Missing}
                         /\ ValueIn(r, m) \in Int \cup {Missing}
                         /\ ValueIn(r, m) = Missing <=> r[m] = Missing
                         /\ r[m] # Missing => ValueIn(r, m) = r[m].value
  BY NothingIsMissing DEF Table, ValueIn, CandidateSet
<1>2. /\ long \in Int \cup {Missing} /\ short \in Int \cup {Missing}
      /\ assets \in Int \cup {Missing} /\ equity \in Int \cup {Missing}
  BY <1>1 DEF Metrics
<1>3. "liabilities" \in Metrics /\ "total_assets" \in Metrics /\ "equity" \in Metrics
  BY DEF Metrics
<1>4. \/ WithLiabilities(r, total) = r
      \/ /\ AddsUp(long, short, assets, equity)
         /\ WithLiabilities(r, total) =
                [r EXCEPT !["liabilities"] = Inferred(long + short, "derived_strong", 60)]
      \/ /\ RemainderServes(r, assets, equity)
         /\ WithLiabilities(r, total) =
                [r EXCEPT !["liabilities"] = Inferred(assets - equity, "derived_strong", 60)]
  BY DEF WithLiabilities
<1> HIDE DEF long, short
<1>5. CASE WithLiabilities(r, total) = r
  BY <1>5
<1>6. CASE /\ AddsUp(long, short, assets, equity)
           /\ WithLiabilities(r, total) =
                [r EXCEPT !["liabilities"] = Inferred(long + short, "derived_strong", 60)]
  <2>1. long \in Int /\ short \in Int
    BY <1>2, <1>6 DEF AddsUp
  <2> DEFINE new == Inferred(long + short, "derived_strong", 60)
  <2>2. new \in CandidateSet /\ new.value = long + short
    BY <2>1, InferredType
  <2>3. WithLiabilities(r, total) = [r EXCEPT !["liabilities"] = new]
    BY <1>6
  <2> HIDE DEF new
  <2>4. WithLiabilities(r, total) \in Table
    BY <2>2, <2>3 DEF Table
  <2>5. /\ WithLiabilities(r, total)["liabilities"] = new
        /\ \A m \in Metrics \ {"liabilities"} : WithLiabilities(r, total)[m] = r[m]
    BY <1>3, <2>3 DEF Table
  <2>6. assets # Missing /\ equity # Missing /\ Valid(assets - equity)
            => CloseTo(long + short, assets - equity)
    BY <1>6 DEF AddsUp
  <2> QED BY <1>1, <1>3, <2>2, <2>4, <2>5, <2>6
<1>7. CASE /\ RemainderServes(r, assets, equity)
           /\ WithLiabilities(r, total) =
                [r EXCEPT !["liabilities"] = Inferred(assets - equity, "derived_strong", 60)]
  <2>1. assets \in Int /\ equity \in Int
    BY <1>2, <1>7 DEF RemainderServes
  <2> DEFINE new == Inferred(assets - equity, "derived_strong", 60)
  <2>2. new \in CandidateSet /\ new.value = assets - equity
    BY <2>1, InferredType
  <2>3. WithLiabilities(r, total) = [r EXCEPT !["liabilities"] = new]
    BY <1>7
  <2> HIDE DEF new
  <2>4. WithLiabilities(r, total) \in Table
    BY <2>2, <2>3 DEF Table
  <2>5. /\ WithLiabilities(r, total)["liabilities"] = new
        /\ \A m \in Metrics \ {"liabilities"} : WithLiabilities(r, total)[m] = r[m]
    BY <1>3, <2>3 DEF Table
  <2>6. CloseTo(assets - equity, assets - equity)
    BY <2>1 DEF CloseTo, Abs
  <2> QED BY <1>1, <1>3, <2>2, <2>4, <2>5, <2>6
<1> QED BY <1>4, <1>5, <1>6, <1>7

\* The other derivations touch the short-term total and the current assets only.
LEMMA OthersDerived ==
    ASSUME NEW r \in Table
    PROVE  LET derived == ComponentsFit(WithCurrentAssets(WithShortTerm(r), "none"))
           IN  /\ derived \in Table
               /\ \A m \in {"liabilities", "total_assets", "equity"} : derived[m] = r[m]
<1>1. ASSUME NEW t \in Table, NEW m \in Metrics, t[m] # Missing
      PROVE  ValueIn(t, m) \in Int /\ t[m].value \in Int
  BY <1>1 DEF Table, ValueIn, CandidateSet
<1>2. ASSUME NEW t \in Table
      PROVE  /\ WithShortTerm(t) \in Table
             /\ \A m \in {"liabilities", "total_assets", "equity"} : WithShortTerm(t)[m] = t[m]
  <2> DEFINE rest == ValueIn(t, "liabilities") - ValueIn(t, "long_term_liabilities")
  <2>1. CASE WithShortTerm(t) = t
    BY <2>1
  <2>2. CASE /\ t["liabilities"] # Missing /\ t["long_term_liabilities"] # Missing
             /\ WithShortTerm(t) =
                    [t EXCEPT !["short_term_liabilities"] = Inferred(rest, "derived", 30)]
    <3>1. rest \in Int
      BY <1>1, <2>2 DEF Metrics
    <3>2. Inferred(rest, "derived", 30) \in CandidateSet
      BY <3>1, InferredType
    <3> HIDE DEF rest
    <3> QED BY <2>2, <3>2 DEF Table, Metrics
  <2> QED BY <2>1, <2>2 DEF WithShortTerm
<1>3. ASSUME NEW t \in Table, NEW reason \in {"none", "assets_replaced"}
      PROVE  /\ WithCurrentAssets(t, reason) \in Table
             /\ \A m \in {"liabilities", "total_assets", "equity"} :
                    WithCurrentAssets(t, reason)[m] = t[m]
  <2>1. CASE WithCurrentAssets(t, reason) = t
    BY <2>1
  <2>2. CASE /\ Valid(Available(t))
             /\ WithCurrentAssets(t, reason) = [t EXCEPT !["current_assets"] =
                    [Inferred(Available(t), "derived", 30) EXCEPT !.reason = reason]]
    <3>1. Available(t) \in Int \cup {Missing}
      BY <1>1 DEF Available, Metrics
    <3>2. Available(t) \in Int
      BY <2>2, <3>1 DEF Valid
    <3>3. [Inferred(Available(t), "derived", 30) EXCEPT !.reason = reason] \in CandidateSet
      BY <3>2, InferredType DEF CandidateSet
    <3> QED BY <2>2, <3>3 DEF Table, Metrics
  <2> QED BY <2>1, <2>2 DEF WithCurrentAssets
<1>4. ASSUME NEW t \in Table
      PROVE  /\ ComponentsFit(t) \in Table
             /\ \A m \in {"liabilities", "total_assets", "equity"} : ComponentsFit(t)[m] = t[m]
  <2> DEFINE without == [t EXCEPT !["current_assets"] = Missing]
  <2>1. without \in Table
        /\ \A m \in {"liabilities", "total_assets", "equity"} : without[m] = t[m]
    BY DEF Table, Metrics
  <2>2. ComponentsFit(t) = t \/ ComponentsFit(t) = WithCurrentAssets(without, "assets_replaced")
    BY DEF ComponentsFit
  <2> HIDE DEF without
  <2> QED BY <1>3, <2>1, <2>2
<1> QED BY <1>2, <1>3, <1>4

-----------------------------------------------------------------------------
(* Metadata                                                                 *)

Metadata == {r \in [Keys -> MetadataSet] : \A k \in Keys : ValidState(r[k])}

\* Bound by bound, what a check of the balance sheet leaves: a figure as it was
\* or none at all.
Checked(before, after) ==
    \A k \in Keys : after[k] = before[k] \/ after[k].value = Missing

LEMMA NoFigureValid == NoFigure \in MetadataSet /\ ValidState(NoFigure)
BY ProfilesGiven DEF NoFigure, MetadataSet, ValidState, Authoritative, Mode, Derived

LEMMA CandidateBecomesFigure ==
    ASSUME NEW c \in CandidateSet, NEW scale \in Nat
    PROVE  MetadataOf(c, scale) \in MetadataSet /\ ValidState(MetadataOf(c, scale))
<1>1. /\ c.value \in Int /\ c.profile \in CandidateProfiles
      /\ c.reason \in DOMAIN PublicPriority \cup {"none"}
  BY DEF CandidateSet, PublicPriority
<1>2. scale * c.value \in Int /\ Confidence(c) \in 0 .. 100
  BY <1>1, ConfidenceBounds
<1>3. /\ c.profile[3] # "policy_override"
      /\ c.profile[3] = "derived" <=> c.profile[1] = "derived"
      /\ c.profile[2] = "na" => c.profile[1] = "derived"
  BY <1>1, ProfileShape
<1> HIDE DEF CandidateProfiles
<1> QED BY <1>1, <1>2, <1>3 DEF MetadataOf, MetadataSet, ValidState, Authoritative, Mode

LEMMA SoftNullValid ==
    ASSUME NEW m \in MetadataSet, ValidState(m)
    PROVE  SoftNull(m) \in MetadataSet /\ ValidState(SoftNull(m)) /\ SoftNull(m).value = Missing
<1> DEFINE reason == PreferredReason(m.reason, "guardrail")
<1>1. reason \in DOMAIN PublicPriority
  BY DEF PreferredReason, PublicPriority
<1>2. reason # "none"
  BY <1>1 DEF PublicPriority
<1>7. m = [value |-> m.value, confidence |-> m.confidence, profile |-> m.profile,
           postprocess |-> m.postprocess, reason |-> m.reason, flagged |-> m.flagged]
  BY DEF MetadataSet
<1>8. SoftNull(m) =
        [[value |-> m.value, confidence |-> m.confidence, profile |-> m.profile,
          postprocess |-> m.postprocess, reason |-> m.reason, flagged |-> m.flagged]
            EXCEPT !.value = Missing, !.confidence = 0, !.postprocess = "guardrail_adjusted",
                   !.reason = reason, !.flagged = TRUE]
  BY <1>7 DEF SoftNull
<1> HIDE DEF reason
<1>3. SoftNull(m) = [value |-> Missing, confidence |-> 0, profile |-> m.profile,
                     postprocess |-> "guardrail_adjusted", reason |-> reason, flagged |-> TRUE]
  BY <1>8
<1>4. m.profile \in CandidateProfiles \cup {Override}
  BY DEF MetadataSet
<1> HIDE DEF CandidateProfiles
<1>5. SoftNull(m) \in MetadataSet
  BY <1>1, <1>3, <1>4 DEF MetadataSet
<1> QED BY <1>2, <1>3, <1>5 DEF ValidState, Authoritative, Mode

LEMMA BoundedValid ==
    ASSUME NEW r \in Metadata, NEW parts \in SUBSET Keys, NEW whole \in Keys
    PROVE  /\ Bounded(r, parts, whole) \in Metadata
           /\ Checked(r, Bounded(r, parts, whole))
<1>1. ASSUME NEW k \in Keys
      PROVE  /\ Bounded(r, parts, whole)[k] \in MetadataSet
             /\ ValidState(Bounded(r, parts, whole)[k])
             /\ Bounded(r, parts, whole)[k] = r[k] \/ Bounded(r, parts, whole)[k].value = Missing
  <2>1. r[k] \in MetadataSet /\ ValidState(r[k])
    BY DEF Metadata
  <2>2. Bounded(r, parts, whole)[k] = r[k] \/ Bounded(r, parts, whole)[k] = SoftNull(r[k])
    BY DEF Bounded
  <2> QED BY <2>1, <2>2, SoftNullValid
<1>2. Bounded(r, parts, whole) \in [Keys -> MetadataSet]
  BY <1>1 DEF Bounded
<1> QED BY <1>1, <1>2 DEF Metadata, Checked

LEMMA GuardrailsValid ==
    ASSUME NEW r \in Metadata
    PROVE  Guardrails(r) \in Metadata /\ Checked(r, Guardrails(r))
<1> DEFINE a == Bounded(r, PartsOfAssets, "total_assets")
           b == Bounded(a, {"cash_and_equivalents", "inventory"}, "current_assets")
           c == Bounded(b, {"short_term_liabilities"}, "liabilities")
<1>1. /\ PartsOfAssets \in SUBSET Keys /\ {"cash_and_equivalents", "inventory"} \in SUBSET Keys
      /\ {"short_term_liabilities"} \in SUBSET Keys
      /\ "total_assets" \in Keys /\ "current_assets" \in Keys /\ "liabilities" \in Keys
  BY DEF PartsOfAssets, Keys, Metrics
<1>2. a \in Metadata /\ Checked(r, a)
  BY <1>1, BoundedValid
<1>3. b \in Metadata /\ Checked(a, b)
  BY <1>1, <1>2, BoundedValid
<1>4. c \in Metadata /\ Checked(b, c)
  BY <1>1, <1>3, BoundedValid
<1>5. Guardrails(r) = c
  BY DEF Guardrails
<1> HIDE DEF a, b, c
<1> QED BY <1>2, <1>3, <1>4, <1>5 DEF Checked

\* What BuildMetadata makes of the candidates before it checks them.
Built == [k \in Keys |-> IF raw[k] = Missing THEN NoFigure ELSE MetadataOf(raw[k], doc.scale)]

LEMMA BuiltValid ==
    ASSUME raw \in Table, doc \in Documents
    PROVE  Built \in Metadata
<1>1. doc.scale \in Nat
  BY FigureAssumption DEF Documents
<1>2. ASSUME NEW k \in Keys PROVE Built[k] \in MetadataSet /\ ValidState(Built[k])
  <2>1. raw[k] \in CandidateSet \cup {Missing}
    BY DEF Table, Keys
  <2>2. CASE raw[k] = Missing
    BY <2>2, NoFigureValid DEF Built
  <2>3. CASE raw[k] # Missing
    <3>1. Built[k] = MetadataOf(raw[k], doc.scale)
      BY <2>3 DEF Built
    <3> QED BY <1>1, <2>1, <2>3, <3>1, CandidateBecomesFigure
  <2> QED BY <2>2, <2>3
<1>3. Built \in [Keys -> MetadataSet]
  BY <1>2 DEF Built
<1> QED BY <1>2, <1>3 DEF Metadata

LEMMA ClampBounds == \A n \in Int : Clamp(n) \in 0 .. 100
BY DEF Clamp

LEMMA AnswersValid ==
    ASSUME NEW answer \in Answers
    PROVE  ParsedAnswer(answer) \in Metadata
<1>1. ASSUME NEW k \in Keys
      PROVE  ParsedAnswer(answer)[k] \in MetadataSet /\ ValidState(ParsedAnswer(answer)[k])
  <2>1. CASE k \in DOMAIN answer /\ Valid(answer[k].value)
    <3> DEFINE value == answer[k].value
               sure == IF k \notin Signed /\ value < 0 /\ Clamp(answer[k].confidence) > 30
                       THEN 30 ELSE Clamp(answer[k].confidence)
    <3>1. ParsedAnswer(answer)[k] =
            [value |-> value, confidence |-> sure, profile |-> <<"text", "keyword", "direct">>,
             postprocess |-> "none", reason |-> "llm", flagged |-> FALSE]
      BY <2>1 DEF ParsedAnswer, AnswerOf
    <3>2. value \in Int \cup {Missing} /\ answer[k].confidence \in Int
      BY <2>1, FigureAssumption
    <3>3. sure \in 0 .. 100
      BY <3>2, ClampBounds
    <3> HIDE DEF value, sure, CandidateProfiles
    <3>4. ParsedAnswer(answer)[k] \in MetadataSet
      BY <3>1, <3>2, <3>3, ProfilesGiven DEF MetadataSet, PublicPriority
    <3> QED BY <3>1, <3>4 DEF ValidState, Authoritative, Mode
  <2>2. CASE ~(k \in DOMAIN answer /\ Valid(answer[k].value))
    BY <2>2, NoFigureValid DEF ParsedAnswer
  <2> QED BY <2>1, <2>2
<1>2. ParsedAnswer(answer) \in [Keys -> MetadataSet]
  BY <1>1 DEF ParsedAnswer
<1> QED BY <1>1, <1>2 DEF Metadata

LEMMA KnownFigureValid ==
    ASSUME NEW value \in Int
    PROVE  IssuerFigure(value) \in MetadataSet /\ ValidState(IssuerFigure(value))
BY DEF IssuerFigure, MetadataSet, PublicPriority, ValidState, Authoritative, Mode, Override

-----------------------------------------------------------------------------
(* Type correctness                                                         *)

\* TypeOK in the terms of the lemmas above.
TypesTogether ==
    /\ doc \in Documents /\ stage \in Stages /\ cells \in 0 .. MaxCells
    /\ chunk \in [sent : 0 .. MaxChunks, again : BOOLEAN]
    /\ raw \in Table /\ seen \in [Metrics -> Seq(CandidateSet)]
    /\ codes \in [Pnl -> Int \cup {Missing}]
    /\ parsed \in Metadata /\ best \in Metadata /\ meta \in Metadata
    /\ figures \in [Keys -> Int \cup {Missing}]

LEMMA TypesAreTypeOK == TypesTogether <=> TypeOK
BY DEF TypesTogether, TypeOK, Table, Metadata, Pnl

LEMMA InitTypes == Init => TypesTogether
<1> SUFFICES ASSUME Init PROVE TypesTogether
  OBVIOUS
<1>1. NoFigures \in Metadata
  BY NoFigureValid DEF NoFigures, Metadata
<1>2. NoCandidates \in Table
  BY DEF NoCandidates, Table
<1>3. <<>> \in Seq(CandidateSet)
  OBVIOUS
<1>4. 0 \in 0 .. MaxCells /\ 0 \in 0 .. MaxChunks
  BY FigureAssumption
<1>5. stage \in Stages
  BY DEF Init, Stages
<1> HIDE DEF CandidateSet, MetadataSet
<1> QED BY <1>1, <1>2, <1>3, <1>4, <1>5 DEF Init, TypesTogether, Pnl

\* The steps that collect candidates: what is found is usable.
LEMMA FoundIsUsable ==
    ASSUME NEW found,
           \/ \E s \in Sightings : InTable(s) /\ found = {s}
           \/ /\ found \in SUBSET {s \in Sightings : s.pass = "heading" /\ Valid(s.value)}
              /\ OnePerMetric(found)
           \/ \E pass \in TextPasses : found \in FoundInText(pass)
    PROVE  Usable(found)
BY CellUsable, HeadingsUsable, TextUsable

LEMMA CollectTypes ==
    ASSUME TypesTogether, NEW found, Usable(found), Collect(found)
    PROVE  raw' \in Table /\ seen' \in [Metrics -> Seq(CandidateSet)]
BY CollectedType DEF TypesTogether, Collect

LEMMA NextTypes == TypesTogether /\ [Next]_vars => TypesTogether'
<1> SUFFICES ASSUME TypesTogether, [Next]_vars PROVE TypesTogether'
  OBVIOUS
<1> USE DEF TypesTogether
<1> HIDE DEF CandidateSet, MetadataSet, Table, Metadata
<1>1. ASSUME NEW s \in Sightings, TableCell(s) PROVE TypesTogether'
  <2>1. Usable({s})
    BY <1>1, CellUsable DEF TableCell
  <2>2. raw' \in Table /\ seen' \in [Metrics -> Seq(CandidateSet)]
    BY <1>1, <2>1, CollectTypes DEF TableCell
  <2>3. cells' \in 0 .. MaxCells
    BY <1>1, FigureAssumption DEF TableCell
  <2> QED BY <1>1, <2>2, <2>3 DEF TableCell
<1>2. CASE CollectHeadingTotals
  <2>1. raw' \in Table /\ seen' \in [Metrics -> Seq(CandidateSet)]
    BY <1>2, HeadingsUsable, CollectTypes DEF CollectHeadingTotals
  <2> QED BY <1>2, <2>1 DEF CollectHeadingTotals, Stages
<1>3. CASE CollectText
  <2>1. stage \in TextPasses /\ stage' \in Stages
    BY <1>3 DEF CollectText, NextPass, TextPasses, Stages
  <2>2. raw' \in Table /\ seen' \in [Metrics -> Seq(CandidateSet)]
    BY <1>3, <2>1, TextUsable, CollectTypes DEF CollectText
  <2> QED BY <1>3, <2>1, <2>2 DEF CollectText
<1>4. CASE CollectFormCodes
  <2>1. PICK found \in FoundInText("form_code") :
            /\ Collect(found)
            /\ codes' = [m \in DOMAIN codes |->
                            IF Of(found, m) = {} THEN codes[m] ELSE The(Of(found, m)).value]
    BY <1>4 DEF CollectFormCodes
  <2>2. Usable(found)
    BY TextUsable DEF TextPasses
  <2>3. raw' \in Table /\ seen' \in [Metrics -> Seq(CandidateSet)]
    BY <2>1, <2>2, CollectTypes
  <2>4. ASSUME NEW m \in Pnl, Of(found, m) # {}
        PROVE  The(Of(found, m)).value \in Int
    BY <2>2, <2>4 DEF Of, The, Usable
  <2>5. codes' \in [Pnl -> Int \cup {Missing}]
    BY <2>1, <2>4
  <2> QED BY <1>4, <2>3, <2>5 DEF CollectFormCodes, Stages
<1>5. CASE CollectBalanceTotals
  <2>1. raw' \in Table /\ seen' \in [Metrics -> Seq(CandidateSet)]
    BY <1>5, TextUsable, CollectTypes DEF CollectBalanceTotals, TextPasses
  <2> QED BY <1>5, <2>1 DEF CollectBalanceTotals, Stages
<1>6. CASE CollectProfitSection
  <2>1. PICK found \in FoundInText("profit_section") :
            raw' = IF doc.form /\ ~doc.tables THEN Sane(Collected(found)) ELSE Collected(found)
    BY <1>6 DEF CollectProfitSection
  <2>2. Usable(found)
    BY TextUsable DEF TextPasses
  <2>3. Collected(found) \in Table
    BY <2>2, CollectedType
  <2>4. raw' \in Table
    BY <2>1, <2>3, SaneType
  <2>5. seen' \in [Metrics -> Seq(CandidateSet)]
    <3>1. <<>> \in Seq(CandidateSet)
      OBVIOUS
    <3> QED BY <1>6, <3>1 DEF CollectProfitSection
  <2> QED BY <1>6, <2>4, <2>5 DEF CollectProfitSection, Stages
<1>7. CASE DeriveMissing
  <2>1. PICK total \in SectionTotals :
            raw' = ComponentsFit(WithCurrentAssets(WithShortTerm(WithLiabilities(raw, total)),
                                                   "none"))
    BY <1>7 DEF DeriveMissing
  <2>2. total \in Int \cup {Missing}
    BY NothingIsMissing DEF SectionTotals
  <2>3. WithLiabilities(raw, total) \in Table
    BY <2>2, LiabilitiesDerived
  <2>4. raw' \in Table
    BY <2>1, <2>3, OthersDerived
  <2> QED BY <1>7, <2>4 DEF DeriveMissing, Stages
<1>8. CASE BuildMetadata
  <2>1. Built \in Metadata
    BY BuiltValid
  <2>2. parsed' = IF doc.balance THEN Guardrails(Built) ELSE Built
    BY <1>8 DEF BuildMetadata, Built
  <2>3. parsed' \in Metadata
    BY <2>1, <2>2, GuardrailsValid
  <2>4. raw' \in Table /\ codes' \in [Pnl -> Int \cup {Missing}]
    BY <1>8 DEF BuildMetadata, NoCandidates, Table
  <2> QED BY <1>8, <2>3, <2>4 DEF BuildMetadata, Stages
<1>9. CASE SkipLlm
  BY <1>9 DEF SkipLlm, Stages
<1>10. ASSUME NEW answer \in Answers, ChunkAnswered(answer) PROVE TypesTogether'
  <2>1. ParsedAnswer(answer) \in Metadata
    BY AnswersValid
  <2>2. best' = MergedAnswers(ParsedAnswer(answer))
    BY <1>10 DEF ChunkAnswered
  <2> DEFINE new == ParsedAnswer(answer)
  <2> HIDE DEF new
  <2>3. best' \in Metadata
    BY <2>1, <2>2 DEF Metadata, MergedAnswers
  <2>4. chunk' \in [sent : 0 .. MaxChunks, again : BOOLEAN]
    BY <1>10, FigureAssumption DEF ChunkAnswered, Sending
  <2> QED BY <1>10, <2>3, <2>4 DEF ChunkAnswered
<1>11. CASE AskAgain
  BY <1>11 DEF AskAgain
<1>12. CASE ChunkLost
  <2>1. chunk' \in [sent : 0 .. MaxChunks, again : BOOLEAN]
    BY <1>12, FigureAssumption DEF ChunkLost, Sending
  <2> QED BY <1>12, <2>1 DEF ChunkLost
<1>13. CASE MergeLlm
  <2>1. meta' \in Metadata
    BY <1>13 DEF MergeLlm, Metadata
  <2>2. best' \in Metadata
    BY <1>13, NoFigureValid DEF MergeLlm, NoFigures, Metadata
  <2> QED BY <1>13, <2>1, <2>2 DEF MergeLlm, Stages
<1>14. CASE ApplyOverrides
  <2>1. ASSUME NEW k \in Keys
        PROVE  meta'[k] \in MetadataSet /\ ValidState(meta'[k])
    <3>1. meta[k] \in MetadataSet /\ ValidState(meta[k])
      BY DEF Metadata
    <3>2. CASE /\ k \in DOMAIN IssuerFigures
               /\ meta'[k] = IssuerFigure(IssuerFigures[k])
      BY <3>2, KnownFigureValid, FigureAssumption
    <3> QED BY <1>14, <3>1, <3>2 DEF ApplyOverrides
  <2>2. meta' \in [Keys -> MetadataSet]
    BY <1>14, <2>1 DEF ApplyOverrides
  <2>3. meta' \in Metadata
    BY <2>1, <2>2 DEF Metadata
  <2> QED BY <1>14, <2>3 DEF ApplyOverrides, Stages
<1>15. CASE ApplyFilter
  <2>1. figures' \in [Keys -> Int \cup {Missing}]
    BY <1>15 DEF ApplyFilter, Metadata, MetadataSet
  <2>2. stage' \in Stages
    BY <1>15 DEF ApplyFilter, Stages
  <2> QED BY <1>15, <2>1, <2>2 DEF ApplyFilter
<1>16. CASE Scrape
  <2>1. PICK found \in SUBSET {s \in Scraped : s.metric = "ebitda" \/ Abs(s.value) >= 1000} :
            figures' = [k \in Keys |->
                IF Of(found, k) # {} /\ figures[k] = Missing /\ ~Blocked(k)
                THEN The(Of(found, k)).value ELSE figures[k]]
    BY <1>16 DEF Scrape
  <2>2. ASSUME NEW k \in Keys, Of(found, k) # {} PROVE The(Of(found, k)).value \in Int
    BY <2>2, FigureAssumption DEF Of, The
  <2>3. figures' \in [Keys -> Int \cup {Missing}]
    BY <2>1, <2>2
  <2> QED BY <1>16, <2>3 DEF Scrape, Stages
<1>17. CASE UNCHANGED vars
  BY <1>17 DEF vars
<1> QED BY <1>1, <1>2, <1>3, <1>4, <1>5, <1>6, <1>7, <1>8, <1>9, <1>10, <1>11, <1>12, <1>13,
           <1>14, <1>15, <1>16, <1>17 DEF Next

\* Whatever a document shows and the model answers, every candidate has a
\* profile the policy knows and every figure is in a state that
\* validate_public_metadata_state lets pass: neither get_profile nor the
\* validation raises in the middle of an extraction.
THEOREM TypeCorrect == Spec => []TypeOK
<1>1. Init => TypesTogether
  BY InitTypes
<1>2. TypesTogether /\ [Next]_vars => TypesTogether'
  BY NextTypes
<1>3. TypesTogether => TypeOK
  BY TypesAreTypeOK
<1> QED BY <1>1, <1>2, <1>3, PTL DEF Spec

-----------------------------------------------------------------------------
(* What the figures rest on, stage by stage                                 *)

CandidatesRank == stage \in Collecting => \A m \in Metrics : Kept(raw[m], seen[m])

\* Until DeriveMissing every candidate was read, and without tables by a text pass.
ReadingsOnly == stage \in Collecting \cup {"derive"} => Direct(raw)
TextAlone == ~doc.tables /\ stage \in Collecting => stage # "tables" /\ FromText(raw)

\* What LiabilitiesDerived says, kept until the metadata is built.
LiabilitiesAddUp ==
    stage = "build" =>
        LET owed == raw["liabilities"]
            assets == raw["total_assets"]
            equity == raw["equity"]
        IN  /\ owed # Missing /\ Mode(owed) = "derived"
            /\ assets # Missing /\ equity # Missing /\ Valid(assets.value - equity.value)
            => CloseTo(owed.value, assets.value - equity.value)

KnownFiguresStand ==
    stage \in {"filter", "scrape", "done"} /\ doc.issuer =>
        \A k \in DOMAIN IssuerFigures :
            meta[k].value # Missing =>
                10 * Abs(meta[k].value - IssuerFigures[k]) <= Abs(IssuerFigures[k])

\* A reading of the parser that is trusted, and what may stand in its place.
Trusted(k) == Survives(parsed[k]) /\ Mode(parsed[k]) = "direct"
Stands(k) ==
    /\ Survives(meta[k])
    /\ \/ meta[k].value = parsed[k].value
       \/ Authoritative(meta[k])
       \/ Comparable(meta[k].value, parsed[k].value)

TrustedFiguresStand ==
    stage \in {"llm", "override", "filter", "scrape", "done"} =>
        \A k \in Keys :
            Trusted(k) =>
                /\ Stands(k)
                /\ stage \in {"scrape", "done"} => figures[k] = meta[k].value

FigureInv ==
    /\ TypesTogether
    /\ CandidatesRank
    /\ ReadingsOnly /\ TextAlone /\ ProfitFitsRevenue
    /\ LiabilitiesAddUp /\ BalanceAddsUp
    /\ KnownFiguresStand /\ TrustedFiguresStand

LEMMA InitFigures == Init => FigureInv
<1> SUFFICES ASSUME Init PROVE FigureInv
  OBVIOUS
<1>1. /\ stage \in {"tables", "text_code"} /\ (doc.tables <=> stage = "tables")
      /\ raw = NoCandidates /\ seen = [m \in Metrics |-> <<>>]
  BY DEF Init, Documents
<1>2. CandidatesRank
  BY <1>1 DEF CandidatesRank, NoCandidates, Kept
<1>3. ReadingsOnly /\ TextAlone
  BY <1>1 DEF ReadingsOnly, TextAlone, NoCandidates, Direct, FromText
<1>4. ProfitFitsRevenue /\ LiabilitiesAddUp /\ BalanceAddsUp
  BY <1>1 DEF ProfitFitsRevenue, LiabilitiesAddUp, BalanceAddsUp
<1>5. KnownFiguresStand /\ TrustedFiguresStand
  BY <1>1 DEF KnownFiguresStand, TrustedFiguresStand
<1> QED BY <1>2, <1>3, <1>4, <1>5, InitTypes DEF FigureInv

\* The passes that collect candidates: tables, the text, and each the next.
CollectStep(found) ==
    /\ stage \in Collecting \ {"profit_section"} /\ Usable(found) /\ Collect(found)
    /\ ~doc.tables => \A s \in found : CandidateOf(s).type = "text_regex"
    /\ stage' \in Collecting /\ (stage' = "tables" => stage = "tables") /\ doc' = doc

LEMMA CollectSteps ==
    ASSUME TypesTogether, TextAlone,
           \/ \E s \in Sightings : TableCell(s)
           \/ CollectHeadingTotals \/ CollectText \/ CollectFormCodes \/ CollectBalanceTotals
    PROVE  \E found : CollectStep(found)
<1>1. ASSUME NEW s \in Sightings, TableCell(s) PROVE CollectStep({s})
  BY <1>1, CellUsable DEF TableCell, CollectStep, TextAlone, Collecting
<1>2. ASSUME CollectHeadingTotals PROVE \E found : CollectStep(found)
  <2>1. PICK found \in SUBSET {s \in Sightings : s.pass = "heading" /\ Valid(s.value)} :
            OnePerMetric(found) /\ Collect(found)
    BY <1>2 DEF CollectHeadingTotals
  <2>2. CollectStep(found)
    BY <1>2, <2>1, HeadingsUsable DEF CollectHeadingTotals, CollectStep, TextAlone, Collecting
  <2> QED BY <2>2
<1>3. ASSUME NEW pass \in TextPasses \ {"profit_section"}, NEW found \in FoundInText(pass),
             Collect(found), stage = pass, stage' \in Collecting \ {"tables"}, doc' = doc
      PROVE  CollectStep(found)
  BY <1>3, TextUsable DEF CollectStep, Collecting, TextPasses
<1>4. ASSUME CollectText PROVE \E found : CollectStep(found)
  <2>1. PICK found \in FoundInText(stage) : Collect(found)
    BY <1>4 DEF CollectText
  <2>2. stage \in TextPasses \ {"profit_section"} /\ stage' \in Collecting \ {"tables"}
        /\ doc' = doc
    BY <1>4 DEF CollectText, NextPass, TextPasses, Collecting
  <2> QED BY <1>3, <2>1, <2>2
<1>5. ASSUME CollectFormCodes PROVE \E found : CollectStep(found)
  BY <1>3, <1>5 DEF CollectFormCodes, TextPasses, Collecting
<1>6. ASSUME CollectBalanceTotals PROVE \E found : CollectStep(found)
  BY <1>3, <1>6 DEF CollectBalanceTotals, TextPasses, Collecting
<1> QED BY <1>1, <1>2, <1>4, <1>5, <1>6

\* A step that collects says nothing yet of what is derived, built or reported.
LEMMA CollectKeeps ==
    ASSUME FigureInv, TypesTogether', NEW found, CollectStep(found)
    PROVE  FigureInv'
<1>1. /\ raw' = Collected(found) /\ seen' = Noticed(found)
      /\ stage \in Collecting /\ stage' \in Collecting /\ doc' = doc
      /\ Usable(found) /\ raw \in Table /\ seen \in [Metrics -> Seq(CandidateSet)]
  BY DEF CollectStep, Collect, FigureInv, TypesTogether
<1>2. CandidatesRank'
  <2>1. \A m \in Metrics : Kept(raw[m], seen[m])
    BY <1>1 DEF FigureInv, CandidatesRank
  <2>2. \A m \in Metrics : Kept(Collected(found)[m], Noticed(found)[m])
    BY <1>1, <2>1, CollectedType
  <2> QED BY <1>1, <2>2 DEF CandidatesRank
<1>3. ReadingsOnly'
  <2>1. Direct(raw)
    BY <1>1 DEF FigureInv, ReadingsOnly
  <2>2. Direct(Collected(found))
    BY <1>1, <2>1, CollectedType
  <2> QED BY <1>1, <2>2 DEF ReadingsOnly, Direct
<1>4. TextAlone'
  <2>1. ASSUME ~doc.tables PROVE FromText(Collected(found)) /\ stage' # "tables"
    <3>1. FromText(raw) /\ stage # "tables" /\ \A s \in found : CandidateOf(s).type = "text_regex"
      BY <1>1, <2>1 DEF FigureInv, TextAlone, CollectStep
    <3>2. FromText(Collected(found))
      BY <1>1, <3>1, CollectedType
    <3> QED BY <3>1, <3>2 DEF CollectStep
  <2> QED BY <1>1, <2>1 DEF TextAlone, FromText
<1>5. /\ stage' \notin {"derive", "build", "llm", "override", "filter", "scrape", "done"}
  BY <1>1 DEF Collecting
<1> QED BY <1>2, <1>3, <1>4, <1>5
        DEF FigureInv, ProfitFitsRevenue, LiabilitiesAddUp, BalanceAddsUp, KnownFiguresStand,
            TrustedFiguresStand

LEMMA ProfitSectionKeeps ==
    ASSUME FigureInv, TypesTogether', CollectProfitSection
    PROVE  FigureInv'
<1>1. PICK found \in FoundInText("profit_section") :
            raw' = IF doc.form /\ ~doc.tables THEN Sane(Collected(found)) ELSE Collected(found)
  BY DEF CollectProfitSection
<1>2. /\ Usable(found) /\ \A s \in found : CandidateOf(s).type = "text_regex"
  BY TextUsable DEF TextPasses
<1>3. /\ stage \in Collecting /\ stage' = "derive" /\ doc' = doc /\ codes' = codes
      /\ raw \in Table /\ seen \in [Metrics -> Seq(CandidateSet)]
      /\ codes \in [Pnl -> Int \cup {Missing}] /\ Direct(raw)
      /\ ~doc.tables => FromText(raw)
  BY DEF CollectProfitSection, FigureInv, TypesTogether, ReadingsOnly, TextAlone, Collecting
<1>4. /\ Collected(found) \in Table /\ Direct(Collected(found))
      /\ ~doc.tables => FromText(Collected(found))
  BY <1>2, <1>3, CollectedType
<1>5. Direct(raw')
  BY <1>1, <1>3, <1>4, SaneType
<1>6. ReadingsOnly'
  BY <1>3, <1>5 DEF ReadingsOnly, Direct
<1>7. ProfitFitsRevenue'
  <2>1. ASSUME doc.form, ~doc.tables, ~doc.standalone
        PROVE  \/ ~Implausible(raw')
               \/ codes["revenue"] # Missing /\ codes["net_profit"] # Missing
    BY <1>1, <1>3, <1>4, <2>1, SaneIsPlausible
  <2> QED BY <1>3, <2>1 DEF ProfitFitsRevenue, Implausible
<1> QED BY <1>3, <1>6, <1>7
        DEF FigureInv, CandidatesRank, TextAlone, LiabilitiesAddUp, BalanceAddsUp,
            KnownFiguresStand, TrustedFiguresStand, Collecting

LEMMA DeriveKeeps ==
    ASSUME FigureInv, TypesTogether', DeriveMissing
    PROVE  FigureInv'
<1>1. PICK total \in SectionTotals :
        raw' = ComponentsFit(WithCurrentAssets(WithShortTerm(WithLiabilities(raw, total)), "none"))
  BY DEF DeriveMissing
<1>2. total \in Int \cup {Missing} /\ raw \in Table /\ stage' = "build" /\ Direct(raw)
  BY NothingIsMissing DEF SectionTotals, DeriveMissing, FigureInv, TypesTogether, ReadingsOnly
<1> DEFINE with == WithLiabilities(raw, total)
<1>3. /\ with \in Table
      /\ with["total_assets"] = raw["total_assets"] /\ with["equity"] = raw["equity"]
      /\ \/ with["liabilities"] = raw["liabilities"]
         \/ raw["total_assets"] # Missing /\ raw["equity"] # Missing
                /\ Valid(raw["total_assets"].value - raw["equity"].value)
            => CloseTo(with["liabilities"].value,
                       raw["total_assets"].value - raw["equity"].value)
  BY <1>2, LiabilitiesDerived DEF Metrics
<1> HIDE DEF with
<1>4. \A m \in {"liabilities", "total_assets", "equity"} : raw'[m] = with[m]
  BY <1>1, <1>3, OthersDerived DEF with
<1>5. LiabilitiesAddUp'
  <2>1. raw["liabilities"] # Missing => Mode(raw["liabilities"]) # "derived"
    BY <1>2 DEF Direct, Metrics
  <2> QED BY <1>2, <1>3, <1>4, <2>1 DEF LiabilitiesAddUp, Mode
<1> QED BY <1>2, <1>5
        DEF FigureInv, CandidatesRank, ReadingsOnly, TextAlone, ProfitFitsRevenue, BalanceAddsUp,
            KnownFiguresStand, TrustedFiguresStand, Collecting

\* Multiplying by the scale keeps the order, the distance and the quotient.
LEMMA ScaleKeeps ==
    ASSUME NEW s \in Nat \ {0}, NEW a \in Int, NEW b \in Int
    PROVE  /\ a <= b => s * a <= s * b
           /\ Abs(s * a) = s * Abs(a)
           /\ s * a - s * b = s * (a - b)
           /\ (s * a) \div s = a
<1>1. ASSUME NEW x \in Int, x >= 0 PROVE s * x >= 0
  BY <1>1
<1>2. s * a - s * b = s * (a - b) /\ s * (b - a) = s * b - s * a /\ s * (-a) = -(s * a)
  OBVIOUS
<1>3. a <= b => s * a <= s * b
  <2>1. s * a \in Int /\ s * b \in Int /\ b - a \in Int
    OBVIOUS
  <2> QED BY <1>1, <1>2, <2>1
<1>4. Abs(s * a) = s * Abs(a)
  <2>1. CASE a >= 0
    BY <1>1, <2>1 DEF Abs
  <2>2. CASE a < 0
    <3>1. s * (-a) > 0
      BY <2>2
    <3> QED BY <1>2, <2>2, <3>1 DEF Abs
  <2> QED BY <2>1, <2>2
<1>5. (s * a) \div s = a
  OBVIOUS
<1> QED BY <1>2, <1>3, <1>4, <1>5

\* A bound of a balance sheet leaves no part above its whole, and a later check
\* puts none there.
LEMMA BoundedBounds ==
    ASSUME NEW r \in Metadata, NEW parts \in SUBSET Keys, NEW whole \in Keys \ parts
    PROVE  \A k \in parts : ~Exceeds(Bounded(r, parts, whole), k, whole)
<1> SUFFICES ASSUME NEW k \in parts PROVE ~Exceeds(Bounded(r, parts, whole), k, whole)
  OBVIOUS
<1>1. Bounded(r, parts, whole)[whole] = r[whole]
  BY DEF Bounded
<1>2. r[k] \in MetadataSet /\ ValidState(r[k]) /\ r[whole] \in MetadataSet
  BY DEF Metadata
<1>3. CASE Exceeds(r, k, whole)
  <2>1. Bounded(r, parts, whole)[k] = SoftNull(r[k])
    BY <1>3 DEF Bounded
  <2> QED BY <1>2, <2>1, SoftNullValid DEF Exceeds
<1>4. CASE ~Exceeds(r, k, whole)
  <2>1. Bounded(r, parts, whole)[k] = r[k]
    BY <1>4 DEF Bounded
  <2> QED BY <1>1, <1>4, <2>1 DEF Exceeds
<1> QED BY <1>3, <1>4

LEMMA CheckedNeverExceeds ==
    ASSUME NEW r, NEW t, Checked(r, t), NEW k \in Keys, NEW whole \in Keys, Exceeds(t, k, whole)
    PROVE  Exceeds(r, k, whole)
<1>1. t[k] = r[k] /\ t[whole] = r[whole]
  BY DEF Checked, Exceeds
<1> QED BY <1>1 DEF Exceeds

LEMMA GuardrailsBound ==
    ASSUME NEW r \in Metadata
    PROVE  LET g == Guardrails(r)
           IN  /\ \A k \in PartsOfAssets : ~Exceeds(g, k, "total_assets")
               /\ \A k \in {"cash_and_equivalents", "inventory"} : ~Exceeds(g, k, "current_assets")
               /\ ~Exceeds(g, "short_term_liabilities", "liabilities")
<1> DEFINE a == Bounded(r, PartsOfAssets, "total_assets")
           b == Bounded(a, {"cash_and_equivalents", "inventory"}, "current_assets")
           c == Bounded(b, {"short_term_liabilities"}, "liabilities")
<1>1. /\ PartsOfAssets \in SUBSET Keys /\ {"cash_and_equivalents", "inventory"} \in SUBSET Keys
      /\ {"short_term_liabilities"} \in SUBSET Keys
      /\ "total_assets" \in Keys \ PartsOfAssets
      /\ "current_assets" \in Keys \ {"cash_and_equivalents", "inventory"}
      /\ "liabilities" \in Keys \ {"short_term_liabilities"}
  BY DEF PartsOfAssets, Keys, Metrics
<1>2. a \in Metadata /\ \A k \in PartsOfAssets : ~Exceeds(a, k, "total_assets")
  BY <1>1, BoundedValid, BoundedBounds
<1>3. /\ b \in Metadata /\ Checked(a, b)
      /\ \A k \in {"cash_and_equivalents", "inventory"} : ~Exceeds(b, k, "current_assets")
  <2> HIDE DEF a
  <2> QED BY <1>1, <1>2, BoundedValid, BoundedBounds
<1>4. Checked(b, c) /\ ~Exceeds(c, "short_term_liabilities", "liabilities")
  <2> HIDE DEF b
  <2> QED BY <1>1, <1>3, BoundedValid, BoundedBounds
<1>5. Guardrails(r) = c
  BY DEF Guardrails
<1> HIDE DEF a, b, c
<1>6. \A k \in {"cash_and_equivalents", "inventory"} : ~Exceeds(c, k, "current_assets")
  BY <1>1, <1>3, <1>4, CheckedNeverExceeds
<1>7. \A k \in PartsOfAssets : ~Exceeds(c, k, "total_assets")
  BY <1>1, <1>2, <1>3, <1>4, CheckedNeverExceeds
<1> QED BY <1>4, <1>5, <1>6, <1>7

LEMMA BuildKeeps ==
    ASSUME FigureInv, TypesTogether', BuildMetadata
    PROVE  FigureInv'
<1>1. /\ stage = "build" /\ stage' = "llm" /\ doc' = doc /\ meta' = parsed'
      /\ raw \in Table /\ doc \in Documents
      /\ parsed' = IF doc.balance THEN Guardrails(Built) ELSE Built
  BY DEF BuildMetadata, Built, FigureInv, TypesTogether
<1>2. Built \in Metadata
  BY <1>1, BuiltValid
<1>3. Checked(Built, parsed')
  BY <1>1, <1>2, GuardrailsValid DEF Checked
<1>4. ASSUME NEW k \in Keys, parsed'[k].value # Missing
      PROVE  /\ raw[k] # Missing /\ raw[k].value \in Int
             /\ parsed'[k].value = doc.scale * raw[k].value
             /\ Mode(parsed'[k]) = Mode(raw[k])
  <2>1. parsed'[k] = Built[k]
    BY <1>3, <1>4 DEF Checked
  <2>2. raw[k] # Missing
    BY <1>4, <2>1 DEF Built, NoFigure
  <2>3. Built[k] = MetadataOf(raw[k], doc.scale)
    BY <2>2 DEF Built
  <2>4. raw[k] \in CandidateSet
    BY <1>1, <2>2 DEF Table, Keys
  <2>5. raw[k].value \in Int
    BY <2>4 DEF CandidateSet
  <2> QED BY <2>1, <2>2, <2>3, <2>5 DEF MetadataOf, Mode
<1> DEFINE total == parsed'["total_assets"].value
           equity == parsed'["equity"].value
           owed == parsed'["liabilities"]
<1>5. ASSUME Mode(owed) = "derived", owed.value # Missing, total # Missing, equity # Missing,
             Valid((total - equity) \div doc.scale)
      PROVE  \/ Abs(owed.value - (total - equity)) <= 1000 * doc.scale
             \/ 20 * Abs(owed.value - (total - equity)) <= Abs(total - equity)
  <2> DEFINE s == doc.scale
             l == raw["liabilities"].value
             d == raw["total_assets"].value - raw["equity"].value
  <2>1. "liabilities" \in Keys /\ "total_assets" \in Keys /\ "equity" \in Keys
    BY DEF Keys, Metrics
  <2>2. /\ raw["liabilities"] # Missing /\ l \in Int /\ owed.value = s * l
        /\ Mode(raw["liabilities"]) = "derived"
    BY <1>4, <1>5, <2>1
  <2>3. /\ raw["total_assets"] # Missing /\ raw["total_assets"].value \in Int
        /\ total = s * raw["total_assets"].value
    BY <1>4, <1>5, <2>1
  <2>4. /\ raw["equity"] # Missing /\ raw["equity"].value \in Int
        /\ equity = s * raw["equity"].value
    BY <1>4, <1>5, <2>1
  <2>5. s \in Nat \ {0} /\ d \in Int
    <3>1. doc.scale \in Scales
      BY <1>1 DEF Documents
    <3>2. Scales \subseteq Nat \ {0}
      BY FigureAssumption
    <3>3. raw["total_assets"].value \in Int /\ raw["equity"].value \in Int
      BY <2>3, <2>4
    <3>4. d \in Int
      BY <3>3
    <3> QED BY <3>1, <3>2, <3>4
  <2>6. total - equity = s * d
    BY <2>3, <2>4, <2>5, ScaleKeeps
  <2>7. (total - equity) \div doc.scale = d
    BY <2>5, <2>6, ScaleKeeps
  <2>8. Valid(d)
    BY <1>5, <2>7
  <2>9. CloseTo(l, d)
    BY <1>1, <2>2, <2>3, <2>4, <2>8 DEF FigureInv, LiabilitiesAddUp
  <2>10. owed.value - (total - equity) = s * (l - d) /\ l - d \in Int
    BY <2>2, <2>5, <2>6, ScaleKeeps
  <2> HIDE DEF s, l, d, total, equity, owed
  <2>11. /\ Abs(s * (l - d)) = s * Abs(l - d) /\ Abs(s * d) = s * Abs(d)
         /\ Abs(l - d) \in Int /\ Abs(d) \in Int
    BY <2>5, <2>10, ScaleKeeps DEF Abs
  <2>12. CASE Abs(l - d) <= 1000
    <3>1. s * Abs(l - d) <= s * 1000
      BY <2>5, <2>11, <2>12, ScaleKeeps
    <3>2. s * 1000 = 1000 * s
      BY <2>5
    <3> QED BY <2>10, <2>11, <3>1, <3>2 DEF s
  <2>13. CASE 20 * Abs(l - d) <= Abs(d)
    <3>1. s * (20 * Abs(l - d)) <= s * Abs(d)
      <4>1. 20 * Abs(l - d) \in Int
        BY <2>11
      <4> QED BY <2>5, <2>11, <2>13, <4>1, ScaleKeeps
    <3>2. s * (20 * Abs(l - d)) = 20 * (s * Abs(l - d))
      BY <2>5, <2>11
    <3> QED BY <2>6, <2>10, <2>11, <3>1, <3>2
  <2> QED BY <2>9, <2>12, <2>13 DEF CloseTo
<1>6. ASSUME doc.balance
      PROVE  /\ \A k \in PartsOfAssets : ~Exceeds(parsed', k, "total_assets")
             /\ \A k \in {"cash_and_equivalents", "inventory"} :
                    ~Exceeds(parsed', k, "current_assets")
             /\ ~Exceeds(parsed', "short_term_liabilities", "liabilities")
  BY <1>1, <1>2, <1>6, GuardrailsBound
<1>7. BalanceAddsUp'
  <2> HIDE DEF total, equity, owed
  <2>1. ASSUME NEW k \in Keys, NEW whole \in Keys
        PROVE  Exceeds(parsed', k, whole) = Exceeds(parsed, k, whole)'
    BY DEF Exceeds
  <2> QED BY <1>1, <1>5, <1>6, <2>1
          DEF BalanceAddsUp, Exceeds, Mode, total, equity, owed
<1>8. TrustedFiguresStand'
  BY <1>1 DEF TrustedFiguresStand, Trusted, Stands
<1> QED BY <1>1, <1>7, <1>8
        DEF FigureInv, CandidatesRank, ReadingsOnly, TextAlone, ProfitFitsRevenue,
            LiabilitiesAddUp, KnownFiguresStand, Collecting

\* From the metadata on, nothing of the candidates is looked at again.
LEMMA LaterKeep ==
    ASSUME FigureInv, TypesTogether',
           stage \in {"llm", "override", "filter", "scrape"},
           stage' \in {"llm", "override", "filter", "scrape", "done"},
           doc' = doc /\ parsed' = parsed /\ (stage' = "llm" => stage = "llm"),
           KnownFiguresStand', TrustedFiguresStand'
    PROVE  FigureInv'
BY DEF FigureInv, CandidatesRank, ReadingsOnly, TextAlone, ProfitFitsRevenue,
       LiabilitiesAddUp, BalanceAddsUp, Collecting, Exceeds, Mode

\* An answer of the model takes the place of a trusted reading only when it is
\* comparable to it (should_prefer_llm_metric).
LEMMA MergeKeeps ==
    ASSUME FigureInv, TypesTogether', MergeLlm
    PROVE  FigureInv'
<1>1. /\ stage = "llm" /\ stage' = "override" /\ doc' = doc /\ parsed' = parsed
      /\ meta' = [k \in Keys |-> IF PreferLlm(best[k], parsed[k]) THEN best[k] ELSE parsed[k]]
  BY DEF MergeLlm
<1>2. ASSUME NEW k \in Keys, Trusted(k)
      PROVE  /\ Survives(meta'[k])
             /\ \/ meta'[k].value = parsed[k].value
                \/ Comparable(meta'[k].value, parsed[k].value)
  <2>1. CASE PreferLlm(best[k], parsed[k])
    <3>1. meta'[k] = best[k] /\ Survives(best[k])
      BY <1>1, <2>1 DEF PreferLlm
    <3>2. parsed[k].value # Missing /\ ~Replaceable(parsed[k])
      BY <1>2 DEF Trusted, Replaceable, Survives
    <3>3. Comparable(parsed[k].value, best[k].value)
      BY <2>1, <3>2 DEF PreferLlm
    <3> QED BY <3>1, <3>3 DEF Comparable
  <2>2. CASE ~PreferLlm(best[k], parsed[k])
    BY <1>1, <1>2, <2>2 DEF Trusted
  <2> QED BY <2>1, <2>2
<1>3. TrustedFiguresStand'
  BY <1>1, <1>2 DEF TrustedFiguresStand, Trusted, Stands, Survives, Authoritative, Mode
<1>4. KnownFiguresStand'
  BY <1>1 DEF KnownFiguresStand
<1> QED BY <1>1, <1>3, <1>4, LaterKeep

LEMMA OverridesKeep ==
    ASSUME FigureInv, TypesTogether', ApplyOverrides
    PROVE  FigureInv'
<1>1. /\ stage = "override" /\ stage' = "filter" /\ doc' = doc /\ parsed' = parsed
      /\ meta' = [k \in Keys |->
                    IF doc.issuer /\ k \in DOMAIN IssuerFigures
                       /\ ShouldOverride(meta[k], IssuerFigures[k])
                    THEN IssuerFigure(IssuerFigures[k]) ELSE meta[k]]
      /\ meta \in Metadata
  BY DEF ApplyOverrides, FigureInv, TypesTogether
<1>2. ASSUME NEW k \in Keys, Trusted(k)
      PROVE  /\ Survives(meta'[k])
             /\ \/ meta'[k].value = parsed[k].value
                \/ Authoritative(meta'[k])
                \/ Comparable(meta'[k].value, parsed[k].value)
  <2>1. CASE meta'[k] = meta[k]
    BY <1>1, <1>2, <2>1 DEF FigureInv, TrustedFiguresStand, Stands
  <2>2. CASE k \in DOMAIN IssuerFigures /\ meta'[k] = IssuerFigure(IssuerFigures[k])
    <3>1. IssuerFigures[k] \in Int /\ IssuerFigures[k] # Missing
      BY <2>2, FigureAssumption
    <3> QED BY <2>2, <3>1 DEF IssuerFigure, Survives, Authoritative, Mode, Override
  <2> QED BY <1>1, <2>1, <2>2
<1>3. TrustedFiguresStand'
  BY <1>1, <1>2 DEF TrustedFiguresStand, Trusted, Stands, Survives, Authoritative, Mode
<1>4. ASSUME doc.issuer, NEW k \in DOMAIN IssuerFigures, meta'[k].value # Missing
      PROVE  10 * Abs(meta'[k].value - IssuerFigures[k]) <= Abs(IssuerFigures[k])
  <2>1. k \in Keys /\ IssuerFigures[k] \in Int
    BY FigureAssumption
  <2>2. meta[k].value \in Int \cup {Missing}
    BY <1>1, <2>1 DEF Metadata, MetadataSet
  <2>3. CASE ShouldOverride(meta[k], IssuerFigures[k])
    <3>1. meta'[k].value = IssuerFigures[k]
      BY <1>1, <1>4, <2>1, <2>3 DEF IssuerFigure
    <3> QED BY <2>1, <3>1 DEF Abs
  <2>4. CASE ~ShouldOverride(meta[k], IssuerFigures[k])
    <3>1. meta'[k] = meta[k]
      BY <1>1, <2>1, <2>4
    <3> QED BY <1>4, <2>1, <2>2, <2>4, <3>1 DEF ShouldOverride, Abs
  <2> QED BY <2>3, <2>4
<1>5. KnownFiguresStand'
  BY <1>1, <1>4 DEF KnownFiguresStand, Abs
<1> QED BY <1>1, <1>3, <1>5, LaterKeep

\* Filter and regular expressions: what stands is reported, and is not filled in
\* again.
LEMMA ReportKeeps ==
    ASSUME FigureInv, TypesTogether', ApplyFilter \/ Scrape
    PROVE  FigureInv'
<1>1. /\ stage \in {"filter", "scrape"} /\ stage' \in {"scrape", "done"}
      /\ doc' = doc /\ parsed' = parsed /\ meta' = meta
  BY DEF ApplyFilter, Scrape
<1>2. ASSUME NEW k \in Keys, Trusted(k)
      PROVE  Stands(k) /\ figures'[k] = meta[k].value
  <2>1. Stands(k) /\ meta[k].value # Missing
    BY <1>1, <1>2 DEF FigureInv, TrustedFiguresStand, Stands, Survives
  <2>2. CASE ApplyFilter
    BY <2>1, <2>2 DEF ApplyFilter, Stands
  <2>3. CASE Scrape
    <3>1. figures[k] = meta[k].value
      BY <1>2, <2>3 DEF Scrape, FigureInv, TrustedFiguresStand
    <3> QED BY <2>1, <2>3, <3>1 DEF Scrape
  <2> QED BY <2>1, <2>2, <2>3
<1>3. TrustedFiguresStand'
  BY <1>1, <1>2 DEF TrustedFiguresStand, Trusted, Stands, Survives, Authoritative, Mode
<1>4. KnownFiguresStand'
  BY <1>1 DEF FigureInv, KnownFiguresStand
<1> QED BY <1>1, <1>3, <1>4, LaterKeep

LEMMA NextFigures == FigureInv /\ [Next]_vars => FigureInv'
<1> SUFFICES ASSUME FigureInv, [Next]_vars PROVE FigureInv'
  OBVIOUS
<1>1. TypesTogether /\ TypesTogether'
  BY NextTypes DEF FigureInv
<1>2. ASSUME \/ \E s \in Sightings : TableCell(s)
             \/ CollectHeadingTotals \/ CollectText \/ CollectFormCodes \/ CollectBalanceTotals
      PROVE  FigureInv'
  <2>1. PICK found : CollectStep(found)
    BY <1>1, <1>2, CollectSteps DEF FigureInv
  <2> QED BY <1>1, <2>1, CollectKeeps
<1>3. CASE CollectProfitSection
  BY <1>1, <1>3, ProfitSectionKeeps
<1>4. CASE DeriveMissing
  BY <1>1, <1>4, DeriveKeeps
<1>5. CASE BuildMetadata
  BY <1>1, <1>5, BuildKeeps
<1>6. ASSUME SkipLlm \/ (\E answer \in Answers : ChunkAnswered(answer)) \/ AskAgain \/ ChunkLost
      PROVE  FigureInv'
  <2>1. /\ stage = "llm" /\ stage' \in {"llm", "override"} /\ doc' = doc
        /\ parsed' = parsed /\ meta' = meta /\ figures' = figures
    BY <1>6 DEF SkipLlm, ChunkAnswered, AskAgain, ChunkLost, Sending
  <2>2. KnownFiguresStand'
    BY <2>1 DEF KnownFiguresStand
  <2>3. TrustedFiguresStand'
    BY <2>1 DEF FigureInv, TrustedFiguresStand, Trusted, Stands
  <2> QED BY <1>1, <2>1, <2>2, <2>3, LaterKeep
<1>7. CASE MergeLlm
  BY <1>1, <1>7, MergeKeeps
<1>8. CASE ApplyOverrides
  BY <1>1, <1>8, OverridesKeep
<1>9. CASE ApplyFilter \/ Scrape
  BY <1>1, <1>9, ReportKeeps
<1>10. CASE UNCHANGED vars
  BY <1>1, <1>10
     DEF vars, FigureInv, CandidatesRank, ReadingsOnly, TextAlone, ProfitFitsRevenue,
         LiabilitiesAddUp, BalanceAddsUp, KnownFiguresStand, TrustedFiguresStand, Direct, FromText,
         Implausible, Trusted, Stands, Exceeds
<1> QED BY <1>2, <1>3, <1>4, <1>5, <1>6, <1>7, <1>8, <1>9, <1>10 DEF Next

LEMMA FiguresFollow == Spec => []FigureInv
BY InitFigures, NextFigures, PTL DEF Spec

-----------------------------------------------------------------------------
(* The theorems                                                             *)

\* Whatever the order of tables and passes, what is kept of a metric is the first
\* candidate that none outranks, and its conflicts count the competing ones
\* after it (_raw_set of ranking.py).
THEOREM StrongestKept == Spec => []StrongestWins
<1>1. FigureInv => StrongestWins
  BY DEF FigureInv, CandidatesRank, StrongestWins, Kept, Strongest
<1> QED BY <1>1, FiguresFollow, PTL

\* When the passes are done and nothing is derived yet, a consolidated form without
\* tables holds a profit above 60 percent of its revenue only if both line codes were
\* seen (_apply_form_like_pnl_sanity).  What the model or the regular expressions put
\* in later is not tested by the code, and not meant here.
THEOREM ProfitIsPlausible == Spec => []ProfitFitsRevenue
<1>1. FigureInv => ProfitFitsRevenue
  BY DEF FigureInv
<1> QED BY <1>1, FiguresFollow, PTL

\* Of the figures parsed from the document, before anything of the model is merged:
\* derived liabilities balance in every unit of the document, and in a balance
\* sheet no part of it exceeds its whole (guardrails.py).
THEOREM BalanceHolds == Spec => []BalanceAddsUp
<1>1. FigureInv => BalanceAddsUp
  BY DEF FigureInv
<1> QED BY <1>1, FiguresFollow, PTL

\* For a known issuer every reading that passes the filter is within ten percent
\* of the known one, whatever parser and model said (issuer_fallback).  One that is
\* near it but too weak to pass is dropped, and may be replaced by a figure of the
\* regular expressions that nobody compares.
THEOREM KnownFiguresReported == Spec => []KnownIssuerIsRight
<1>1. FigureInv => KnownIssuerIsRight
  BY DEF FigureInv, KnownFiguresStand, KnownIssuerIsRight, Survives
<1> QED BY <1>1, FiguresFollow, PTL

\* A trusted reading of the parser is reported, or gives way to a figure of the model
\* of the same sign and less than ten times away, or to a known one, and to nothing
\* else (should_prefer_llm_metric, apply_issuer_metric_overrides).
THEOREM TrustedFiguresReported == Spec => []ConfidentReadingHolds
<1>1. FigureInv => ConfidentReadingHolds
  BY DEF FigureInv, TrustedFiguresStand, Trusted, Stands, ConfidentReadingHolds, Survives
<1> QED BY <1>1, FiguresFollow, PTL
=============================================================================
