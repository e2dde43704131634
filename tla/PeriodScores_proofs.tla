-------------------------- MODULE PeriodScores_proofs --------------------------
(***************************************************************************)
(* What PeriodScores promises, for sessions of any length, any labels and  *)
(* any documents.                                                          *)
(***************************************************************************)
EXTENDS PeriodScores, FiniteSetTheorems, FunctionTheorems, SequenceTheorems, TLAPS

-----------------------------------------------------------------------------
(* Ranks                                                                    *)

TotalOrder(S, R) ==
    /\ \A i \in S : <<i, i>> \in R
    /\ \A i, j \in S : <<i, j>> \in R \/ <<j, i>> \in R
    /\ \A i, j \in S : <<i, j>> \in R /\ <<j, i>> \in R => i = j
    /\ \A i, j, k \in S : <<i, j>> \in R /\ <<j, k>> \in R => <<i, k>> \in R

UpTo(S, R, i) == {j \in S : <<j, i>> \in R}

\* Counting what is not after it gives every element of a finite ordered set a
\* place of its own, from the first to the last.
LEMMA RanksCover ==
    ASSUME NEW S, IsFiniteSet(S), NEW R, TotalOrder(S, R)
    PROVE  [i \in S |-> Cardinality(UpTo(S, R, i))] \in Bijection(S, 1 .. Cardinality(S))
<1> DEFINE rank == [i \in S |-> Cardinality(UpTo(S, R, i))]
           n == Cardinality(S)
<1>1. n \in Nat /\ IsFiniteSet(1 .. n) /\ Cardinality(1 .. n) = n
  <2>1. n \in Nat
    BY FS_CardinalityType
  <2>2. IsFiniteSet(1 .. n) /\ Cardinality(1 .. n) = IF 1 > n THEN 0 ELSE n - 1 + 1
    BY <2>1, FS_Interval
  <2> QED BY <2>1, <2>2
<1>2. ASSUME NEW i \in S
      PROVE  /\ IsFiniteSet(UpTo(S, R, i)) /\ UpTo(S, R, i) \subseteq S
             /\ Cardinality(UpTo(S, R, i)) \in 1 .. n
  <2>1. UpTo(S, R, i) \in SUBSET S /\ i \in UpTo(S, R, i)
    BY DEF UpTo, TotalOrder
  <2>2. IsFiniteSet(UpTo(S, R, i)) /\ Cardinality(UpTo(S, R, i)) <= n
    BY <2>1, FS_Subset
  <2>3. Cardinality(UpTo(S, R, i)) \in Nat /\ Cardinality(UpTo(S, R, i)) # 0
    BY <2>1, <2>2, FS_CardinalityType, FS_EmptySet
  <2> QED BY <1>1, <2>1, <2>2, <2>3
<1>3. ASSUME NEW i \in S, NEW j \in S, <<i, j>> \in R, i # j
      PROVE  Cardinality(UpTo(S, R, i)) # Cardinality(UpTo(S, R, j))
  <2>1. UpTo(S, R, i) \in SUBSET UpTo(S, R, j) /\ j \in UpTo(S, R, j) /\ j \notin UpTo(S, R, i)
    BY <1>3 DEF UpTo, TotalOrder
  <2>2. UpTo(S, R, i) # UpTo(S, R, j)
    BY <2>1
  <2> QED BY <1>2, <2>1, <2>2, FS_Subset
<1>4. rank \in [S -> 1 .. n]
  BY <1>2
<1>5. ASSUME NEW i \in S, NEW j \in S, rank[i] = rank[j] PROVE i = j
  <2>1. <<i, j>> \in R \/ <<j, i>> \in R
    BY DEF TotalOrder
  <2> QED BY <1>3, <1>5, <2>1
<1>6. rank \in Injection(S, 1 .. n)
  BY <1>4, <1>5, Fun_IsInj
<1> HIDE DEF rank
<1>7. rank \in Surjection(S, 1 .. n)
  BY <1>1, <1>6, FS_Injection
<1>8. rank \in Bijection(S, 1 .. n)
  BY <1>6, <1>7, Fun_IsBij
<1> QED BY <1>8 DEF rank

\* Taking the elements by their rank takes each of them once.
LEMMA TakenByRank ==
    ASSUME NEW S, IsFiniteSet(S), NEW R, TotalOrder(S, R)
    PROVE  LET pick == [k \in 1 .. Cardinality(S) |->
                            CHOOSE i \in S : Cardinality(UpTo(S, R, i)) = k]
           IN  pick \in Bijection(1 .. Cardinality(S), S)
<1> DEFINE rank == [i \in S |-> Cardinality(UpTo(S, R, i))]
           n == Cardinality(S)
           pick == [k \in 1 .. n |-> CHOOSE i \in S : Cardinality(UpTo(S, R, i)) = k]
<1>1. rank \in Bijection(S, 1 .. n)
  BY RanksCover
<1>2. /\ \A k \in 1 .. n : \E i \in S : rank[i] = k
      /\ \A i, j \in S : rank[i] = rank[j] => i = j
      /\ \A i \in S : rank[i] \in 1 .. n
  <2> HIDE DEF rank
  <2>1. rank \in Surjection(S, 1 .. n) /\ rank \in Injection(S, 1 .. n)
    BY <1>1, Fun_BijectionProperties
  <2>2. /\ rank \in [S -> 1 .. n] /\ \A k \in 1 .. n : \E i \in S : rank[i] = k
    BY <2>1, Fun_SurjectionProperties
  <2>3. \A i, j \in S : rank[i] = rank[j] => i = j
    BY <2>1, Fun_InjectionProperties
  <2> QED BY <2>2, <2>3
<1>3. \A i \in S : rank[i] = Cardinality(UpTo(S, R, i))
  OBVIOUS
<1>4. ASSUME NEW k \in 1 .. n PROVE pick[k] \in S /\ rank[pick[k]] = k
  <2>1. \E i \in S : Cardinality(UpTo(S, R, i)) = k
    BY <1>2, <1>3
  <2>2. pick[k] = CHOOSE i \in S : Cardinality(UpTo(S, R, i)) = k
    OBVIOUS
  <2>3. pick[k] \in S /\ Cardinality(UpTo(S, R, pick[k])) = k
    <3> HIDE DEF pick
    <3> QED BY <2>1, <2>2
  <2> QED BY <1>3, <2>3
<1> HIDE DEF rank
<1>5. pick \in [1 .. n -> S]
  BY <1>4
<1>6. \A a, b \in 1 .. n : pick[a] = pick[b] => a = b
  <2> HIDE DEF pick
  <2> QED BY <1>4
<1>7. \A i \in S : \E k \in 1 .. n : pick[k] = i
  <2> HIDE DEF pick
  <2> TAKE i \in S
  <2>1. rank[i] \in 1 .. n
    BY <1>2
  <2>2. pick[rank[i]] = i
    BY <1>2, <1>4, <2>1
  <2> QED BY <2>1, <2>2
<1>8. pick \in Bijection(1 .. n, S)
  <2> HIDE DEF pick
  <2> QED BY <1>5, <1>6, <1>7, Fun_IsBij
<1> QED BY <1>8

-----------------------------------------------------------------------------
(* Sorting                                                                  *)

Keyed(rs, n) ==
    /\ DOMAIN rs = 1 .. n /\ Len(rs) = n
    /\ \A i \in 1 .. n : SortKey(rs[i].label) \in Int

Permuted(ts, rs, n) == \E p \in Bijection(1 .. n, 1 .. n) : ts = [k \in 1 .. n |-> rs[p[k]]]

\* sort_periods_chronologically loses no period and makes none.
LEMMA SortedPermutes ==
    ASSUME NEW rs, NEW n \in Nat, Keyed(rs, n)
    PROVE  Permuted(Sorted(rs), rs, n)
<1> USE DEF Keyed
<1> DEFINE S == 1 .. n
           Before(i, j) == \/ SortKey(rs[i].label) < SortKey(rs[j].label)
                           \/ (SortKey(rs[i].label) = SortKey(rs[j].label) /\ i <= j)
           R == {ij \in S \X S : Before(ij[1], ij[2])}
           p == [k \in 1 .. Cardinality(S) |->
                    CHOOSE i \in S : Cardinality(UpTo(S, R, i)) = k]
<1>1. IsFiniteSet(S) /\ Cardinality(S) = n
  <2>1. IsFiniteSet(1 .. n) /\ Cardinality(1 .. n) = IF 1 > n THEN 0 ELSE n - 1 + 1
    BY FS_Interval
  <2> QED BY <2>1
<1>2. \A i, j \in S : <<i, j>> \in R <=> Before(i, j)
  OBVIOUS
<1>3. TotalOrder(S, R)
  <2> DEFINE key == [i \in S |-> SortKey(rs[i].label)]
  <2>1. key \in [S -> Int]
    OBVIOUS
  <2>2. \A i, j \in S : <<i, j>> \in R <=> key[i] < key[j] \/ (key[i] = key[j] /\ i <= j)
    BY <1>2
  <2>3. S \subseteq Int
    OBVIOUS
  <2> HIDE DEF key, R, S
  <2>4. \A i \in S : key[i] \in Int /\ i \in Int
    BY <2>1, <2>3
  <2>5. \A i \in S : <<i, i>> \in R
    BY <2>2, <2>4
  <2>6. \A i, j \in S : <<i, j>> \in R \/ <<j, i>> \in R
    <3> SUFFICES ASSUME NEW i \in S, NEW j \in S PROVE <<i, j>> \in R \/ <<j, i>> \in R
      OBVIOUS
    <3>1. /\ key[i] \in Int /\ key[j] \in Int /\ i \in Int /\ j \in Int
      BY <2>4
    <3>2. \/ key[i] < key[j] \/ (key[i] = key[j] /\ i <= j)
          \/ key[j] < key[i] \/ (key[j] = key[i] /\ j <= i)
      BY <3>1
    <3> QED BY <2>2, <3>2
  <2>7. \A i, j \in S : <<i, j>> \in R /\ <<j, i>> \in R => i = j
    BY <2>2, <2>4
  <2>8. \A i, j, k \in S : <<i, j>> \in R /\ <<j, k>> \in R => <<i, k>> \in R
    <3> SUFFICES ASSUME NEW i \in S, NEW j \in S, NEW k \in S, <<i, j>> \in R, <<j, k>> \in R
                 PROVE  <<i, k>> \in R
      OBVIOUS
    <3>1. /\ key[i] \in Int /\ key[j] \in Int /\ key[k] \in Int
          /\ i \in Int /\ j \in Int /\ k \in Int
      BY <2>4
    <3>2. key[i] < key[j] \/ (key[i] = key[j] /\ i <= j)
      BY <2>2
    <3>3. key[j] < key[k] \/ (key[j] = key[k] /\ j <= k)
      BY <2>2
    <3>4. key[i] < key[k] \/ (key[i] = key[k] /\ i <= k)
      BY <3>1, <3>2, <3>3
    <3> QED BY <2>2, <3>4
  <2> QED BY <2>5, <2>6, <2>7, <2>8 DEF TotalOrder
<1>4. p \in Bijection(S, S)
  <2> HIDE DEF S, R
  <2>1. p \in Bijection(1 .. Cardinality(S), S)
    BY <1>1, <1>3, TakenByRank
  <2> HIDE DEF p
  <2> QED BY <1>1, <2>1 DEF S
<1>5. \A i \in S : UpTo(S, R, i) = {j \in S : Before(j, i)}
  BY <1>2 DEF UpTo
<1>6. \A k \in S : p[k] = CHOOSE i \in S : Cardinality({j \in S : Before(j, i)}) = k
  <2> TAKE k \in S
  <2>1. p[k] = CHOOSE i \in S : Cardinality(UpTo(S, R, i)) = k
    BY <1>1
  <2>2. \A i \in S : (Cardinality(UpTo(S, R, i)) = k) = (Cardinality({j \in S : Before(j, i)}) = k)
    <3> HIDE DEF R, Before
    <3> QED BY <1>5
  <2> HIDE DEF R, Before, p
  <2> QED BY <2>1, <2>2
<1>7. Sorted(rs) = [k \in 1 .. n |->
            rs[CHOOSE i \in S : Cardinality({j \in S : Before(j, i)}) = k]]
  BY DEF Sorted
<1>8. Sorted(rs) = [k \in 1 .. n |-> rs[p[k]]]
  <2> HIDE DEF Before, p
  <2> QED BY <1>6, <1>7
<1> HIDE DEF p
<1> QED BY <1>4, <1>8 DEF Permuted

-----------------------------------------------------------------------------
(* Reasons                                                                  *)

\* The codes a metric or its inputs may carry but for that of coverage.
LadderCodes == {ReasonLadder[i] : i \in DOMAIN ReasonLadder}
Causes == LadderCodes \ CoverageCodes

LEMMA LadderType ==
    /\ DOMAIN ReasonLadder = 1 .. 14
    /\ \A i \in 1 .. 14 : ReasonLadder[i] \in LadderCodes
<1>1. DOMAIN ReasonLadder = 1 .. 14
  BY DEF ReasonLadder
<1> QED BY <1>1 DEF LadderCodes

LEMMA Singleton ==
    ASSUME NEW S, NEW x \in S
    PROVE  <<x>> \in Seq(S) /\ Len(<<x>>) = 1 /\ <<x>>[1] = x
OBVIOUS

LEMMA CoverageOnLadder == CoverageCodes \subseteq LadderCodes
<1>1. 14 \in DOMAIN ReasonLadder /\ ReasonLadder[14] = "INTENTIONALLY_SUPPRESSED"
  BY DEF ReasonLadder
<1> QED BY <1>1 DEF CoverageCodes, LadderCodes

\* The first of the ordered reasons is one of them.
LEMMA OrderedHead ==
    ASSUME NEW codes \in SUBSET LadderCodes
    PROVE  /\ Ordered(codes) \in Seq(LadderCodes)
           /\ codes # {} => Ordered(codes) # <<>> /\ Ordered(codes)[1] \in codes
<1> DEFINE S == {i \in DOMAIN ReasonLadder : ReasonLadder[i] \in codes}
           R == {ij \in S \X S : ij[1] <= ij[2]}
           n == Cardinality(S)
           pick == [k \in 1 .. n |-> CHOOSE i \in S : Cardinality(UpTo(S, R, i)) = k]
<1>1. S \in SUBSET (1 .. 14) /\ IsFiniteSet(1 .. 14)
  <2>1. S \in SUBSET (1 .. 14)
    BY LadderType
  <2>2. ASSUME NEW k \in Int PROVE IsFiniteSet(1 .. k)
    BY FS_Interval
  <2>3. 14 \in Int
    OBVIOUS
  <2>4. IsFiniteSet(1 .. 14)
    BY <2>2, <2>3, Zenon
  <2> QED BY <2>1, <2>4
<1>2. IsFiniteSet(S) /\ n \in Nat
  <2> HIDE DEF S
  <2> QED BY <1>1, FS_Subset, FS_CardinalityType
<1>3. \A i, j \in S : <<i, j>> \in R <=> i <= j
  OBVIOUS
<1>4. TotalOrder(S, R)
  <2>1. \A i \in S : i \in Int
    BY <1>1
  <2> HIDE DEF S, R
  <2> QED BY <1>3, <2>1 DEF TotalOrder
<1>5. pick \in Bijection(1 .. n, S)
  <2> HIDE DEF S, R
  <2> QED BY <1>2, <1>4, TakenByRank
<1>6. \A i \in S : UpTo(S, R, i) = {j \in S : j <= i}
  BY <1>3 DEF UpTo
<1>7. Ordered(codes) = [k \in 1 .. n |->
            ReasonLadder[CHOOSE i \in S : Cardinality({j \in S : j <= i}) = k]]
  BY DEF Ordered
<1> HIDE DEF S, R
<1>8. \A k \in 1 .. n : pick[k] = CHOOSE i \in S : Cardinality({j \in S : j <= i}) = k
  <2> TAKE k \in 1 .. n
  <2>1. \A i \in S : (Cardinality(UpTo(S, R, i)) = k) = (Cardinality({j \in S : j <= i}) = k)
    BY <1>6
  <2> QED BY <2>1
<1>9. \A k \in 1 .. n : pick[k] \in S
  <2> HIDE DEF pick
  <2>1. pick \in [1 .. n -> S]
    BY <1>5, Fun_BijectionProperties
  <2> QED BY <2>1
<1>10. Ordered(codes) = [k \in 1 .. n |-> ReasonLadder[pick[k]]]
  <2> HIDE DEF pick
  <2> QED BY <1>7, <1>8
<1> HIDE DEF pick
<1>11. \A k \in 1 .. n : ReasonLadder[pick[k]] \in codes /\ ReasonLadder[pick[k]] \in LadderCodes
  BY <1>1, <1>9, LadderType DEF S
<1>12. Ordered(codes) \in Seq(LadderCodes)
  BY <1>2, <1>10, <1>11, IsASeq
<1>13. ASSUME codes # {} PROVE Ordered(codes) # <<>> /\ Ordered(codes)[1] \in codes
  <2>1. S # {}
    BY <1>13 DEF S, LadderCodes
  <2>2. n > 0
    BY <1>2, <2>1, FS_EmptySet
  <2>3. 1 \in 1 .. n /\ DOMAIN Ordered(codes) = 1 .. n
    BY <1>2, <1>10, <2>2
  <2>4. Ordered(codes)[1] \in codes
    BY <1>10, <1>11, <2>3
  <2>5. DOMAIN <<>> = {}
    OBVIOUS
  <2>6. Ordered(codes) # <<>>
    BY <2>3, <2>5
  <2> QED BY <2>4, <2>6
<1> QED BY <1>12, <1>13

\* Whatever it is refused for, a metric without a value names a primary reason,
\* and that of coverage exactly when it is suppressed.
LEMMA RefusalsEmitted ==
    ASSUME NEW codes \in SUBSET LadderCodes
    PROVE  /\ codes \subseteq Causes => MayBeEmitted(Refused("invalid", codes))
           /\ MayBeEmitted(Refused("suppressed", codes))
<1>1. ASSUME codes \subseteq Causes PROVE MayBeEmitted(Refused("invalid", codes))
  <2>1. CASE codes = {}
    <3>1. OutwardReasons("invalid", codes) = <<"COMPUTE_BASIS_MISSING">>
      BY <2>1 DEF OutwardReasons
    <3> QED BY <3>1 DEF Refused, MayBeEmitted, CoverageCodes
  <2>2. CASE codes # {}
    <3>1. OutwardReasons("invalid", codes) = Ordered(codes)
      BY <2>2 DEF OutwardReasons
    <3>2. Ordered(codes) # <<>> /\ Ordered(codes)[1] \in Causes
      BY <1>1, <2>2, OrderedHead
    <3> QED BY <3>1, <3>2 DEF Refused, MayBeEmitted, Causes
  <2> QED BY <2>1, <2>2
<1>2. MayBeEmitted(Refused("suppressed", codes))
  <2> DEFINE rest == Ordered(codes \ CoverageCodes)
             first == <<"INTENTIONALLY_SUPPRESSED">>
  <2>1. OutwardReasons("suppressed", codes) = first \o rest
    BY DEF OutwardReasons
  <2>2. rest \in Seq(LadderCodes)
    BY OrderedHead
  <2>3. first \in Seq(LadderCodes) /\ Len(first) = 1 /\ first[1] = "INTENTIONALLY_SUPPRESSED"
    <3>1. "INTENTIONALLY_SUPPRESSED" \in LadderCodes
      BY CoverageOnLadder DEF CoverageCodes
    <3> QED BY <3>1, Singleton
  <2> HIDE DEF rest, first
  <2>4. Len(first \o rest) = 1 + Len(rest) /\ Len(rest) \in Nat
        /\ (first \o rest)[1] = "INTENTIONALLY_SUPPRESSED" /\ first \o rest \in Seq(LadderCodes)
    BY <2>2, <2>3, ConcatProperties, LenProperties
  <2>5. first \o rest # <<>>
    BY <2>4, EmptySeq
  <2> QED BY <2>1, <2>4, <2>5 DEF Refused, MayBeEmitted, CoverageCodes
<1> QED BY <1>1, <1>2

LEMMA CausesNamed ==
    {"REQUIRED_INPUT_MISSING", "COMPUTE_BASIS_MISSING", "DENOMINATOR_INPUT_MISSING",
     "DENOMINATOR_POLICY_REFUSED", "INPUT_UNEXPECTED_NEGATIVE",
     "AVERAGE_BALANCE_CONTEXT_MISSING", "FORBIDDEN_APPROXIMATION",
     "INCOMPATIBLE_CLOSING_BASIS", "INCOMPATIBLE_OPENING_BASIS",
     "MISSING_CLOSING_BALANCE", "MISSING_OPENING_BALANCE",
     "DUPLICATE_PERIOD_ID", "UNSUPPORTED_PERIOD_CLASS"} \subseteq Causes
<1>1. /\ ReasonLadder[1] = "REQUIRED_INPUT_MISSING"
      /\ ReasonLadder[2] = "COMPUTE_BASIS_MISSING"
      /\ ReasonLadder[3] = "DENOMINATOR_INPUT_MISSING"
      /\ ReasonLadder[4] = "DENOMINATOR_POLICY_REFUSED"
      /\ ReasonLadder[5] = "INPUT_UNEXPECTED_NEGATIVE"
      /\ ReasonLadder[6] = "AVERAGE_BALANCE_CONTEXT_MISSING"
      /\ ReasonLadder[7] = "FORBIDDEN_APPROXIMATION"
      /\ ReasonLadder[8] = "INCOMPATIBLE_CLOSING_BASIS"
      /\ ReasonLadder[9] = "INCOMPATIBLE_OPENING_BASIS"
      /\ ReasonLadder[10] = "MISSING_CLOSING_BALANCE"
      /\ ReasonLadder[11] = "MISSING_OPENING_BALANCE"
      /\ ReasonLadder[12] = "DUPLICATE_PERIOD_ID"
      /\ ReasonLadder[13] = "UNSUPPORTED_PERIOD_CLASS"
  BY DEF ReasonLadder
<1>2. \A i \in 1 .. 13 : ReasonLadder[i] \in LadderCodes
  BY LadderType
<1>3. /\ ReasonLadder[1] \in LadderCodes /\ ReasonLadder[2] \in LadderCodes
      /\ ReasonLadder[3] \in LadderCodes /\ ReasonLadder[4] \in LadderCodes
      /\ ReasonLadder[5] \in LadderCodes /\ ReasonLadder[6] \in LadderCodes
      /\ ReasonLadder[7] \in LadderCodes /\ ReasonLadder[8] \in LadderCodes
      /\ ReasonLadder[9] \in LadderCodes /\ ReasonLadder[10] \in LadderCodes
      /\ ReasonLadder[11] \in LadderCodes /\ ReasonLadder[12] \in LadderCodes
      /\ ReasonLadder[13] \in LadderCodes
  BY <1>2
<1> QED BY <1>1, <1>3 DEF Causes, CoverageCodes

-----------------------------------------------------------------------------
(* One metric                                                               *)

InputSet == [value : Int \cup {Missing}, reasons : SUBSET Causes]

\* Inputs are figures, known or not, with reasons other than that of coverage.
WellGiven(inputs) == \A key \in DOMAIN inputs : inputs[key] \in InputSet

\* What a metric may be.
WellComputed(m) == MayBeEmitted(m) /\ m.value \in Int \cup {Missing}

LEMMA MissingIsNoFigure == Missing \notin Int
BY PeriodScoresAssumption

LEMMA RefusedWell ==
    ASSUME NEW codes \in SUBSET LadderCodes
    PROVE  /\ codes \subseteq Causes => WellComputed(Refused("invalid", codes))
           /\ WellComputed(Refused("suppressed", codes))
BY RefusalsEmitted DEF WellComputed, Refused

LEMMA QuantizedType ==
    ASSUME NEW n \in Int, NEW d \in Int, d > 0
    PROVE  Quantized(n, d) \in Int
<1>1. (10000 * n) \div d \in Int
  OBVIOUS
<1> QED BY <1>1 DEF Quantized

LEMMA GivenType ==
    ASSUME NEW inputs, WellGiven(inputs), NEW key
    PROVE  /\ Given(inputs, key) \in InputSet
           /\ ComputeInput(inputs, key) \in InputSet
<1>1. Given(inputs, key) \in InputSet
  BY DEF Given, NoInput, Input, WellGiven, InputSet
<1>2. ComputeInput(inputs, key) \in InputSet
  <2> DEFINE in == Given(inputs, key)
  <2>1. CASE in.value = Missing
    BY <1>1, <2>1 DEF ComputeInput
  <2>2. CASE in.value # Missing
    <3>1. 2 * in.value \in Int /\ in.reasons \in SUBSET Causes
      BY <1>1, <2>2 DEF InputSet
    <3>2. ComputeInput(inputs, key) = [value |-> 2 * in.value, reasons |-> in.reasons]
      BY <2>2 DEF ComputeInput, Input
    <3> QED BY <3>1, <3>2 DEF InputSet
  <2> QED BY <2>1, <2>2
<1> QED BY <1>1, <1>2

\* A division by the policy of the registry is refused or has a value.
LEMMA FormulaWell ==
    ASSUME NEW num \in InputSet, NEW den \in InputSet
    PROVE  WellComputed(Formula(num, den, "strict_positive"))
<1> DEFINE carried == num.reasons \union den.reasons
           refused == DenominatorRefusal("strict_positive", den.value)
                      \union (IF num.value = Missing THEN {"REQUIRED_INPUT_MISSING"} ELSE {})
<1>1. carried \in SUBSET Causes /\ Causes \subseteq LadderCodes
  BY DEF InputSet, Causes
<1>2. refused \in SUBSET Causes
  BY CausesNamed DEF DenominatorRefusal
<1>3. CASE carried # {}
  <2>1. Formula(num, den, "strict_positive") = Refused("invalid", carried)
    BY <1>3 DEF Formula
  <2> HIDE DEF carried
  <2> QED BY <1>1, <2>1, RefusedWell
<1>4. CASE carried = {} /\ refused # {}
  <2>1. Formula(num, den, "strict_positive") = Refused("invalid", refused)
    BY <1>4 DEF Formula
  <2> HIDE DEF refused
  <2> QED BY <1>1, <1>2, <2>1, RefusedWell
<1>5. CASE carried = {} /\ refused = {}
  <2>1. Formula(num, den, "strict_positive") = Divided(num.value, den.value)
    BY <1>5 DEF Formula
  <2>2. num.value # Missing /\ DenominatorRefusal("strict_positive", den.value) = {}
    BY <1>5
  <2>3. DenominatorClass(den.value) = "positive"
    BY <2>2 DEF DenominatorRefusal, Allowed
  <2>4. num.value \in Int /\ den.value \in Int /\ den.value > 0
    BY <2>2, <2>3 DEF DenominatorClass, InputSet
  <2>5. Divided(num.value, den.value) = Valid(Quantized(num.value, den.value))
    BY <2>2, <2>4, MissingIsNoFigure DEF Divided
  <2>6. Quantized(num.value, den.value) \in Int
    BY <2>4, QuantizedType
  <2> QED BY <2>1, <2>5, <2>6, MissingIsNoFigure DEF WellComputed, MayBeEmitted, Valid
<1> QED BY <1>3, <1>4, <1>5

LEMMA RegistryShape ==
    ASSUME NEW m \in Metrics
    PROVE  /\ REGISTRY[m].base \in {"none"} \cup BaseKeys
           /\ REGISTRY[m].coverage = "suppressed" \/ REGISTRY[m].policy = "strict_positive"
<1>1. Metrics = {"current_ratio", "absolute_liquidity_ratio", "ros", "equity_ratio",
                 "ebitda_margin", "quick_ratio", "roa", "roe", "financial_leverage",
                 "financial_leverage_total", "financial_leverage_debt_only",
                 "interest_coverage", "asset_turnover", "inventory_turnover",
                 "receivables_turnover"}
  BY DEF Metrics, REGISTRY
<1> QED BY <1>1 DEF REGISTRY, Plain, Average, Suppressed, BaseKeys

\* Every metric of the registry is computed or refused in a form that
\* validate_final_outward_emission lets pass.
LEMMA MetricWell ==
    ASSUME NEW inputs, WellGiven(inputs), NEW m \in Metrics
    PROVE  WellComputed(ComputeMetric(REGISTRY[m], inputs))
<1> DEFINE def == REGISTRY[m]
           opening == Given(inputs, OpeningOf[def.base])
           closing == Given(inputs, ClosingOf[def.base])
           basis == IF def.base = "none" THEN {} ELSE BasisRefusal(opening, closing)
           carried == Given(inputs, def.num).reasons \union Given(inputs, def.den).reasons
           den == IF def.base = "none" THEN ComputeInput(inputs, def.den)
                  ELSE AverageInput(inputs, def.base)
<1>1. ComputeMetric(def, inputs) =
        IF basis # {} THEN Refused("invalid", basis \union carried)
        ELSE IF def.coverage = "suppressed"
             THEN Refused("suppressed", CoverageCodes \union carried)
        ELSE Formula(ComputeInput(inputs, def.num), den, def.policy)
  BY DEF ComputeMetric
<1>2. /\ opening \in InputSet /\ closing \in InputSet
      /\ Given(inputs, def.num) \in InputSet /\ Given(inputs, def.den) \in InputSet
      /\ ComputeInput(inputs, def.num) \in InputSet /\ ComputeInput(inputs, def.den) \in InputSet
  <2> HIDE DEF def
  <2> QED BY GivenType
<1>3. Causes \subseteq LadderCodes /\ CoverageCodes \subseteq LadderCodes
  BY CoverageOnLadder DEF Causes
<1>4. carried \in SUBSET Causes
  BY <1>2 DEF InputSet
<1>5. basis \in SUBSET Causes
  <2> HIDE DEF opening, closing, def
  <2> QED BY CausesNamed DEF BasisRefusal
<1>6. basis = {} => den \in InputSet
  <2>1. CASE def.base = "none"
    BY <1>2, <2>1
  <2>2. CASE def.base # "none"
    <3> SUFFICES ASSUME basis = {} PROVE den \in InputSet
      OBVIOUS
    <3>1. BasisRefusal(opening, closing) = {}
      BY <2>2
    <3>2. opening.value # Missing /\ closing.value # Missing
      <4> HIDE DEF opening, closing
      <4>1. CandidateState(opening) # "MISSING" /\ CandidateState(closing) # "MISSING"
        BY <3>1 DEF BasisRefusal, CandidateState
      <4> QED BY <4>1 DEF CandidateState
    <3>3. opening.value + closing.value \in Int
      BY <1>2, <3>2 DEF InputSet
    <3>4. den = [value |-> opening.value + closing.value, reasons |-> {}]
      BY <2>2 DEF AverageInput, Input
    <3> HIDE DEF opening, closing, den
    <3> QED BY <3>3, <3>4 DEF InputSet
  <2> QED BY <2>1, <2>2
<1>7. def.coverage = "suppressed" \/ def.policy = "strict_positive"
  BY RegistryShape
<1> HIDE DEF def, basis, carried, den
<1>8. CASE basis # {}
  <2>1. basis \union carried \in SUBSET Causes
    BY <1>4, <1>5
  <2>2. WellComputed(Refused("invalid", basis \union carried))
    BY <1>3, <2>1, RefusedWell
  <2> QED BY <1>1, <1>8, <2>2 DEF def
<1>9. CASE basis = {} /\ def.coverage = "suppressed"
  <2>1. CoverageCodes \union carried \in SUBSET LadderCodes
    BY <1>3, <1>4
  <2>2. WellComputed(Refused("suppressed", CoverageCodes \union carried))
    BY <2>1, RefusedWell
  <2> QED BY <1>1, <1>9, <2>2 DEF def
<1>10. CASE basis = {} /\ def.coverage # "suppressed"
  <2>1. WellComputed(Formula(ComputeInput(inputs, def.num), den, "strict_positive"))
    BY <1>2, <1>6, <1>10, FormulaWell
  <2> QED BY <1>1, <1>7, <1>10, <2>1 DEF def
<1> QED BY <1>8, <1>9, <1>10

-----------------------------------------------------------------------------
(* The ratios of a document and of a period                                 *)

FiguresSet == [FigureKeys -> Int \cup {Missing}]

LEMMA NormalizedWell ==
    ASSUME NEW raw, WellGiven(raw)
    PROVE  WellGiven(NormalizeInputs(raw))
<1> SUFFICES ASSUME NEW key \in DOMAIN raw PROVE NormalizeInputs(raw)[key] \in InputSet
  BY DEF WellGiven, NormalizeInputs
<1> DEFINE in == raw[key]
<1>1. in \in InputSet /\ in.reasons \in SUBSET Causes
  BY DEF WellGiven, InputSet
<1>2. in.reasons \union {"INPUT_UNEXPECTED_NEGATIVE"} \in SUBSET Causes
  BY <1>1, CausesNamed
<1>3. Validated(key, in) \in InputSet
  BY <1>1, <1>2 DEF Validated, Input, InputSet
<1> QED BY <1>3 DEF NormalizeInputs

LEMMA DocumentWell ==
    ASSUME NEW figures \in FiguresSet
    PROVE  /\ RatiosOfDocument(figures) = [m \in Metrics |-> RatiosOfDocument(figures)[m]]
           /\ \A m \in Metrics : WellComputed(RatiosOfDocument(figures)[m])
<1> DEFINE given == [key \in DOMAIN figures |-> Input(figures[key], {})]
<1>1. WellGiven(given)
  BY DEF WellGiven, Input, InputSet, FiguresSet
<1>2. WellGiven(NormalizeInputs(given))
  <2> HIDE DEF given
  <2> QED BY <1>1, NormalizedWell
<1>3. RatiosOfDocument(figures) =
        [m \in Metrics |-> ComputeMetric(REGISTRY[m], NormalizeInputs(given))]
  BY DEF RatiosOfDocument, Compute
<1> HIDE DEF given
<1> QED BY <1>2, <1>3, MetricWell

\* A list of labels and the figures of as many documents.
Listed(labels, figures) ==
    /\ DOMAIN figures = DOMAIN labels
    /\ \A j \in DOMAIN labels : figures[j] \in FiguresSet

LEMMA LinksInside ==
    ASSUME NEW labels, NEW l
    PROVE  OpeningLink(labels, l) \subseteq DOMAIN labels
BY DEF OpeningLink, LinkTo, Carrying

LEMMA BalancesWell ==
    ASSUME NEW labels, NEW figures, Listed(labels, figures), NEW i \in DOMAIN labels,
           NEW base \in BaseKeys
    PROVE  LET b == BalanceInputs(labels, figures, i, base)
           IN  b.opening \in InputSet /\ b.closing \in InputSet /\ b.average \in InputSet
<1> DEFINE l == labels[i]
           reasons == BasisReasons(labels, l)
           closing == figures[i][base]
           opening == IF OpeningLink(labels, l) = {} THEN Missing
                      ELSE figures[CHOOSE j \in OpeningLink(labels, l) : TRUE][base]
           known == opening # Missing /\ closing # Missing /\ reasons = {}
           b == BalanceInputs(labels, figures, i, base)
<1>1. base \in FigureKeys
  BY DEF BaseKeys, FigureKeys
<1>2. closing \in Int \cup {Missing}
  BY <1>1 DEF Listed, FiguresSet
<1>3. opening \in Int \cup {Missing}
  <2>1. CASE OpeningLink(labels, l) = {}
    BY <2>1
  <2>2. CASE OpeningLink(labels, l) # {}
    <3>1. (CHOOSE j \in OpeningLink(labels, l) : TRUE) \in DOMAIN labels
      BY <2>2, LinksInside
    <3> QED BY <1>1, <2>2, <3>1 DEF Listed, FiguresSet
  <2> QED BY <2>1, <2>2
<1>4. reasons \in SUBSET Causes /\ reasons \union {"AVERAGE_BALANCE_CONTEXT_MISSING"} \in SUBSET Causes
  <2> HIDE DEF l
  <2>1. reasons \in SUBSET Causes
    BY CausesNamed DEF BasisReasons
  <2> QED BY <2>1, CausesNamed
<1>5. b = [opening |-> Input(opening, reasons), closing |-> Input(closing, reasons),
           average |-> IF known THEN Input((opening + closing) \div 2, {})
                       ELSE Input(Missing, reasons \union {"AVERAGE_BALANCE_CONTEXT_MISSING"})]
  BY DEF BalanceInputs
<1> HIDE DEF opening, closing, reasons, b, l
<1>6. known => (opening + closing) \div 2 \in Int
  BY <1>2, <1>3
<1>7. b.opening \in InputSet /\ b.closing \in InputSet
  BY <1>2, <1>3, <1>4, <1>5 DEF Input, InputSet
<1>8. b.average \in InputSet
  <2>1. CASE known
    BY <1>5, <1>6, <2>1 DEF Input, InputSet
  <2>2. CASE ~known
    BY <1>4, <1>5, <2>2 DEF Input, InputSet
  <2> QED BY <2>1, <2>2
<1> QED BY <1>7, <1>8 DEF b

LEMMA PreparedWell ==
    ASSUME NEW labels, NEW figures, Listed(labels, figures), NEW i \in DOMAIN labels
    PROVE  WellGiven(PreparedInputs(labels, figures, i))
<1> DEFINE balances == [b \in BaseKeys |-> BalanceInputs(labels, figures, i, b)]
           keys == DOMAIN figures[i] \union {OpeningOf[b] : b \in BaseKeys}
                   \union {ClosingOf[b] : b \in BaseKeys} \union {AverageOf[b] : b \in BaseKeys}
           BaseOf(key) == CHOOSE b \in BaseKeys : key \in {OpeningOf[b], ClosingOf[b], AverageOf[b]}
           prepared == PreparedInputs(labels, figures, i)
<1>1. prepared = [key \in keys |->
            IF key \in DOMAIN figures[i] THEN Input(figures[i][key], {})
            ELSE IF key = OpeningOf[BaseOf(key)] THEN balances[BaseOf(key)].opening
            ELSE IF key = ClosingOf[BaseOf(key)] THEN balances[BaseOf(key)].closing
            ELSE balances[BaseOf(key)].average]
  BY DEF PreparedInputs
<1> HIDE DEF prepared, BaseOf
<1>2. ASSUME NEW key \in keys PROVE prepared[key] \in InputSet
  <2>1. CASE key \in DOMAIN figures[i]
    <3>1. prepared[key] = Input(figures[i][key], {}) /\ figures[i][key] \in Int \cup {Missing}
      BY <1>1, <2>1 DEF Listed, FiguresSet
    <3> QED BY <3>1 DEF Input, InputSet
  <2>2. CASE key \notin DOMAIN figures[i]
    <3>1. \E b \in BaseKeys : key \in {OpeningOf[b], ClosingOf[b], AverageOf[b]}
      BY <2>2
    <3>2. BaseOf(key) \in BaseKeys
      BY <3>1 DEF BaseOf
    <3> DEFINE b == balances[BaseOf(key)]
    <3>3. b = BalanceInputs(labels, figures, i, BaseOf(key))
      BY <3>2
    <3>4. b.opening \in InputSet /\ b.closing \in InputSet /\ b.average \in InputSet
      BY <3>2, <3>3, BalancesWell
    <3>5. prepared[key] \in {b.opening, b.closing, b.average}
      BY <1>1, <2>2
    <3> QED BY <3>4, <3>5
  <2> QED BY <2>1, <2>2
<1>3. DOMAIN prepared = keys
  BY <1>1
<1> QED BY <1>2, <1>3 DEF WellGiven, prepared

LEMMA PeriodWell ==
    ASSUME NEW labels, NEW figures, Listed(labels, figures), NEW i \in DOMAIN labels
    PROVE  /\ RatiosOfPeriod(labels, figures, i)
                = [m \in Metrics |-> RatiosOfPeriod(labels, figures, i)[m]]
           /\ \A m \in Metrics : WellComputed(RatiosOfPeriod(labels, figures, i)[m])
<1> DEFINE inputs == NormalizeInputs(PreparedInputs(labels, figures, i))
<1>1. WellGiven(inputs)
  BY PreparedWell, NormalizedWell
<1>2. RatiosOfPeriod(labels, figures, i) = [m \in Metrics |-> ComputeMetric(REGISTRY[m], inputs)]
  BY DEF RatiosOfPeriod, Compute
<1> HIDE DEF inputs
<1> QED BY <1>1, <1>2, MetricWell

-----------------------------------------------------------------------------
(* The score                                                                *)

LEMMA Products ==
    ASSUME NEW a \in Nat, NEW b \in Int, NEW c \in Int, b <= c
    PROVE  a * b <= a * c /\ b * a <= c * a
<1>1. c - b \in Nat
  OBVIOUS
<1>2. a * (c - b) \in Nat
  BY <1>1
<1>3. a * (c - b) = a * c - a * b /\ a * b = b * a /\ a * c = c * a
  OBVIOUS
<1>4. a * b \in Int /\ a * c \in Int
  OBVIOUS
<1> QED BY <1>2, <1>3, <1>4

LEMMA QuotientFits ==
    ASSUME NEW w \in Nat, NEW t \in Nat \ {0}
    PROVE  /\ w \div t \in Nat /\ t * (w \div t) <= w
           /\ w % t \in 0 .. t - 1 /\ w = t * (w \div t) + (w % t)
<1>1. w = t * (w \div t) + (w % t) /\ w % t \in 0 .. t - 1 /\ w \div t \in Int
  OBVIOUS
<1>2. w \div t \in Nat
  OBVIOUS
<1> QED BY <1>1, <1>2

LEMMA ProfilesKnown ==
    /\ DOMAIN Targets = {"generic", "retail_demo"} /\ DOMAIN Whole = DOMAIN Targets
    /\ Whole["generic"] = 240000 /\ Whole["retail_demo"] = 2100000
BY DEF Targets, Whole

LEMMA TargetsPositive ==
    ASSUME NEW profile \in DOMAIN Targets, NEW r \in Scored
    PROVE  Targets[profile][r] \in Nat \ {0}
<1>1. Scored = {"current_ratio", "quick_ratio", "absolute_liquidity_ratio", "roa", "roe", "ros",
                "ebitda_margin", "equity_ratio", "financial_leverage", "interest_coverage",
                "asset_turnover", "inventory_turnover", "receivables_turnover"}
  BY DEF Scored, WEIGHTS
<1>2. CASE profile = "generic"
  BY <1>1, <1>2 DEF Targets
<1>3. CASE profile = "retail_demo"
  BY <1>1, <1>3 DEF Targets
<1> QED BY <1>2, <1>3, ProfilesKnown

\* A ratio that can be used becomes a part of the whole of its profile.
LEMMA NormalizedBounds ==
    ASSUME NEW profile \in DOMAIN Targets, NEW r \in Scored, NEW value \in Int \cup {Missing}
    PROVE  Normalized(profile, r, value) \in (0 .. Whole[profile]) \cup {Missing}
<1> DEFINE target == Targets[profile][r]
           whole == Whole[profile]
           part == whole \div target
<1>1. target \in Nat \ {0}
  BY TargetsPositive
<1>2. whole \in Nat
  BY ProfilesKnown
<1>3. /\ Normalized(profile, r, value) =
            CASE value = Missing -> Missing
              [] value # Missing /\ Anomalous(r, value) -> Missing
              [] value # Missing /\ ~Anomalous(r, value) /\ r \in LowerIsBetter ->
                    IF value <= 0 THEN Missing
                    ELSE IF value >= 2 * target THEN 0
                    ELSE whole - value * (part \div 2)
              [] OTHER -> IF value <= 0 THEN 0
                          ELSE IF value >= target THEN whole ELSE value * part
  BY DEF Normalized
<1> HIDE DEF target, whole
<1>4. part \in Nat /\ target * part <= whole
  BY <1>1, <1>2, QuotientFits
<1>5. part \div 2 \in Nat /\ 2 * (part \div 2) <= part
  BY <1>4, QuotientFits
<1> DEFINE half == part \div 2
<1> HIDE DEF part, half
<1>6. ASSUME value \in Int, value > 0, value < target
      PROVE  value * part \in 0 .. whole
  <2>1. value * part <= target * part
    BY <1>1, <1>4, <1>6, Products
  <2>2. value * part \in Nat /\ target * part \in Int
    BY <1>1, <1>4, <1>6
  <2> QED BY <1>2, <1>4, <2>1, <2>2
<1>7. ASSUME value \in Int, value > 0, value < 2 * target
      PROVE  whole - value * half \in 0 .. whole
  <2>1. half \in Nat /\ 2 * half <= part
    BY <1>5 DEF half
  <2>2. value * half <= (2 * target) * half
    BY <1>1, <1>7, <2>1, Products
  <2>3. (2 * target) * half = target * (2 * half)
    BY <1>1, <2>1
  <2>4. target * (2 * half) <= target * part
    <3>1. 2 * half \in Int
      BY <2>1
    <3> QED BY <1>1, <1>4, <2>1, <3>1, Products
  <2>5. value * half \in Nat /\ target * (2 * half) \in Int /\ target * part \in Int
    BY <1>1, <1>4, <1>7, <2>1
  <2> QED BY <1>2, <1>4, <2>2, <2>3, <2>4, <2>5
<1>8. CASE value = Missing
  BY <1>3, <1>8
<1>9. CASE value # Missing /\ Anomalous(r, value)
  BY <1>3, <1>9
<1>10. CASE value # Missing /\ ~Anomalous(r, value) /\ r \in LowerIsBetter
  <2>1. value \in Int
    BY <1>10
  <2>2. Normalized(profile, r, value) = IF value <= 0 THEN Missing
                    ELSE IF value >= 2 * target THEN 0 ELSE whole - value * half
    BY <1>3, <1>10 DEF half
  <2>3. 0 \in 0 .. whole
    BY <1>2
  <2> QED BY <1>1, <1>7, <2>1, <2>2, <2>3 DEF whole
<1>11. CASE value # Missing /\ ~Anomalous(r, value) /\ r \notin LowerIsBetter
  <2>1. value \in Int
    BY <1>11
  <2>2. Normalized(profile, r, value) = IF value <= 0 THEN 0
                          ELSE IF value >= target THEN whole ELSE value * part
    BY <1>3, <1>11
  <2>3. 0 \in 0 .. whole /\ whole \in 0 .. whole
    BY <1>2
  <2> QED BY <1>1, <1>6, <2>1, <2>2, <2>3 DEF whole
<1> QED BY <1>8, <1>9, <1>10, <1>11

\* One step of a long division keeps the number it divides, ten times as fine.
LEMMA DigitKeeps ==
    ASSUME NEW d \in Nat \ {0}, NEW s, s.quotient \in Nat, s.rest \in 0 .. d - 1, NEW v \in Nat,
           s.quotient * d + s.rest = v
    PROVE  LET t == NextDigit(s, d)
           IN  t.quotient \in Nat /\ t.rest \in 0 .. d - 1 /\ t.quotient * d + t.rest = 10 * v
<1> DEFINE q == (10 * s.rest) \div d
           r == (10 * s.rest) % d
<1>1. 10 * s.rest \in Nat
  OBVIOUS
<1>2. q \in Nat /\ r \in 0 .. d - 1 /\ 10 * s.rest = d * q + r
  BY <1>1, QuotientFits
<1> HIDE DEF q, r
<1>3. (10 * s.quotient + q) * d = 10 * (s.quotient * d) + d * q
  BY <1>2
<1>4. NextDigit(s, d) = [quotient |-> 10 * s.quotient + q, rest |-> r]
  BY DEF NextDigit, q, r
<1>5. s.quotient * d \in Nat /\ d * q \in Nat
  BY <1>2
<1>6. 10 * s.quotient + q \in Nat
  BY <1>2
<1>7. (10 * s.quotient + q) * d + r = 10 * v
  BY <1>2, <1>3, <1>5
<1> QED BY <1>2, <1>4, <1>6, <1>7

\* The quotient of a part and its whole d, to four digits.
Fraction(t, d) ==
    /\ t.quotient \in 0 .. 10000 /\ t.rest \in 0 .. d - 1
    /\ t.quotient = 10000 => t.rest = 0

LEMMA DigitsBounds ==
    ASSUME NEW d \in Nat \ {0}, NEW w \in 0 .. d
    PROVE  Fraction(Digits(w, d), d)
<1> DEFINE a == [quotient |-> w \div d, rest |-> w % d]
           b == NextDigit(a, d)
           c == NextDigit(b, d)
           e == NextDigit(c, d)
           f == NextDigit(e, d)
<1>1. a.quotient \in Nat /\ a.rest \in 0 .. d - 1 /\ a.quotient * d + a.rest = w
  <2>1. w \div d \in Nat /\ w % d \in 0 .. d - 1 /\ w = d * (w \div d) + (w % d)
    <3>1. w \in Nat
      OBVIOUS
    <3> QED BY <3>1, QuotientFits
  <2> QED BY <2>1
<1>2. Digits(w, d) = f
  BY DEF Digits
<1> HIDE DEF a
<1>3. b.quotient \in Nat /\ b.rest \in 0 .. d - 1 /\ b.quotient * d + b.rest = 10 * w
  BY <1>1, DigitKeeps
<1> HIDE DEF b
<1>4. c.quotient \in Nat /\ c.rest \in 0 .. d - 1 /\ c.quotient * d + c.rest = 10 * (10 * w)
  <2>1. 10 * w \in Nat
    OBVIOUS
  <2> QED BY <1>3, <2>1, DigitKeeps
<1> HIDE DEF c
<1>5. e.quotient \in Nat /\ e.rest \in 0 .. d - 1 /\ e.quotient * d + e.rest = 10 * (10 * (10 * w))
  <2>1. 10 * (10 * w) \in Nat
    OBVIOUS
  <2> QED BY <1>4, <2>1, DigitKeeps
<1> HIDE DEF e
<1>6. /\ f.quotient \in Nat /\ f.rest \in 0 .. d - 1
      /\ f.quotient * d + f.rest = 10 * (10 * (10 * (10 * w)))
  <2>1. 10 * (10 * (10 * w)) \in Nat
    OBVIOUS
  <2> QED BY <1>5, <2>1, DigitKeeps
<1> DEFINE quotient == f.quotient
<1> HIDE DEF f
<1>7. f.quotient = 10000 => f.rest = 0
  BY <1>6
<1> DEFINE product == f.quotient * d
           factor  == d * f.quotient
           ten     == 10000 * d
           least   == d * 10001
<1>8. product <= ten /\ product \in Nat
  BY <1>6
<1>9. f.quotient <= 10000
  <2> SUFFICES ASSUME f.quotient >= 10001 PROVE FALSE
    BY <1>6
  <2>1. least <= factor
    BY <1>6, Products
  <2>2. factor = product
    <3>1. \A i, j \in Nat : i * j = j * i
      OBVIOUS
    <3>2. d \in Nat /\ f.quotient \in Nat
      BY <1>6
    <3> QED BY <3>1, <3>2
  <2>3. least = ten + d /\ ten \in Nat /\ d \in Nat /\ d > 0
    OBVIOUS
  <2> HIDE DEF product, least, factor, ten
  <2> QED BY <1>8, <2>1, <2>2, <2>3
<1>10. f.quotient \in 0 .. 10000
  <2>1. quotient \in Nat /\ quotient <= 10000
    BY <1>6, <1>9
  <2>2. quotient \in 0 .. 10000
    <3> HIDE DEF quotient
    <3> QED BY <2>1
  <2> QED BY <2>2
<1> QED BY <1>2, <1>6, <1>7, <1>10 DEF Fraction

LEMMA WeightsKnown ==
    /\ Scored = {"current_ratio", "quick_ratio", "absolute_liquidity_ratio", "roa", "roe", "ros",
                 "ebitda_margin", "equity_ratio", "financial_leverage", "interest_coverage",
                 "asset_turnover", "inventory_turnover", "receivables_turnover"}
    /\ \A r \in Scored : WEIGHTS[r] \in Nat
    /\ SumOf(WEIGHTS) = 100
<1>1. Scored = {"current_ratio", "quick_ratio", "absolute_liquidity_ratio", "roa", "roe", "ros",
                "ebitda_margin", "equity_ratio", "financial_leverage", "interest_coverage",
                "asset_turnover", "inventory_turnover", "receivables_turnover"}
  BY DEF Scored, WEIGHTS
<1>2. ASSUME NEW r \in Scored PROVE WEIGHTS[r] \in Nat
  BY <1>1 DEF WEIGHTS
<1>3. SumOf(WEIGHTS) = 100
  BY DEF SumOf, WEIGHTS
<1> QED BY <1>1, <1>2, <1>3

\* A summand within the whole of its weight.
Within(f, g, whole) == /\ f \in Int /\ g \in Nat /\ 0 <= f /\ f <= g * whole

LEMMA WithinAdds ==
    ASSUME NEW f, NEW g, NEW h, NEW k, NEW whole \in Nat, Within(f, g, whole), Within(h, k, whole)
    PROVE  Within(f + h, g + k, whole)
<1>1. f \in Int /\ g \in Nat /\ h \in Int /\ k \in Nat
  BY DEF Within
<1>2. (g + k) * whole = g * whole + k * whole
  BY <1>1
<1>3. g * whole \in Nat /\ k * whole \in Nat
  BY <1>1
<1> QED BY <1>1, <1>2, <1>3 DEF Within

\* A sum is within the whole of its weights when every summand is.
LEMMA SumBounds ==
    ASSUME NEW f, NEW g, NEW whole \in Nat, \A r \in Scored : Within(f[r], g[r], whole)
    PROVE  Within(SumOf(f), SumOf(g), whole)
<1> DEFINE two(h) == h["current_ratio"] + h["quick_ratio"]
           three(h) == two(h) + h["absolute_liquidity_ratio"]
           four(h) == three(h) + h["roa"]
           five(h) == four(h) + h["roe"]
           six(h) == five(h) + h["ros"]
           seven(h) == six(h) + h["ebitda_margin"]
           eight(h) == seven(h) + h["equity_ratio"]
           nine(h) == eight(h) + h["financial_leverage"]
           ten(h) == nine(h) + h["interest_coverage"]
           eleven(h) == ten(h) + h["asset_turnover"]
           twelve(h) == eleven(h) + h["inventory_turnover"]
           thirteen(h) == twelve(h) + h["receivables_turnover"]
<1>1. SumOf(f) = thirteen(f) /\ SumOf(g) = thirteen(g)
  BY DEF SumOf
<1>2. Within(two(f), two(g), whole)
  BY WithinAdds, WeightsKnown
<1> HIDE DEF two
<1>3. Within(three(f), three(g), whole)
  BY <1>2, WithinAdds, WeightsKnown
<1> HIDE DEF three
<1>4. Within(four(f), four(g), whole)
  BY <1>3, WithinAdds, WeightsKnown
<1> HIDE DEF four
<1>5. Within(five(f), five(g), whole)
  BY <1>4, WithinAdds, WeightsKnown
<1> HIDE DEF five
<1>6. Within(six(f), six(g), whole)
  BY <1>5, WithinAdds, WeightsKnown
<1> HIDE DEF six
<1>7. Within(seven(f), seven(g), whole)
  BY <1>6, WithinAdds, WeightsKnown
<1> HIDE DEF seven
<1>8. Within(eight(f), eight(g), whole)
  BY <1>7, WithinAdds, WeightsKnown
<1> HIDE DEF eight
<1>9. Within(nine(f), nine(g), whole)
  BY <1>8, WithinAdds, WeightsKnown
<1> HIDE DEF nine
<1>10. Within(ten(f), ten(g), whole)
  BY <1>9, WithinAdds, WeightsKnown
<1> HIDE DEF ten
<1>11. Within(eleven(f), eleven(g), whole)
  BY <1>10, WithinAdds, WeightsKnown
<1> HIDE DEF eleven
<1>12. Within(twelve(f), twelve(g), whole)
  BY <1>11, WithinAdds, WeightsKnown
<1> HIDE DEF twelve
<1>13. Within(thirteen(f), thirteen(g), whole)
  BY <1>12, WithinAdds, WeightsKnown
<1> HIDE DEF thirteen
<1> QED BY <1>1, <1>13

\* A score before the guardrails: its level is that of the score before it was
\* rounded, which is no more than the score that is shown.
ScoreWell(s) ==
    /\ s.score \in 0 .. 10000
    /\ s.confidence \in 0 .. 100
    /\ \E q \in Int : q <= s.score /\ s.risk = RiskLevel(q)

LEMMA IntegralWell ==
    ASSUME NEW profile \in DOMAIN Targets, NEW ratios,
           \A r \in Scored : ratios[r] \in Int \cup {Missing}
    PROVE  ScoreWell(IntegralScore(ratios, profile))
<1> DEFINE norm == [r \in Scored |-> Normalized(profile, r, ratios[r])]
           g == [r \in Scored |-> IF norm[r] # Missing THEN WEIGHTS[r] ELSE 0]
           products == [r \in Scored |-> norm[r] * WEIGHTS[r]]
           f == [r \in Scored |-> IF norm[r] # Missing THEN products[r] ELSE 0]
           weight == SumOf(g)
           whole == weight * Whole[profile]
           total == Digits(SumOf(f), whole)
<1>1. IntegralScore(ratios, profile) =
        IF weight = 0 THEN [score |-> 0, risk |-> RiskLevel(0), confidence |-> 0]
        ELSE [score |-> IF 2 * total.rest >= whole THEN total.quotient + 1 ELSE total.quotient,
              risk |-> RiskLevel(total.quotient),
              confidence |-> weight]
  BY DEF IntegralScore
<1>2. Whole[profile] \in Nat \ {0}
  BY ProfilesKnown
<1>3. ASSUME NEW r \in Scored PROVE norm[r] \in (0 .. Whole[profile]) \cup {Missing}
  BY <1>3, NormalizedBounds
<1>4. ASSUME NEW r \in Scored PROVE Within(g[r], WEIGHTS[r], 1)
  BY WeightsKnown DEF Within
<1>5. ASSUME NEW r \in Scored PROVE Within(f[r], g[r], Whole[profile])
  <2>1. CASE norm[r] = Missing
    <3>1. f[r] = 0 /\ g[r] = 0
      BY <2>1
    <3> QED BY <1>2, <3>1 DEF Within
  <2>2. CASE norm[r] # Missing
    <3>1. f[r] = norm[r] * WEIGHTS[r] /\ g[r] = WEIGHTS[r]
      BY <2>2
    <3>2. norm[r] \in Nat /\ norm[r] <= Whole[profile] /\ WEIGHTS[r] \in Nat
      BY <1>2, <1>3, <2>2, WeightsKnown
    <3>3. WEIGHTS[r] * norm[r] <= WEIGHTS[r] * Whole[profile]
      BY <1>2, <3>2, Products
    <3>4. norm[r] * WEIGHTS[r] \in Nat /\ norm[r] * WEIGHTS[r] = WEIGHTS[r] * norm[r]
      BY <3>2
    <3> QED BY <3>1, <3>2, <3>3, <3>4 DEF Within
  <2> QED BY <2>1, <2>2
<1> HIDE DEF g, f
<1>7. weight \in 0 .. 100
  <2>1. 1 \in Nat /\ Within(weight, SumOf(WEIGHTS), 1)
    BY <1>4, SumBounds
  <2> QED BY <2>1, WeightsKnown DEF Within
<1>8. SumOf(f) \in 0 .. whole
  <2>1. Whole[profile] \in Nat
    BY <1>2
  <2>2. Within(SumOf(f), weight, Whole[profile])
    BY <1>5, <2>1, SumBounds
  <2>3. weight * Whole[profile] \in Nat
    BY <2>1, <1>7
  <2> QED BY <2>2, <2>3 DEF Within
<1>9. CASE weight = 0
  <2>1. IntegralScore(ratios, profile) = [score |-> 0, risk |-> RiskLevel(0), confidence |-> 0]
    BY <1>1, <1>9
  <2>2. 0 \in Int /\ 0 <= 0 /\ 0 \in 0 .. 10000 /\ 0 \in 0 .. 100
    OBVIOUS
  <2> QED BY <2>1, <2>2 DEF ScoreWell
<1>10. CASE weight # 0
  <2>1. weight \in Nat \ {0}
    BY <1>7, <1>10
  <2>2. whole \in Nat \ {0}
    <3> HIDE DEF weight
    <3> QED BY <1>2, <2>1
  <2>3. Fraction(total, whole)
    <3> DEFINE sum == SumOf(f)
    <3>1. sum \in 0 .. whole /\ total = Digits(sum, whole)
      BY <1>8
    <3> HIDE DEF whole, sum, total
    <3> QED BY <2>2, <3>1, DigitsBounds, Zenon
  <2> DEFINE q == total.quotient
             score == IF 2 * total.rest >= whole THEN q + 1 ELSE q
  <2>4. IntegralScore(ratios, profile) =
            [score |-> score, risk |-> RiskLevel(q), confidence |-> weight]
    BY <1>1, <1>10
  <2>5. score \in 0 .. 10000 /\ q <= score /\ q \in Int
    <3> DEFINE rest == total.rest
    <3>1. q \in 0 .. 10000 /\ rest \in 0 .. whole - 1 /\ (q = 10000 => rest = 0)
      <4> DEFINE t == total
                 w == whole
      <4>1. Fraction(t, w)
        BY <2>3
      <4>2. q = t.quotient /\ rest = t.rest
        OBVIOUS
      <4> HIDE DEF q, rest, t, w
      <4>3. q \in 0 .. 10000 /\ rest \in 0 .. w - 1 /\ (q = 10000 => rest = 0)
        BY <4>1, <4>2 DEF Fraction
      <4> QED BY <4>3 DEF w
    <3>2. score = IF 2 * rest >= whole THEN q + 1 ELSE q
      OBVIOUS
    <3> HIDE DEF q, rest, whole, total, score
    <3> QED BY <2>2, <3>1, <3>2
  <2> HIDE DEF q, score, weight
  <2> QED BY <1>7, <2>4, <2>5 DEF ScoreWell
<1> QED BY <1>9, <1>10

-----------------------------------------------------------------------------
(* The guardrails                                                           *)

Levels == {"low", "medium", "high", "critical"}

LEMMA LevelsKnown ==
    ASSUME NEW q \in Int
    PROVE  RiskLevel(q) = IF q >= 7500 THEN "low" ELSE IF q >= 5500 THEN "medium"
                          ELSE IF q >= 3500 THEN "high" ELSE "critical"
BY DEF RiskLevel

\* More points never make a worse level.
LEMMA MorePointsLessRisk ==
    ASSUME NEW q \in Int, NEW s \in Int, q <= s
    PROVE  /\ RiskLevel(q) \in Levels
           /\ Severity[RiskLevel(q)] >= Severity[RiskLevel(s)]
BY LevelsKnown DEF Levels, Severity

\* Whatever the guardrails let stand is earned by the figures.
LEMMA GuardedIsEarned ==
    ASSUME NEW raw, ScoreWell(raw), NEW figures
    PROVE  LET s == Guarded(raw, figures)
           IN  /\ s.score \in 0 .. 10000 /\ s.confidence \in 0 .. 100 /\ s.risk \in Levels
               /\ Earned(s, figures)
<1> DEFINE cap == Cap(figures, raw.confidence)
           s == Guarded(raw, figures)
           keys == CoreKeys \union SupportingKeys
<1>1. PICK q \in Int : q <= raw.score /\ raw.risk = RiskLevel(q)
  BY DEF ScoreWell
<1>2. raw.score \in 0 .. 10000 /\ raw.confidence \in 0 .. 100
  BY DEF ScoreWell
<1>3. /\ cap.score \in Int /\ cap.score \in {3999, 5499, 5999, 10000}
      /\ MissingOf(figures, keys) # {} => cap.score \in {3999, 5499}
      /\ raw.confidence < 40 => cap.score # 10000
  BY DEF Cap, MissingOf
<1> HIDE DEF cap
<1>4. /\ s.confidence = raw.confidence
      /\ raw.score > cap.score => s.score = cap.score /\ s.risk = RiskLevel(cap.score)
      /\ ~(raw.score > cap.score) => s.score = raw.score /\ s.risk = raw.risk
  BY DEF Guarded, cap
<1> HIDE DEF s, keys
<1>5. PICK p \in Int : p <= s.score /\ s.risk = RiskLevel(p)
  BY <1>1, <1>2, <1>3, <1>4
<1> DEFINE x == raw.score
           y == s.score
           c == cap.score
<1>6. y \in Int /\ 0 <= y /\ y <= 10000 /\ y <= c
  <2>1. c \in Int /\ (x > c => y = c) /\ (~(x > c) => y = x)
    BY <1>3, <1>4
  <2>2. x \in 0 .. 10000
    BY <1>2
  <2>3. 0 <= c
    BY <1>3
  <2> HIDE DEF x, y, c
  <2> QED BY <2>1, <2>2, <2>3
<1>7. s.risk \in Levels /\ Severity[s.risk] >= Severity[RiskLevel(s.score)]
  <2>1. y \in Int /\ p <= y /\ s.risk = RiskLevel(p)
    BY <1>5, <1>6
  <2> HIDE DEF y
  <2>2. RiskLevel(p) \in Levels /\ Severity[RiskLevel(p)] >= Severity[RiskLevel(y)]
    BY <2>1, MorePointsLessRisk
  <2> QED BY <2>1, <2>2 DEF y
<1>8. /\ s.risk \in {"low", "medium"} => p >= 5500
      /\ s.risk = "low" => p >= 7500
  <2> DEFINE risk == s.risk
  <2>1. risk = RiskLevel(p)
    BY <1>5
  <2>2. risk = IF p >= 7500 THEN "low" ELSE IF p >= 5500 THEN "medium"
               ELSE IF p >= 3500 THEN "high" ELSE "critical"
    BY <2>1, LevelsKnown
  <2> HIDE DEF risk
  <2>3. (risk \in {"low", "medium"} => p >= 5500) /\ (risk = "low" => p >= 7500)
    BY <2>2
  <2> QED BY <2>3 DEF risk
<1>9. p <= y
  BY <1>5
<1>10. s.risk \in {"low", "medium"} => MissingOf(figures, keys) = {}
  <2>1. MissingOf(figures, keys) # {} => c \in {3999, 5499}
    BY <1>3
  <2> HIDE DEF y, c
  <2> QED BY <1>6, <1>8, <1>9, <2>1
<1>11. s.risk = "low" => s.confidence >= 40
  <2> DEFINE confidence == raw.confidence
  <2>1. confidence < 40 => c \in {3999, 5499, 5999}
    BY <1>3
  <2>2. confidence \in Int
    BY <1>2
  <2> HIDE DEF y, c, confidence
  <2>3. s.risk = "low" => confidence >= 40
    BY <1>6, <1>8, <1>9, <2>1, <2>2
  <2> QED BY <1>4, <2>3 DEF confidence
<1>12. s.score \in 0 .. 10000
  <2> HIDE DEF y
  <2>1. y \in 0 .. 10000
    BY <1>6
  <2> QED BY <2>1 DEF y
<1>13. Earned(s, figures)
  BY <1>7, <1>10, <1>11 DEF Earned, keys
<1>14. s.confidence \in 0 .. 100
  BY <1>2, <1>4
<1>15. s.risk \in Levels
  BY <1>7
<1> QED BY <1>12, <1>13, <1>14, <1>15 DEF s

\* A score as it is stored.
StoredWell(s, figures) ==
    /\ s.score \in 0 .. 10000
    /\ s.confidence \in 0 .. 100
    /\ s.risk \in Levels
    /\ s.profile \in DOMAIN Targets
    /\ s.basis \in DOMAIN Factor
    /\ Earned(s, figures)

LEMMA ScoreFromEarned ==
    ASSUME NEW figures, NEW ratios \in [Metrics -> Int \cup {Missing}], NEW method, NEW doc,
           method.profile \in DOMAIN Targets, method.basis \in DOMAIN Factor
    PROVE  StoredWell(ScoreFrom(figures, ratios, method, doc), figures)
<1> DEFINE adjusted == Adjusted(ratios, method, figures, doc)
           raw == IntegralScore(adjusted.ratios, method.profile)
           guarded == Guarded(raw, figures)
           s == ScoreFrom(figures, ratios, method, doc)
<1>1. ASSUME NEW r \in Scored PROVE adjusted.ratios[r] \in Int \cup {Missing}
  <2> DEFINE leverage == adjusted.ratios["financial_leverage"]
  <2>1. /\ Scored \subseteq Metrics
        /\ {"financial_leverage", "financial_leverage_total", "financial_leverage_debt_only"}
             \subseteq Metrics
    BY WeightsKnown DEF Metrics, REGISTRY
  <2>2. PICK other \in {"financial_leverage_total", "financial_leverage_debt_only"} :
            adjusted.ratios = [ratios EXCEPT !["financial_leverage"] = ratios[other]]
    BY DEF Adjusted
  <2>3. other \in Metrics /\ r \in Metrics
    BY <2>1
  <2> HIDE DEF adjusted
  <2>4. adjusted.ratios[r] = ratios[r] \/ adjusted.ratios[r] = ratios[other]
    BY <2>2, <2>3
  <2> QED BY <2>3, <2>4
<1>2. ScoreWell(raw)
  <2> HIDE DEF adjusted
  <2> QED BY <1>1, IntegralWell
<1> HIDE DEF raw
<1>3. /\ guarded.score \in 0 .. 10000 /\ guarded.confidence \in 0 .. 100
      /\ guarded.risk \in Levels /\ Earned(guarded, figures)
  BY <1>2, GuardedIsEarned
<1>4. /\ s.score = guarded.score /\ s.risk = guarded.risk /\ s.confidence = guarded.confidence
      /\ s.profile = method.profile /\ s.basis = method.basis
  BY DEF ScoreFrom, raw
<1> HIDE DEF guarded, s
<1>5. Earned(s, figures)
  BY <1>3, <1>4 DEF Earned
<1> QED BY <1>3, <1>4, <1>5 DEF StoredWell, s

\* A longer period has other figures, the same ones missing.
LEMMA AnnualizeKeeps ==
    ASSUME NEW figures \in FiguresSet, NEW basis \in DOMAIN Factor
    PROVE  /\ Annualize(figures, basis) \in FiguresSet
           /\ \A keys \in SUBSET FigureKeys :
                MissingOf(Annualize(figures, basis), keys) = MissingOf(figures, keys)
<1> DEFINE longer == Annualize(figures, basis)
<1>1. Factor[basis] \in Nat
  BY DEF Factor
<1>2. longer = [key \in FigureKeys |->
                  IF key \in AnnualizedKeys /\ figures[key] # Missing
                  THEN Factor[basis] * figures[key] ELSE figures[key]]
  BY DEF Annualize, FiguresSet
<1> HIDE DEF longer
<1>3. ASSUME NEW key \in FigureKeys
      PROVE  /\ longer[key] \in Int \cup {Missing}
             /\ longer[key] = Missing <=> figures[key] = Missing
  <2>1. figures[key] \in Int \cup {Missing}
    BY DEF FiguresSet
  <2>2. CASE figures[key] = Missing
    BY <1>2, <2>2
  <2>3. CASE figures[key] # Missing
    <3>1. figures[key] \in Int /\ Factor[basis] * figures[key] \in Int
      BY <1>1, <2>1, <2>3
    <3>2. longer[key] \in {figures[key], Factor[basis] * figures[key]}
      BY <1>2
    <3>3. longer[key] \in Int
      BY <3>1, <3>2
    <3> QED BY <2>3, <3>3, MissingIsNoFigure
  <2> QED BY <2>2, <2>3
<1>4. longer \in FiguresSet
  BY <1>2, <1>3 DEF FiguresSet
<1>5. ASSUME NEW keys \in SUBSET FigureKeys PROVE MissingOf(longer, keys) = MissingOf(figures, keys)
  BY <1>3, <1>5 DEF MissingOf
<1> QED BY <1>4, <1>5 DEF longer

LEMMA EarnedByTheOriginal ==
    ASSUME NEW figures \in FiguresSet, NEW basis \in DOMAIN Factor, NEW s,
           StoredWell(s, Annualize(figures, basis))
    PROVE  StoredWell(s, figures)
<1>1. CoreKeys \union SupportingKeys \in SUBSET FigureKeys
  BY DEF CoreKeys, SupportingKeys, FigureKeys
<1> DEFINE keys == CoreKeys \union SupportingKeys
<1>2. MissingOf(Annualize(figures, basis), keys) = MissingOf(figures, keys)
  <2> HIDE DEF keys
  <2> QED BY <1>1, AnnualizeKeeps DEF keys
<1> QED BY <1>2 DEF StoredWell, Earned

LEMMA ValuesWell ==
    ASSUME NEW derived, derived = [m \in Metrics |-> derived[m]],
           \A m \in Metrics : WellComputed(derived[m])
    PROVE  Values(derived) \in [Metrics -> Int \cup {Missing}]
<1>1. DOMAIN derived = Metrics
  OBVIOUS
<1>2. \A m \in Metrics : derived[m].value \in Int \cup {Missing}
  BY DEF WellComputed
<1> QED BY <1>1, <1>2 DEF Values

\* Nothing but a known profile is chosen, and nothing but a known basis.
LEMMA MethodologyKnown ==
    ASSUME NEW doc, NEW setting \in DOMAIN Targets
    PROVE  /\ Methodology(doc, setting).profile \in DOMAIN Targets
           /\ Methodology(doc, setting).basis \in DOMAIN Factor
<1>1. \A ratios : BenchmarkProfile(doc, ratios, setting) \in DOMAIN Targets
  BY ProfilesKnown DEF BenchmarkProfile
<1>2. PeriodBasis(doc) \in DOMAIN Factor
  BY DEF PeriodBasis, Factor
<1> QED BY <1>1, <1>2 DEF Methodology

LEMMA DocumentEarned ==
    ASSUME NEW doc, doc.figures \in FiguresSet, NEW setting \in DOMAIN Targets
    PROVE  StoredWell(ScoreOfDocument(doc, setting), doc.figures)
<1> DEFINE method == Methodology(doc, setting)
           figures == Annualize(doc.figures, method.basis)
           ratios == Values(RatiosOfDocument(figures))
<1>1. method.profile \in DOMAIN Targets /\ method.basis \in DOMAIN Factor
  BY MethodologyKnown
<1> HIDE DEF method
<1>2. figures \in FiguresSet
  BY <1>1, AnnualizeKeeps
<1>3. ratios \in [Metrics -> Int \cup {Missing}]
  <2> HIDE DEF figures
  <2> QED BY <1>2, DocumentWell, ValuesWell
<1>4. ScoreOfDocument(doc, setting) = ScoreFrom(figures, ratios, method, doc)
  BY DEF ScoreOfDocument, method
<1>5. StoredWell(ScoreFrom(figures, ratios, method, doc), figures)
  <2> HIDE DEF figures, ratios
  <2> QED BY <1>1, <1>3, ScoreFromEarned
<1> QED BY <1>1, <1>4, <1>5, EarnedByTheOriginal

-----------------------------------------------------------------------------
(* The periods of a session                                                 *)

ReadPeriods == [label : Labels, doc : Documents]

\* A stored period: an error, or the ratios and the score of its document.
ResultWell(r) ==
    r.read => /\ r.doc \in Documents
              /\ \A m \in Metrics : MayBeEmitted(r.derived[m])
              /\ StoredWell(r.score, r.doc.figures)

LEMMA FiguresKnown ==
    ASSUME NEW doc \in Documents
    PROVE  doc.figures \in FiguresSet
BY PeriodScoresAssumption DEF FiguresSet

LEMMA ScoresWell ==
    ASSUME NEW ps \in Seq(ReadPeriods), NEW i \in DOMAIN ps
    PROVE  ResultWell(Scores(ps)[i])
<1> DEFINE labels == [j \in DOMAIN ps |-> ps[j].label]
           figures == [j \in DOMAIN ps |-> BasisFigures(ps[j])]
           derived == RatiosOfPeriod(labels, figures, i)
           method == PeriodMethodology(ps[i])
           s == Score(ps[i], derived)
<1>1. ASSUME NEW j \in DOMAIN ps
      PROVE  /\ ps[j].doc \in Documents /\ ps[j].doc.figures \in FiguresSet
             /\ PeriodMethodology(ps[j]).profile \in DOMAIN Targets
             /\ PeriodMethodology(ps[j]).basis \in DOMAIN Factor
             /\ BasisFigures(ps[j]) \in FiguresSet
  <2>1. ps[j] \in ReadPeriods
    BY ElementOfSeq
  <2>2. ps[j].doc \in Documents
    BY <2>1 DEF ReadPeriods
  <2>3. "generic" \in DOMAIN Targets
    BY ProfilesKnown
  <2>4. /\ PeriodMethodology(ps[j]).profile \in DOMAIN Targets
        /\ PeriodMethodology(ps[j]).basis \in DOMAIN Factor
    BY <2>3, MethodologyKnown DEF PeriodMethodology
  <2>5. ps[j].doc.figures \in FiguresSet
    BY <2>2, FiguresKnown
  <2> QED BY <2>2, <2>4, <2>5, AnnualizeKeeps DEF BasisFigures
<1>2. Listed(labels, figures) /\ i \in DOMAIN labels
  BY <1>1 DEF Listed
<1>3. /\ derived = [m \in Metrics |-> derived[m]]
      /\ \A m \in Metrics : WellComputed(derived[m])
  <2> HIDE DEF labels, figures
  <2> QED BY <1>2, PeriodWell
<1>4. Compared(ps)[i] = derived
  BY DEF Compared
<1> HIDE DEF derived, labels, figures
<1>5. Values(derived) \in [Metrics -> Int \cup {Missing}]
  BY <1>3, ValuesWell
<1>6. s = ScoreFrom(BasisFigures(ps[i]), Values(derived), method, ps[i].doc)
  BY DEF Score
<1>7. method.profile \in DOMAIN Targets /\ method.basis \in DOMAIN Factor
  BY <1>1
<1>8. BasisFigures(ps[i]) = Annualize(ps[i].doc.figures, method.basis)
  BY DEF BasisFigures
<1> HIDE DEF method, s
<1>9. StoredWell(s, Annualize(ps[i].doc.figures, method.basis))
  BY <1>5, <1>6, <1>7, <1>8, ScoreFromEarned
<1>10. StoredWell(s, ps[i].doc.figures)
  BY <1>1, <1>7, <1>9, EarnedByTheOriginal
<1>11. /\ Scores(ps)[i].derived = derived /\ Scores(ps)[i].doc = ps[i].doc
       /\ Scores(ps)[i].score = s
  BY <1>4 DEF Scores, s
<1> QED BY <1>1, <1>3, <1>10, <1>11 DEF ResultWell, WellComputed

LEMMA KeysAreNumbers ==
    ASSUME NEW l \in Labels
    PROVE  SortKey(l) \in Int
<1>1. CASE l = Unreadable
  BY <1>1 DEF SortKey
<1>2. CASE l # Unreadable
  <2>1. l.class \in PeriodClasses /\ l.year \in Nat
    BY <1>2, PeriodScoresAssumption
  <2>2. ClassOrder[l.class] \in Nat
    BY <2>1 DEF ClassOrder, PeriodClasses
  <2> QED BY <1>2, <2>1, <2>2 DEF SortKey
<1> QED BY <1>1, <1>2

\* The periods of a result before they are sorted.
Gathered(ps, ls) == Errors(ls) \o Scores(ps)

LEMMA GatheredShape ==
    ASSUME NEW ps \in Seq(ReadPeriods), NEW ls \in Seq(Labels)
    PROVE  /\ Len(ps) \in Nat /\ Len(ls) \in Nat /\ Len(Gathered(ps, ls)) = Len(ls) + Len(ps)
           /\ DOMAIN Gathered(ps, ls) = 1 .. Len(ls) + Len(ps)
           /\ \A i \in 1 .. Len(ls) :
                Gathered(ps, ls)[i] = [label |-> ls[i], read |-> FALSE]
           /\ \A i \in Len(ls) + 1 .. Len(ls) + Len(ps) :
                /\ i - Len(ls) \in DOMAIN ps
                /\ Gathered(ps, ls)[i] = Scores(ps)[i - Len(ls)]
<1> DEFINE S == {Errors(ls)[i] : i \in DOMAIN ls} \cup {Scores(ps)[i] : i \in DOMAIN ps}
<1>1. /\ Len(ps) \in Nat /\ DOMAIN ps = 1 .. Len(ps)
      /\ Len(ls) \in Nat /\ DOMAIN ls = 1 .. Len(ls)
  BY LenProperties
<1>2. DOMAIN Errors(ls) = DOMAIN ls /\ DOMAIN Scores(ps) = DOMAIN ps
  BY DEF Errors, Scores
<1>3. Errors(ls) \in Seq(S) /\ Len(Errors(ls)) = Len(ls)
  <2>1. Errors(ls) = [i \in 1 .. Len(ls) |-> Errors(ls)[i]]
    BY <1>1 DEF Errors
  <2>2. \A i \in 1 .. Len(ls) : Errors(ls)[i] \in S
    BY <1>1
  <2> HIDE DEF S
  <2>3. Errors(ls) \in [1 .. Len(ls) -> S]
    BY <2>1, <2>2
  <2>4. Errors(ls) \in Seq(S)
    BY <1>1, <2>3
  <2> QED BY <1>1, <1>2, <2>4, LenProperties
<1>4. Scores(ps) \in Seq(S) /\ Len(Scores(ps)) = Len(ps)
  <2>1. Scores(ps) = [i \in 1 .. Len(ps) |-> Scores(ps)[i]]
    BY <1>1 DEF Scores
  <2>2. \A i \in 1 .. Len(ps) : Scores(ps)[i] \in S
    BY <1>1
  <2> HIDE DEF S
  <2>3. Scores(ps) \in [1 .. Len(ps) -> S]
    BY <2>1, <2>2
  <2>4. Scores(ps) \in Seq(S)
    BY <1>1, <2>3
  <2> QED BY <1>1, <1>2, <2>4, LenProperties
<1>5. \A i \in DOMAIN ls : Errors(ls)[i] = [label |-> ls[i], read |-> FALSE]
  BY DEF Errors
<1> HIDE DEF S
<1>6. /\ Gathered(ps, ls) \in Seq(S) /\ Len(Gathered(ps, ls)) = Len(ls) + Len(ps)
      /\ \A i \in 1 .. Len(ls) + Len(ps) :
            Gathered(ps, ls)[i] = IF i <= Len(ls) THEN Errors(ls)[i] ELSE Scores(ps)[i - Len(ls)]
  BY <1>3, <1>4, ConcatProperties DEF Gathered
<1>7. DOMAIN Gathered(ps, ls) = 1 .. Len(ls) + Len(ps)
  BY <1>6, LenProperties
<1>8. ASSUME NEW i \in 1 .. Len(ls) PROVE Gathered(ps, ls)[i] = [label |-> ls[i], read |-> FALSE]
  <2>1. i \in 1 .. Len(ls) + Len(ps) /\ i <= Len(ls) /\ i \in DOMAIN ls
    BY <1>1
  <2> QED BY <1>5, <1>6, <2>1
<1>9. ASSUME NEW i \in Len(ls) + 1 .. Len(ls) + Len(ps)
      PROVE  i - Len(ls) \in DOMAIN ps /\ Gathered(ps, ls)[i] = Scores(ps)[i - Len(ls)]
  <2>1. i \in 1 .. Len(ls) + Len(ps) /\ ~(i <= Len(ls)) /\ i - Len(ls) \in 1 .. Len(ps)
    BY <1>1
  <2> QED BY <1>1, <1>6, <2>1
<1> QED BY <1>1, <1>6, <1>7, <1>8, <1>9

LEMMA ScoresKeep ==
    ASSUME NEW ps, NEW i \in DOMAIN ps
    PROVE  /\ Scores(ps)[i].label = ps[i].label /\ Scores(ps)[i].doc = ps[i].doc
           /\ Scores(ps)[i].read = TRUE
BY DEF Scores

\* What is stored is what was gathered, in some order.
LEMMA AssembledPermutes ==
    ASSUME NEW ps \in Seq(ReadPeriods), NEW ls \in Seq(Labels)
    PROVE  LET n == Len(ls) + Len(ps)
           IN  /\ n \in Nat
               /\ Permuted(Assembled(ps, ls), Gathered(ps, ls), n)
<1> DEFINE rs == Gathered(ps, ls)
           n == Len(ls) + Len(ps)
<1>1. /\ Len(ps) \in Nat /\ Len(ls) \in Nat /\ Len(rs) = n /\ DOMAIN rs = 1 .. n
  BY GatheredShape
<1>2. ASSUME NEW i \in 1 .. n PROVE rs[i].label \in Labels
  <2>1. CASE i \in 1 .. Len(ls)
    <3>1. rs[i] = [label |-> ls[i], read |-> FALSE]
      BY <2>1, GatheredShape
    <3>2. ls[i] \in Labels
      BY <2>1, ElementOfSeq
    <3> QED BY <3>1, <3>2
  <2>2. CASE i \in Len(ls) + 1 .. n
    <3>1. i - Len(ls) \in DOMAIN ps /\ rs[i] = Scores(ps)[i - Len(ls)]
      BY <2>2, GatheredShape
    <3> DEFINE j == i - Len(ls)
    <3> HIDE DEF rs
    <3>2. rs[i].label = ps[i - Len(ls)].label
      <4>1. j \in DOMAIN ps /\ rs[i] = Scores(ps)[j]
        BY <3>1
      <4> HIDE DEF j
      <4>2. rs[i].label = ps[j].label
        BY <4>1 DEF Scores
      <4> QED BY <4>2 DEF j
    <3>3. i - Len(ls) \in 1 .. Len(ps)
      BY <3>1, LenProperties
    <3>4. ps[i - Len(ls)] \in ReadPeriods
      BY <3>3, ElementOfSeq
    <3> QED BY <3>2, <3>4 DEF ReadPeriods
  <2> QED BY <1>1, <2>1, <2>2
<1>3. \A i \in 1 .. n : SortKey(rs[i].label) \in Int
  BY <1>2, KeysAreNumbers
<1>4. Assembled(ps, ls) = Sorted(rs)
  BY DEF Assembled, Gathered
<1>5. n \in Nat
  BY <1>1
<1> HIDE DEF rs, n
<1>6. Permuted(Sorted(rs), rs, n)
  <2>1. Keyed(rs, n)
    BY <1>1, <1>3 DEF Keyed, n
  <2> QED BY <1>5, <2>1, SortedPermutes
<1> QED BY <1>4, <1>5, <1>6 DEF rs, n

LEMMA AssembledWell ==
    ASSUME NEW ps \in Seq(ReadPeriods), NEW ls \in Seq(Labels)
    PROVE  \A k \in DOMAIN Assembled(ps, ls) : ResultWell(Assembled(ps, ls)[k])
<1> DEFINE rs == Gathered(ps, ls)
           n == Len(ls) + Len(ps)
<1>1. PICK p \in Bijection(1 .. n, 1 .. n) : Assembled(ps, ls) = [k \in 1 .. n |-> rs[p[k]]]
  BY AssembledPermutes DEF Permuted
<1>2. n \in Nat /\ Len(ls) \in Nat
  BY AssembledPermutes, LenProperties
<1> SUFFICES ASSUME NEW k \in 1 .. n PROVE ResultWell(rs[p[k]])
  BY <1>1
<1>3. p[k] \in 1 .. n
  <2> HIDE DEF n
  <2>1. p \in [1 .. n -> 1 .. n]
    BY DEF Bijection, Injection
  <2> QED BY <2>1
<1>4. CASE p[k] \in 1 .. Len(ls)
  <2>1. rs[p[k]] = [label |-> ls[p[k]], read |-> FALSE]
    BY <1>4, GatheredShape
  <2> QED BY <2>1 DEF ResultWell
<1>5. CASE p[k] \in Len(ls) + 1 .. n
  <2>1. p[k] - Len(ls) \in DOMAIN ps /\ rs[p[k]] = Scores(ps)[p[k] - Len(ls)]
    BY <1>5, GatheredShape
  <2> HIDE DEF rs
  <2> QED BY <2>1, ScoresWell
<1> QED BY <1>2, <1>3, <1>4, <1>5

-----------------------------------------------------------------------------
(* The session                                                              *)

SessionTypes ==
    /\ periods \in Seq(Labels) /\ next \in 1 .. Len(periods) + 1
    /\ extracted \in Seq(ReadPeriods) /\ failed \in Seq(Labels)

\* A result is made once, from everything that was read and everything that failed.
ResultsFollow == results = <<>> \/ results = Assembled(extracted, failed)

SessionInv == SessionTypes /\ ResultsFollow

LEMMA InitSession == Init => SessionInv
<1> SUFFICES ASSUME Init PROVE SessionInv
  OBVIOUS
<1>1. PICK n \in 1 .. MaxPeriods : periods \in [1 .. n -> Labels]
  BY DEF Init
<1>2. n \in Nat
  BY <1>1, PeriodScoresAssumption
<1>3. periods \in Seq(Labels)
  BY <1>1, <1>2
<1>4. Len(periods) \in Nat
  BY <1>3, LenProperties
<1>5. next \in 1 .. Len(periods) + 1
  BY <1>4 DEF Init
<1>6. <<>> \in Seq(ReadPeriods) /\ <<>> \in Seq(Labels)
  BY EmptySeq
<1> QED BY <1>3, <1>5, <1>6 DEF Init, SessionInv, SessionTypes, ResultsFollow

LEMMA NextSession == SessionInv /\ [Next]_vars => SessionInv'
<1> SUFFICES ASSUME SessionInv, [Next]_vars PROVE SessionInv'
  OBVIOUS
<1> USE DEF SessionInv, SessionTypes, ResultsFollow
<1>1. Len(periods) \in Nat
  BY LenProperties
<1>2. ASSUME next <= Len(periods)
      PROVE  periods[next] \in Labels /\ next + 1 \in 1 .. Len(periods) + 1
  <2>1. next \in 1 .. Len(periods)
    BY <1>1, <1>2
  <2> QED BY <1>1, <2>1, ElementOfSeq
<1>3. ASSUME NEW doc \in Documents, ReadPeriod(doc) PROVE SessionInv'
  <2>1. [label |-> periods[next], doc |-> doc] \in ReadPeriods
    BY <1>2, <1>3 DEF ReadPeriod, ReadPeriods
  <2>2. extracted' \in Seq(ReadPeriods)
    BY <1>3, <2>1, AppendProperties DEF ReadPeriod
  <2> QED BY <1>2, <1>3, <2>2 DEF ReadPeriod, Running
<1>4. CASE FailPeriod
  <2>1. failed' \in Seq(Labels)
    BY <1>2, <1>4, AppendProperties DEF FailPeriod
  <2> QED BY <1>2, <1>4, <2>1 DEF FailPeriod, Running
<1>5. CASE Assemble
  BY <1>5 DEF Assemble
<1>6. CASE CancelSession
  BY <1>6 DEF CancelSession
<1>7. CASE UNCHANGED vars
  BY <1>7 DEF vars
<1> QED BY <1>3, <1>4, <1>5, <1>6, <1>7 DEF Next

\* The inductive invariant holds throughout.
LEMMA SessionInvariant == Spec => []SessionInv
<1>1. Init => SessionInv
  BY InitSession
<1>2. SessionInv /\ [Next]_vars => SessionInv'
  BY NextSession
<1> QED BY <1>1, <1>2, PTL DEF Spec

LEMMA ResultsWell == SessionInv => \A i \in DOMAIN results : ResultWell(results[i])
<1> SUFFICES ASSUME SessionInv, NEW i \in DOMAIN results PROVE ResultWell(results[i])
  OBVIOUS
<1>1. CASE results = <<>>
  <2>1. DOMAIN <<>> = {}
    OBVIOUS
  <2> QED BY <1>1, <2>1
<1>2. CASE results = Assembled(extracted, failed)
  BY <1>2, AssembledWell DEF SessionInv, SessionTypes
<1> QED BY <1>1, <1>2 DEF SessionInv, ResultsFollow

\* Every period that is stored has a score within its bounds or an error.
THEOREM TypeCorrect == Spec => []TypeOK
<1>1. SessionInv => TypeOK
  <2> SUFFICES ASSUME SessionInv PROVE TypeOK
    OBVIOUS
  <2>1. \A i \in Read : StoredWell(results[i].score, results[i].doc.figures)
    BY ResultsWell DEF Read, ResultWell
  <2>2. /\ periods \in Seq(Labels) /\ next \in 1 .. Len(periods) + 1
        /\ extracted \in Seq([label : Labels, doc : Documents]) /\ failed \in Seq(Labels)
    BY DEF SessionInv, SessionTypes, ReadPeriods
  <2>3. \A s, figures : StoredWell(s, figures) => ScoreOK(s)
    BY DEF StoredWell, ScoreOK, Levels
  <2>4. \A i \in Read : ScoreOK(results[i].score)
    BY <2>1, <2>3, Zenon
  <2> QED BY <2>2, <2>4 DEF TypeOK
<1> QED BY <1>1, SessionInvariant, PTL

\* Whatever was read, no metric that leaves the math layer is refused by
\* validate_final_outward_emission, which would fail the session after its last
\* period.
THEOREM MetricsLeave == Spec => []EmissionNeverRefused
<1>1. SessionInv => EmissionNeverRefused
  BY ResultsWell DEF EmissionNeverRefused, Read, ResultWell
<1> QED BY <1>1, SessionInvariant, PTL

\* Whatever was read, no level of risk is better than the score beside it, the
\* figures that are missing and the share of the weights allow.
THEOREM LevelsAreEarned == Spec => []RiskIsEarned
<1>1. SessionInv => RiskIsEarned
  <2> SUFFICES ASSUME SessionInv, NEW i \in Read
               PROVE  /\ Earned(results[i].score, results[i].doc.figures)
                      /\ \A setting \in DOMAIN Targets :
                            Earned(ScoreOfDocument(results[i].doc, setting), results[i].doc.figures)
    BY DEF RiskIsEarned
  <2>1. /\ results[i].doc \in Documents
        /\ StoredWell(results[i].score, results[i].doc.figures)
    BY ResultsWell DEF Read, ResultWell
  <2>2. \A setting \in DOMAIN Targets :
            StoredWell(ScoreOfDocument(results[i].doc, setting), results[i].doc.figures)
    BY <2>1, FiguresKnown, DocumentEarned
  <2>3. \A s, figures : StoredWell(s, figures) => Earned(s, figures)
    BY DEF StoredWell
  <2> QED BY <2>1, <2>2, <2>3, Zenon
<1> QED BY <1>1, SessionInvariant, PTL

-----------------------------------------------------------------------------
(* The order of the files                                                   *)

\* The list labels2 names the periods of the list labels, q tells which.
Renumbers(q, labels2, labels) ==
    /\ IsFiniteSet(DOMAIN labels2) /\ IsFiniteSet(DOMAIN labels)
    /\ q \in Bijection(DOMAIN labels2, DOMAIN labels)
    /\ \A k \in DOMAIN labels2 : labels2[k] = labels[q[k]]

LEMMA RenumberShape ==
    ASSUME NEW q, NEW labels2, NEW labels, Renumbers(q, labels2, labels)
    PROVE  /\ q \in [DOMAIN labels2 -> DOMAIN labels]
           /\ \A a, b \in DOMAIN labels2 : q[a] = q[b] => a = b
           /\ \A j \in DOMAIN labels : \E k \in DOMAIN labels2 : q[k] = j
BY DEF Renumbers, Bijection, Injection, Surjection, IsInjective

LEMMA CarryingFinite ==
    ASSUME NEW labels, IsFiniteSet(DOMAIN labels), NEW l
    PROVE  /\ IsFiniteSet(Carrying(labels, l))
           /\ Cardinality(Carrying(labels, l)) \in Nat
           /\ Cardinality(Carrying(labels, l)) = 0 <=> Carrying(labels, l) = {}
<1>1. Carrying(labels, l) \in SUBSET DOMAIN labels
  BY DEF Carrying
<1>2. IsFiniteSet(Carrying(labels, l))
  BY <1>1, FS_Subset
<1> QED BY <1>2, FS_CardinalityType, FS_EmptySet

LEMMA CarryingRenumbered ==
    ASSUME NEW q, NEW labels2, NEW labels, Renumbers(q, labels2, labels), NEW l
    PROVE  /\ Cardinality(Carrying(labels2, l)) = Cardinality(Carrying(labels, l))
           /\ \A k \in DOMAIN labels2 : k \in Carrying(labels2, l) <=> q[k] \in Carrying(labels, l)
<1> DEFINE C2 == Carrying(labels2, l)
           C == Carrying(labels, l)
           f == [k \in C2 |-> q[k]]
<1>1. ASSUME NEW k \in DOMAIN labels2 PROVE k \in C2 <=> q[k] \in C
  BY RenumberShape DEF Renumbers, Carrying
<1>2. C2 \subseteq DOMAIN labels2 /\ C \subseteq DOMAIN labels
  BY DEF Carrying
<1>3. IsFiniteSet(C2)
  BY CarryingFinite DEF Renumbers
<1> HIDE DEF C, C2
<1>4. f \in [C2 -> C]
  BY <1>1, <1>2
<1>5. \A a, b \in C2 : f[a] = f[b] => a = b
  BY <1>2, RenumberShape
<1>6. \A j \in C : \E k \in C2 : f[k] = j
  <2> TAKE j \in C
  <2>1. PICK k \in DOMAIN labels2 : q[k] = j
    BY <1>2, RenumberShape
  <2>2. k \in C2
    BY <1>1, <2>1
  <2> QED BY <2>1, <2>2
<1>7. f \in Bijection(C2, C)
  <2> HIDE DEF f
  <2> QED BY <1>4, <1>5, <1>6, Fun_IsBij
<1>8. ExistsBijection(C2, C)
  BY <1>7 DEF ExistsBijection
<1>9. Cardinality(C2) = Cardinality(C)
  BY <1>3, <1>8, FS_Bijection
<1> QED BY <1>1, <1>9 DEF C, C2

\* A link leads to one document or to none.
LEMMA LinkSingle ==
    ASSUME NEW labels, IsFiniteSet(DOMAIN labels), NEW l, NEW class,
           NEW a \in LinkTo(labels, l, class), NEW b \in LinkTo(labels, l, class)
    PROVE  a = b
<1> DEFINE C == Carrying(labels, YearBefore(l, class))
<1>1. a \in C /\ b \in C /\ ~(Cardinality(C) > 1)
  BY DEF LinkTo, Duplicated
<1>2. IsFiniteSet(C) /\ Cardinality(C) \in Nat /\ Cardinality(C) # 0
  BY <1>1, CarryingFinite
<1> HIDE DEF C
<1>3. Cardinality(C) = 1
  BY <1>1, <1>2
<1>4. PICK x : C = {x}
  BY <1>2, <1>3, FS_Singleton
<1> QED BY <1>1, <1>4

LEMMA LinkRenumbered ==
    ASSUME NEW q, NEW labels2, NEW labels, Renumbers(q, labels2, labels), NEW l, NEW class
    PROVE  \A k \in DOMAIN labels2 : k \in LinkTo(labels2, l, class) <=> q[k] \in LinkTo(labels, l, class)
<1>1. \A m : Duplicated(labels2, m) <=> Duplicated(labels, m)
  BY CarryingRenumbered DEF Duplicated
<1> SUFFICES ASSUME NEW k \in DOMAIN labels2
             PROVE  k \in LinkTo(labels2, l, class) <=> q[k] \in LinkTo(labels, l, class)
  OBVIOUS
<1>2. k \in Carrying(labels2, YearBefore(l, class)) <=> q[k] \in Carrying(labels, YearBefore(l, class))
  BY CarryingRenumbered
<1> QED BY <1>1, <1>2 DEF LinkTo

LEMMA OpeningRenumbered ==
    ASSUME NEW q, NEW labels2, NEW labels, Renumbers(q, labels2, labels), NEW l
    PROVE  /\ OpeningLink(labels2, l) = {} <=> OpeningLink(labels, l) = {}
           /\ OpeningLink(labels2, l) # {} =>
                /\ (CHOOSE j \in OpeningLink(labels2, l) : TRUE) \in DOMAIN labels2
                /\ q[CHOOSE j \in OpeningLink(labels2, l) : TRUE]
                     = CHOOSE j \in OpeningLink(labels, l) : TRUE
<1> DEFINE L2 == OpeningLink(labels2, l)
           L == OpeningLink(labels, l)
           j2 == CHOOSE j \in L2 : TRUE
           j1 == CHOOSE j \in L : TRUE
<1>1. \A k \in DOMAIN labels2 : k \in L2 <=> q[k] \in L
  BY LinkRenumbered DEF OpeningLink
<1>2. L2 \subseteq DOMAIN labels2 /\ L \subseteq DOMAIN labels
  BY LinksInside
<1>3. \A a, b \in L : a = b
  BY LinkSingle DEF OpeningLink, Renumbers
<1> HIDE DEF L2, L
<1>4. L2 = {} <=> L = {}
  BY <1>1, <1>2, RenumberShape
<1>5. L2 # {} => j2 \in L2 /\ j1 \in L
  BY <1>4
<1> HIDE DEF j2, j1
<1>6. L2 # {} => j2 \in DOMAIN labels2 /\ q[j2] = j1
  BY <1>1, <1>2, <1>3, <1>5
<1> QED BY <1>4, <1>6 DEF L2, L, j2, j1

LEMMA ReasonsRenumbered ==
    ASSUME NEW q, NEW labels2, NEW labels, Renumbers(q, labels2, labels), NEW l
    PROVE  BasisReasons(labels2, l) = BasisReasons(labels, l)
<1>1. Duplicated(labels2, l) <=> Duplicated(labels, l)
  BY CarryingRenumbered DEF Duplicated
<1>2. OpeningLink(labels2, l) = {} <=> OpeningLink(labels, l) = {}
  BY OpeningRenumbered
<1> QED BY <1>1, <1>2 DEF BasisReasons

\* The ratios of a period depend on the other periods, not on where they are.
LEMMA RatiosRenumbered ==
    ASSUME NEW q, NEW labels2, NEW labels, Renumbers(q, labels2, labels), NEW figures2, NEW figures,
           \A k \in DOMAIN labels2 : figures2[k] = figures[q[k]],
           NEW i \in DOMAIN labels2
    PROVE  RatiosOfPeriod(labels2, figures2, i) = RatiosOfPeriod(labels, figures, q[i])
<1> DEFINE l == labels2[i]
<1>1. labels[q[i]] = l /\ figures2[i] = figures[q[i]]
  BY DEF Renumbers
<1>2. ASSUME NEW base \in BaseKeys
      PROVE  BalanceInputs(labels2, figures2, i, base) = BalanceInputs(labels, figures, q[i], base)
  <2> DEFINE opening2 == IF OpeningLink(labels2, l) = {} THEN Missing
                         ELSE figures2[CHOOSE j \in OpeningLink(labels2, l) : TRUE][base]
             opening == IF OpeningLink(labels, l) = {} THEN Missing
                        ELSE figures[CHOOSE j \in OpeningLink(labels, l) : TRUE][base]
  <2>1. opening2 = opening
    <3> DEFINE j2 == CHOOSE j \in OpeningLink(labels2, l) : TRUE
               j1 == CHOOSE j \in OpeningLink(labels, l) : TRUE
    <3>1. /\ OpeningLink(labels2, l) = {} <=> OpeningLink(labels, l) = {}
          /\ OpeningLink(labels2, l) # {} => j2 \in DOMAIN labels2 /\ q[j2] = j1
      BY OpeningRenumbered
    <3>2. /\ opening2 = IF OpeningLink(labels2, l) = {} THEN Missing ELSE figures2[j2][base]
          /\ opening = IF OpeningLink(labels, l) = {} THEN Missing ELSE figures[j1][base]
      OBVIOUS
    <3> HIDE DEF j1, j2, opening, opening2, l
    <3> QED BY <3>1, <3>2
  <2>2. BasisReasons(labels2, l) = BasisReasons(labels, l)
    BY ReasonsRenumbered
  <2> DEFINE reasons == BasisReasons(labels, l)
             closing == figures2[i][base]
             Built(o) ==
                 [opening |-> Input(o, reasons), closing |-> Input(closing, reasons),
                  average |-> IF o # Missing /\ closing # Missing /\ reasons = {}
                              THEN Input((o + closing) \div 2, {})
                              ELSE Input(Missing, reasons \union {"AVERAGE_BALANCE_CONTEXT_MISSING"})]
  <2>3. BalanceInputs(labels2, figures2, i, base) = Built(opening2)
    <3> HIDE DEF opening2
    <3> QED BY <2>2 DEF BalanceInputs, opening2
  <2>4. BalanceInputs(labels, figures, q[i], base) = Built(opening)
    <3> HIDE DEF opening
    <3> QED BY <1>1 DEF BalanceInputs, opening
  <2> HIDE DEF opening2, opening, Built
  <2> QED BY <2>1, <2>3, <2>4
<1>3. [b \in BaseKeys |-> BalanceInputs(labels2, figures2, i, b)]
      = [b \in BaseKeys |-> BalanceInputs(labels, figures, q[i], b)]
  BY <1>2
<1>4. PreparedInputs(labels2, figures2, i) = PreparedInputs(labels, figures, q[i])
  BY <1>1, <1>3, Zenon DEF PreparedInputs
<1> QED BY <1>4 DEF RatiosOfPeriod

LEMMA ScoresRenumbered ==
    ASSUME NEW q, NEW ps2, NEW ps, Renumbers(q, ps2, ps), NEW i \in DOMAIN ps2
    PROVE  Scores(ps2)[i] = Scores(ps)[q[i]]
<1> DEFINE labels2 == [j \in DOMAIN ps2 |-> ps2[j].label]
           labels == [j \in DOMAIN ps |-> ps[j].label]
           figures2 == [j \in DOMAIN ps2 |-> BasisFigures(ps2[j])]
           figures == [j \in DOMAIN ps |-> BasisFigures(ps[j])]
<1>1. /\ DOMAIN labels2 = DOMAIN ps2 /\ DOMAIN labels = DOMAIN ps
      /\ \A j \in DOMAIN ps2 : q[j] \in DOMAIN ps /\ ps2[j] = ps[q[j]]
  BY RenumberShape DEF Renumbers
<1>2. /\ \A j \in DOMAIN labels2 : labels2[j] = labels[q[j]]
      /\ \A j \in DOMAIN labels2 : figures2[j] = figures[q[j]]
  BY <1>1
<1>3. Renumbers(q, labels2, labels)
  <2> HIDE DEF labels2, labels
  <2> QED BY <1>1, <1>2 DEF Renumbers
<1>4. RatiosOfPeriod(labels2, figures2, i) = RatiosOfPeriod(labels, figures, q[i])
  <2> HIDE DEF labels2, labels, figures2, figures
  <2> QED BY <1>1, <1>2, <1>3, RatiosRenumbered
<1>5. Compared(ps2)[i] = Compared(ps)[q[i]]
  BY <1>1, <1>4 DEF Compared
<1> QED BY <1>1, <1>5 DEF Scores

LEMMA SameValues ==
    ASSUME NEW A, NEW B, NEW f, NEW g, NEW q, \A k \in A : q[k] \in B /\ f[k] = g[q[k]],
           \A j \in B : \E k \in A : q[k] = j
    PROVE  {f[k] : k \in A} = {g[j] : j \in B}
<1>1. ASSUME NEW k \in A PROVE f[k] \in {g[j] : j \in B}
  OBVIOUS
<1>2. ASSUME NEW j \in B PROVE \E k \in A : f[k] = g[j]
  OBVIOUS
<1> QED BY <1>1, <1>2

\* What a result says, in whatever order.
Said(rs) == {rs[k] : k \in DOMAIN rs}

\* What a result holds, wherever it is: an error for each period that failed,
\* the scores of each that was read.
Held(ps, ls) ==
    {[label |-> ls[i], read |-> FALSE] : i \in DOMAIN ls} \cup {Scores(ps)[i] : i \in DOMAIN ps}

LEMMA AssembledHolds ==
    ASSUME NEW ps \in Seq(ReadPeriods), NEW ls \in Seq(Labels)
    PROVE  Said(Assembled(ps, ls)) = Held(ps, ls)
<1> DEFINE rs == Gathered(ps, ls)
           n == Len(ls) + Len(ps)
           m == Len(ls)
<1>1. PICK p \in Bijection(1 .. n, 1 .. n) : Assembled(ps, ls) = [k \in 1 .. n |-> rs[p[k]]]
  BY AssembledPermutes DEF Permuted
<1>2. n \in Nat /\ m \in Nat /\ DOMAIN ls = 1 .. m /\ DOMAIN ps = 1 .. Len(ps) /\ Len(ps) \in Nat
  BY AssembledPermutes, LenProperties
<1>3. /\ \A k \in 1 .. n : p[k] \in 1 .. n
      /\ \A j \in 1 .. n : \E k \in 1 .. n : p[k] = j
  BY DEF Bijection, Injection, Surjection
<1>4. /\ \A i \in 1 .. m : rs[i] = [label |-> ls[i], read |-> FALSE]
      /\ \A i \in m + 1 .. n : i - m \in DOMAIN ps /\ rs[i] = Scores(ps)[i - m]
  BY GatheredShape
<1>5. {Assembled(ps, ls)[k] : k \in DOMAIN Assembled(ps, ls)} = {rs[j] : j \in 1 .. n}
  <2> DEFINE result == Assembled(ps, ls)
  <2>1. DOMAIN result = 1 .. n /\ \A k \in 1 .. n : result[k] = rs[p[k]]
    BY <1>1
  <2> HIDE DEF rs, n, result
  <2>2. {result[k] : k \in 1 .. n} = {rs[j] : j \in 1 .. n}
    <3>1. \A k \in 1 .. n : result[k] \in {rs[j] : j \in 1 .. n}
      BY <1>3, <2>1
    <3>2. \A j \in 1 .. n : rs[j] \in {result[k] : k \in 1 .. n}
      <4> SUFFICES ASSUME NEW j \in 1 .. n PROVE rs[j] \in {result[k] : k \in 1 .. n}
        OBVIOUS
      <4>1. PICK k \in 1 .. n : p[k] = j
        BY <1>3
      <4> QED BY <2>1, <4>1
    <3> QED BY <3>1, <3>2
  <2> QED BY <2>1, <2>2 DEF result
<1>6. ASSUME NEW j \in 1 .. n PROVE rs[j] \in Held(ps, ls)
  <2> HIDE DEF rs
  <2>1. CASE j \in 1 .. m
    BY <1>2, <1>4, <2>1 DEF Held
  <2>2. CASE j \in m + 1 .. n
    BY <1>4, <2>2 DEF Held
  <2> QED BY <1>2, <2>1, <2>2
<1>7. ASSUME NEW r \in Held(ps, ls) PROVE \E j \in 1 .. n : rs[j] = r
  <2> HIDE DEF rs
  <2>1. CASE \E i \in DOMAIN ls : r = [label |-> ls[i], read |-> FALSE]
    <3>1. PICK i \in DOMAIN ls : r = [label |-> ls[i], read |-> FALSE]
      BY <2>1
    <3>2. i \in 1 .. m /\ i \in 1 .. n
      BY <1>2
    <3> QED BY <1>4, <3>1, <3>2
  <2>2. CASE \E i \in DOMAIN ps : r = Scores(ps)[i]
    <3>1. PICK i \in DOMAIN ps : r = Scores(ps)[i]
      BY <2>2
    <3>2. i + m \in m + 1 .. n /\ i + m \in 1 .. n /\ (i + m) - m = i
      BY <1>2
    <3> QED BY <1>4, <3>1, <3>2
  <2> QED BY <2>1, <2>2 DEF Held
<1> HIDE DEF rs, n
<1> QED BY <1>5, <1>6, <1>7 DEF Said

\* Every order of the files of a session, not only the reverse one, gives the
\* same results.
LEMMA AnyOrder ==
    ASSUME NEW ps \in Seq(ReadPeriods), NEW ls \in Seq(Labels),
           NEW ps2 \in Seq(ReadPeriods), NEW ls2 \in Seq(Labels),
           NEW q, Renumbers(q, ps2, ps), NEW t, Renumbers(t, ls2, ls)
    PROVE  Said(Assembled(ps2, ls2)) = Said(Assembled(ps, ls))
<1>1. {Scores(ps2)[i] : i \in DOMAIN ps2} = {Scores(ps)[i] : i \in DOMAIN ps}
  <2>1. \A k \in DOMAIN ps2 : q[k] \in DOMAIN ps /\ Scores(ps2)[k] = Scores(ps)[q[k]]
    BY ScoresRenumbered, RenumberShape
  <2>2. \A j \in DOMAIN ps : \E k \in DOMAIN ps2 : q[k] = j
    BY RenumberShape
  <2> DEFINE f == Scores(ps2)
             g == Scores(ps)
             A == DOMAIN ps2
             B == DOMAIN ps
  <2>3. {f[k] : k \in A} = {g[j] : j \in B}
    <3>1. /\ \A k \in A : q[k] \in B /\ f[k] = g[q[k]]
          /\ \A j \in B : \E k \in A : q[k] = j
      BY <2>1, <2>2
    <3> HIDE DEF f, g, A, B
    <3> QED BY <3>1, SameValues
  <2> QED BY <2>3
<1>2. {[label |-> ls2[i], read |-> FALSE] : i \in DOMAIN ls2}
        = {[label |-> ls[i], read |-> FALSE] : i \in DOMAIN ls}
  <2>1. \A i \in DOMAIN ls2 : t[i] \in DOMAIN ls /\ ls2[i] = ls[t[i]]
    BY RenumberShape DEF Renumbers
  <2>2. \A j \in DOMAIN ls : \E i \in DOMAIN ls2 : t[i] = j
    BY RenumberShape
  <2> DEFINE e2 == [i \in DOMAIN ls2 |-> [label |-> ls2[i], read |-> FALSE]]
             e == [i \in DOMAIN ls |-> [label |-> ls[i], read |-> FALSE]]
             A == DOMAIN ls2
             B == DOMAIN ls
  <2>3. \A k \in A : t[k] \in B /\ e2[k] = e[t[k]]
    BY <2>1
  <2>4. {e2[k] : k \in A} = {e[j] : j \in B}
    <3>1. \A j \in B : \E k \in A : t[k] = j
      BY <2>2
    <3> HIDE DEF e2, e, A, B
    <3> QED BY <2>3, <3>1, SameValues
  <2> QED BY <2>4
<1>3. Held(ps2, ls2) = Held(ps, ls)
  BY <1>1, <1>2 DEF Held
<1> QED BY <1>3, AssembledHolds

LEMMA ReverseRenumbers ==
    ASSUME NEW S, NEW s \in Seq(S)
    PROVE  Reverse(s) \in Seq(S) /\ \E q : Renumbers(q, Reverse(s), s)
<1> DEFINE n == Len(s)
           q == [k \in 1 .. n |-> n - k + 1]
<1>1. n \in Nat /\ DOMAIN s = 1 .. n /\ \A i \in 1 .. n : s[i] \in S
  BY LenProperties, ElementOfSeq
<1>2. Reverse(s) = [k \in 1 .. n |-> s[n - k + 1]]
  BY DEF Reverse
<1> HIDE DEF n
<1>3. \A k \in 1 .. n : n - k + 1 \in 1 .. n /\ n - (n - k + 1) + 1 = k
  BY <1>1
<1>4. Reverse(s) \in Seq(S)
  <2>1. Reverse(s) \in [1 .. n -> S]
    BY <1>1, <1>2, <1>3
  <2> QED BY <1>1, <2>1
<1>5. IsFiniteSet(1 .. n)
  BY <1>1, FS_Interval
<1>6. q \in Bijection(1 .. n, 1 .. n)
  <2>1. q \in [1 .. n -> 1 .. n]
    BY <1>3
  <2>2. \A a, b \in 1 .. n : q[a] = q[b] => a = b
    BY <1>1
  <2>3. \A j \in 1 .. n : \E k \in 1 .. n : q[k] = j
    BY <1>3
  <2> HIDE DEF q
  <2> QED BY <2>1, <2>2, <2>3, Fun_IsBij
<1>7. /\ DOMAIN Reverse(s) = 1 .. n
      /\ \A k \in 1 .. n : Reverse(s)[k] = s[q[k]]
  BY <1>2
<1> HIDE DEF q
<1>8. Renumbers(q, Reverse(s), s)
  BY <1>1, <1>5, <1>6, <1>7 DEF Renumbers
<1> QED BY <1>4, <1>8

\* The order in which the files of a session were uploaded does not change what
\* is said of any of them.
THEOREM OrderIsIrrelevant == Spec => []OrderDoesNotMatter
<1>1. SessionInv => OrderDoesNotMatter
  <2> SUFFICES ASSUME SessionInv, results # <<>>
               PROVE  Said(results) = Said(Assembled(Reverse(extracted), Reverse(failed)))
    BY DEF OrderDoesNotMatter, Said
  <2>1. /\ extracted \in Seq(ReadPeriods) /\ failed \in Seq(Labels)
        /\ results = Assembled(extracted, failed)
    BY DEF SessionInv, SessionTypes, ResultsFollow
  <2>2. Reverse(extracted) \in Seq(ReadPeriods) /\ Reverse(failed) \in Seq(Labels)
    BY <2>1, ReverseRenumbers
  <2>3. PICK q : Renumbers(q, Reverse(extracted), extracted)
    BY <2>1, ReverseRenumbers
  <2>4. PICK t : Renumbers(t, Reverse(failed), failed)
    BY <2>1, ReverseRenumbers
  <2> DEFINE ps2 == Reverse(extracted)
             ls2 == Reverse(failed)
  <2>5. /\ ps2 \in Seq(ReadPeriods) /\ ls2 \in Seq(Labels)
        /\ Renumbers(q, ps2, extracted) /\ Renumbers(t, ls2, failed)
    BY <2>2, <2>3, <2>4
  <2> HIDE DEF ps2, ls2
  <2>6. Said(Assembled(ps2, ls2)) = Said(Assembled(extracted, failed))
    BY <2>1, <2>5, AnyOrder
  <2> QED BY <2>1, <2>6 DEF ps2, ls2
<1> QED BY <1>1, SessionInvariant, PTL

-----------------------------------------------------------------------------
(* Averages                                                                 *)

LEMMA BaseNames ==
    ASSUME NEW base \in BaseKeys
    PROVE  /\ OpeningOf[base] \notin FigureKeys /\ ClosingOf[base] \notin FigureKeys
           /\ OpeningOf[base] \notin NonNegative /\ ClosingOf[base] \notin NonNegative
           /\ OpeningOf[base] # ClosingOf[base]
           /\ \A b \in BaseKeys : \A key \in {OpeningOf[base], ClosingOf[base]} :
                key \in {OpeningOf[b], ClosingOf[b], AverageOf[b]} <=> b = base
<1>1. CASE base = "total_assets"
  BY <1>1 DEF BaseKeys, OpeningOf, ClosingOf, AverageOf, FigureKeys, NonNegative
<1>2. CASE base = "equity"
  BY <1>2 DEF BaseKeys, OpeningOf, ClosingOf, AverageOf, FigureKeys, NonNegative
<1> QED BY <1>1, <1>2 DEF BaseKeys

LEMMA PreparedKnows ==
    ASSUME NEW labels, NEW figures, Listed(labels, figures), NEW i \in DOMAIN labels,
           NEW base \in BaseKeys, NEW flow \in FigureKeys
    PROVE  LET p == PreparedInputs(labels, figures, i)
               b == BalanceInputs(labels, figures, i, base)
           IN  /\ flow \in DOMAIN p /\ p[flow] = Input(figures[i][flow], {})
               /\ OpeningOf[base] \in DOMAIN p /\ p[OpeningOf[base]] = b.opening
               /\ ClosingOf[base] \in DOMAIN p /\ p[ClosingOf[base]] = b.closing
<1> DEFINE balances == [b \in BaseKeys |-> BalanceInputs(labels, figures, i, b)]
           keys == DOMAIN figures[i] \union {OpeningOf[b] : b \in BaseKeys}
                   \union {ClosingOf[b] : b \in BaseKeys} \union {AverageOf[b] : b \in BaseKeys}
           BaseOf(key) == CHOOSE b \in BaseKeys : key \in {OpeningOf[b], ClosingOf[b], AverageOf[b]}
           p == PreparedInputs(labels, figures, i)
<1>1. p = [key \in keys |->
            IF key \in DOMAIN figures[i] THEN Input(figures[i][key], {})
            ELSE IF key = OpeningOf[BaseOf(key)] THEN balances[BaseOf(key)].opening
            ELSE IF key = ClosingOf[BaseOf(key)] THEN balances[BaseOf(key)].closing
            ELSE balances[BaseOf(key)].average]
  BY DEF PreparedInputs
<1>2. DOMAIN figures[i] = FigureKeys
  BY DEF Listed, FiguresSet
<1>3. ASSUME NEW key \in {OpeningOf[base], ClosingOf[base]} PROVE BaseOf(key) = base
  BY BaseNames
<1>4. balances[base] = BalanceInputs(labels, figures, i, base)
  OBVIOUS
<1>5. flow \in keys /\ OpeningOf[base] \in keys /\ ClosingOf[base] \in keys
  BY <1>2
<1> HIDE DEF p, keys, BaseOf, balances
<1>6. flow \in DOMAIN p /\ p[flow] = Input(figures[i][flow], {})
  BY <1>1, <1>2, <1>5
<1>7. OpeningOf[base] \in DOMAIN p /\ p[OpeningOf[base]] = balances[base].opening
  BY <1>1, <1>2, <1>3, <1>5, BaseNames
<1>8. ClosingOf[base] \in DOMAIN p /\ p[ClosingOf[base]] = balances[base].closing
  BY <1>1, <1>2, <1>3, <1>5, BaseNames
<1> QED BY <1>4, <1>6, <1>7, <1>8 DEF p

\* The value of a ratio of a flow to the average of a balance.
Averaged(amount, opening, closing) ==
    IF Missing \in {amount, opening, closing} THEN Missing
    ELSE IF opening + closing <= 0 THEN Missing
    ELSE Quantized(2 * amount, opening + closing)

\* A negative revenue is refused before it is used.
Accepted(flow, amount) ==
    IF flow = "revenue" /\ amount # Missing /\ amount < 0 THEN Missing ELSE amount

LEMMA RefusedHasNoValue == \A state, codes : Refused(state, codes).value = Missing
BY DEF Refused

LEMMA AverageRatio ==
    ASSUME NEW labels, NEW figures, Listed(labels, figures), NEW i \in DOMAIN labels,
           NEW base \in BaseKeys, NEW flow \in {"revenue", "net_profit"},
           NEW m \in Metrics, REGISTRY[m] = Average(flow, base)
    PROVE  RatiosOfPeriod(labels, figures, i)[m].value =
             IF OpeningLink(labels, labels[i]) = {} THEN Missing
             ELSE Averaged(Accepted(flow, figures[i][flow]),
                           figures[CHOOSE j \in OpeningLink(labels, labels[i]) : TRUE][base],
                           figures[i][base])
<1> DEFINE prepared == PreparedInputs(labels, figures, i)
           inputs == NormalizeInputs(prepared)
           b == BalanceInputs(labels, figures, i, base)
           link == OpeningLink(labels, labels[i])
           opening == IF link = {} THEN Missing ELSE figures[CHOOSE j \in link : TRUE][base]
           closing == figures[i][base]
           amount == figures[i][flow]
           reasons == BasisReasons(labels, labels[i])
           metric == ComputeMetric(REGISTRY[m], inputs)
<1>1. flow \in FigureKeys /\ base \in FigureKeys
  BY DEF FigureKeys, BaseKeys
<1>2. RatiosOfPeriod(labels, figures, i)[m] = metric
  BY DEF RatiosOfPeriod, Compute
<1>3. b.opening = Input(opening, reasons) /\ b.closing = Input(closing, reasons)
  BY DEF BalanceInputs
<1>4. opening \in Int \cup {Missing} /\ closing \in Int \cup {Missing} /\ amount \in Int \cup {Missing}
  <2>1. closing \in Int \cup {Missing} /\ amount \in Int \cup {Missing}
    BY <1>1 DEF Listed, FiguresSet
  <2>2. CASE link = {}
    BY <2>1, <2>2
  <2>3. CASE link # {}
    <3>1. (CHOOSE j \in link : TRUE) \in DOMAIN labels
      BY <2>3, LinksInside
    <3> QED BY <1>1, <2>1, <2>3, <3>1 DEF Listed, FiguresSet
  <2> QED BY <2>2, <2>3
<1>5. link # {} => reasons = {}
  BY DEF OpeningLink, LinkTo, BasisReasons
<1>6. /\ flow \in DOMAIN prepared /\ prepared[flow] = Input(amount, {})
      /\ OpeningOf[base] \in DOMAIN prepared /\ prepared[OpeningOf[base]] = Input(opening, reasons)
      /\ ClosingOf[base] \in DOMAIN prepared /\ prepared[ClosingOf[base]] = Input(closing, reasons)
  <2> HIDE DEF opening, closing, reasons, b
  <2> QED BY <1>1, <1>3, PreparedKnows DEF b
<1> HIDE DEF prepared, b, link, opening, closing, amount, reasons
<1>7. /\ Given(inputs, flow) = Validated(flow, Input(amount, {}))
      /\ Given(inputs, OpeningOf[base]) = Input(opening, reasons)
      /\ Given(inputs, ClosingOf[base]) = Input(closing, reasons)
  BY <1>6, BaseNames DEF Given, NormalizeInputs, Validated
<1> HIDE DEF inputs
<1> DEFINE num == ComputeInput(inputs, flow)
           basis == BasisRefusal(Input(opening, reasons), Input(closing, reasons))
<1>8. metric = IF basis # {}
               THEN Refused("invalid", basis \union (Given(inputs, flow).reasons
                                                      \union Given(inputs, AverageOf[base]).reasons))
               ELSE Formula(num, Input(opening + closing, {}), "strict_positive")
  <2>1. /\ REGISTRY[m].num = flow /\ REGISTRY[m].den = AverageOf[base] /\ REGISTRY[m].base = base
        /\ REGISTRY[m].coverage = "full" /\ REGISTRY[m].policy = "strict_positive"
    BY DEF Average
  <2>2. base # "none"
    BY DEF BaseKeys
  <2>3. AverageInput(inputs, base) = Input(opening + closing, {})
    BY <1>7 DEF AverageInput, Input
  <2> HIDE DEF basis, num
  <2> QED BY <1>7, <2>1, <2>2, <2>3 DEF ComputeMetric, basis, num
<1> HIDE DEF metric
<1>9. CASE link = {} \/ opening = Missing \/ closing = Missing
  <2>1. opening = Missing \/ closing = Missing
    BY <1>9 DEF opening
  <2>2. basis # {}
    BY <2>1 DEF BasisRefusal, CandidateState, Input
  <2>3. metric.value = Missing
    BY <1>8, <2>2, RefusedHasNoValue
  <2>4. link = {} \/ Averaged(Accepted(flow, amount), opening, closing) = Missing
    BY <2>1 DEF Averaged
  <2> QED BY <1>2, <2>3, <2>4 DEF link, opening, closing, amount
<1>10. CASE link # {} /\ opening # Missing /\ closing # Missing
  <2>1. opening \in Int /\ closing \in Int /\ opening + closing \in Int
    BY <1>4, <1>10
  <2>2. basis = {}
    BY <1>5, <1>10 DEF BasisRefusal, CandidateState, Input
  <2>3. metric = Formula(num, Input(opening + closing, {}), "strict_positive")
    BY <1>8, <2>2
  <2>4. metric.value = Averaged(Accepted(flow, amount), opening, closing)
    <3>1. CASE Accepted(flow, amount) = Missing
      <4>1. \/ num.reasons # {}
            \/ num.value = Missing
        <5>1. CASE amount = Missing
          BY <1>7, <5>1 DEF ComputeInput, Validated, Input
        <5>2. CASE amount # Missing
          <6>1. flow = "revenue" /\ amount < 0
            BY <3>1, <5>2 DEF Accepted
          <6>2. Given(inputs, flow).reasons # {} /\ Given(inputs, flow).value = Missing
            BY <1>7, <5>2, <6>1 DEF Validated, Input, NonNegative
          <6> QED BY <6>2 DEF ComputeInput
        <5> QED BY <5>1, <5>2
      <4>2. Formula(num, Input(opening + closing, {}), "strict_positive").value = Missing
        <5> HIDE DEF num
        <5> QED BY <4>1, RefusedHasNoValue DEF Formula, Input
      <4> QED BY <2>3, <3>1, <4>2 DEF Averaged
    <3>2. CASE Accepted(flow, amount) # Missing
      <4>1. amount \in Int /\ amount # Missing /\ Accepted(flow, amount) = amount
            /\ ~(flow = "revenue" /\ amount < 0)
        BY <1>4, <3>2 DEF Accepted
      <4>2. num = Input(2 * amount, {})
        <5>1. flow = "net_profit" => flow \notin NonNegative
          BY DEF NonNegative
        <5>2. Given(inputs, flow) = Input(amount, {})
          BY <1>7, <4>1, <5>1 DEF Validated, Input
        <5> QED BY <4>1, <5>2 DEF ComputeInput, Input
      <4>3. 2 * amount \in Int /\ 2 * amount # Missing /\ opening + closing # Missing
        BY <2>1, <4>1, MissingIsNoFigure
      <4> DEFINE n == 2 * amount
                 d == opening + closing
      <4>4. n \in Int /\ d \in Int /\ n # Missing /\ d # Missing
        BY <2>1, <4>3
      <4>5. Averaged(amount, opening, closing) = IF d <= 0 THEN Missing ELSE Quantized(n, d)
        BY <1>10, <4>1 DEF Averaged
      <4>6. metric = Formula(Input(n, {}), Input(d, {}), "strict_positive")
        BY <2>3, <4>2
      <4> HIDE DEF n, d
      <4>7. CASE d <= 0
        <5>1. DenominatorClass(d) \in {"zero", "negative"}
          BY <4>4, <4>7 DEF DenominatorClass
        <5>2. DenominatorRefusal("strict_positive", d) # {}
          BY <5>1 DEF DenominatorRefusal, Allowed
        <5>3. metric.value = Missing
          BY <4>6, <5>2, RefusedHasNoValue DEF Formula, Input
        <5> QED BY <4>1, <4>5, <4>7, <5>3
      <4>8. CASE d > 0
        <5>1. DenominatorClass(d) = "positive"
          BY <4>4, <4>8 DEF DenominatorClass
        <5>2. DenominatorRefusal("strict_positive", d) = {}
          BY <5>1 DEF DenominatorRefusal, Allowed
        <5>3. metric = Divided(n, d)
          BY <4>4, <4>6, <5>2 DEF Formula, Input
        <5>4. metric.value = Quantized(n, d)
          BY <4>4, <4>8, <5>3 DEF Divided, Valid
        <5>5. ~(d <= 0)
          BY <4>4, <4>8
        <5> QED BY <4>1, <4>5, <5>4, <5>5
      <4> QED BY <4>4, <4>7, <4>8
    <3> QED BY <3>1, <3>2
  <2> QED BY <1>2, <1>10, <2>4 DEF link, opening, closing, amount
<1> QED BY <1>9, <1>10

\* Every stored period that was read is one that extraction returned, and the
\* other way round.
LEMMA ReadAreExtracted ==
    ASSUME SessionInv, results # <<>>
    PROVE  /\ IsFiniteSet(Read) /\ IsFiniteSet(DOMAIN extracted)
           /\ \E h \in Bijection(Read, DOMAIN extracted) :
                \A k \in Read : results[k] = Scores(extracted)[h[k]]
<1> DEFINE rs == Gathered(extracted, failed)
           n == Len(failed) + Len(extracted)
           m == Len(failed)
           D == DOMAIN extracted
<1>1. /\ extracted \in Seq(ReadPeriods) /\ failed \in Seq(Labels)
      /\ results = Assembled(extracted, failed)
  BY DEF SessionInv, SessionTypes, ResultsFollow
<1>2. PICK p \in Bijection(1 .. n, 1 .. n) : results = [k \in 1 .. n |-> rs[p[k]]]
  BY <1>1, AssembledPermutes DEF Permuted
<1>3. n \in Nat /\ m \in Nat /\ D = 1 .. Len(extracted) /\ Len(extracted) \in Nat
  BY <1>1, AssembledPermutes, LenProperties
<1>4. /\ \A k \in 1 .. n : p[k] \in 1 .. n
      /\ \A a, b \in 1 .. n : p[a] = p[b] => a = b
      /\ \A j \in 1 .. n : \E k \in 1 .. n : p[k] = j
  <2> HIDE DEF n
  <2> QED BY DEF Bijection, Injection, Surjection, IsInjective
<1>5. /\ \A i \in 1 .. m : rs[i] = [label |-> failed[i], read |-> FALSE]
      /\ \A i \in m + 1 .. n : i - m \in D /\ rs[i] = Scores(extracted)[i - m]
  BY <1>1, GatheredShape
<1>6. Read = {k \in 1 .. n : p[k] \in m + 1 .. n}
  <2>1. Read = {k \in 1 .. n : rs[p[k]].read}
    BY <1>2 DEF Read
  <2> HIDE DEF rs, n, D, m
  <2>2. ASSUME NEW i \in 1 .. m PROVE rs[i].read = FALSE
    <3>1. rs[i] = [label |-> failed[i], read |-> FALSE]
      BY <1>5
    <3>2. [label |-> failed[i], read |-> FALSE].read = FALSE
      BY Zenon
    <3> QED BY <3>1, <3>2, Zenon
  <2>3. \A i \in m + 1 .. n : rs[i].read = TRUE
    BY <1>5, ScoresKeep DEF D
  <2>4. \A i \in 1 .. n : i \in 1 .. m \/ i \in m + 1 .. n
    BY <1>3
  <2>5. \A i \in 1 .. n : rs[i].read <=> i \in m + 1 .. n
    <3> SUFFICES ASSUME NEW i \in 1 .. n PROVE rs[i].read <=> i \in m + 1 .. n
      OBVIOUS
    <3>1. CASE i \in m + 1 .. n
      BY <2>3, <3>1
    <3>2. CASE i \notin m + 1 .. n
      BY <2>2, <2>4, <3>2
    <3> QED BY <3>1, <3>2
  <2> QED BY <1>4, <2>1, <2>5
<1> DEFINE h == [k \in Read |-> p[k] - m]
<1>7. IsFiniteSet(Read)
  <2>1. IsFiniteSet(1 .. n)
    BY <1>3, FS_Interval
  <2>2. Read \in SUBSET (1 .. n)
    BY <1>6
  <2> QED BY <2>1, <2>2, FS_Subset
<1>8. IsFiniteSet(D)
  BY <1>3, FS_Interval
<1>9. \A k \in Read : k \in 1 .. n /\ p[k] \in m + 1 .. n
  BY <1>6
<1> HIDE DEF n, rs, m, D
<1>10. h \in Bijection(Read, D)
  <2>1. h \in [Read -> D]
    BY <1>5, <1>9
  <2>2. ASSUME NEW a \in Read, NEW b \in Read, h[a] = h[b] PROVE a = b
    <3>1. p[a] - m = p[b] - m
      BY <2>2
    <3>2. p[a] = p[b]
      <4>1. p[a] \in Int /\ p[b] \in Int /\ m \in Int
        BY <1>3, <1>9
      <4> QED BY <3>1, <4>1
    <3> QED BY <1>4, <1>9, <3>2
  <2>3. ASSUME NEW j \in D PROVE \E k \in Read : h[k] = j
    <3>1. j \in 1 .. Len(extracted) /\ j + m \in m + 1 .. n /\ j + m \in 1 .. n /\ (j + m) - m = j
      BY <1>3 DEF n, m
    <3>2. PICK k \in 1 .. n : p[k] = j + m
      BY <1>4, <3>1
    <3>3. k \in Read
      BY <1>6, <3>1, <3>2
    <3> QED BY <3>1, <3>2, <3>3
  <2> HIDE DEF h
  <2> QED BY <2>1, <2>2, <2>3, Fun_IsBij
<1>11. ASSUME NEW k \in Read PROVE results[k] = Scores(extracted)[h[k]]
  BY <1>2, <1>5, <1>9
<1> HIDE DEF h
<1> QED BY <1>7, <1>8, <1>10, <1>11 DEF D

\* What the year before says is found where a reader would look for it.
LEMMA LinkByHand ==
    ASSUME NEW labels, IsFiniteSet(DOMAIN labels), NEW i \in DOMAIN labels
    PROVE  LET l == labels[i]
               before == Carrying(labels, [class |-> "FY", year |-> l.year - 1])
           IN  IF \/ l.class \notin {"FY", "Q1", "H1"}
                  \/ Cardinality(Carrying(labels, l)) # 1 \/ Cardinality(before) # 1
               THEN OpeningLink(labels, l) = {}
               ELSE OpeningLink(labels, l) = before /\ before # {}
<1> DEFINE l == labels[i]
           C == Carrying(labels, l)
           before == Carrying(labels, [class |-> "FY", year |-> l.year - 1])
<1>1. YearBefore(l, "FY") = [class |-> "FY", year |-> l.year - 1]
  BY DEF YearBefore
<1>2. /\ Cardinality(C) \in Nat /\ (Cardinality(C) = 0 <=> C = {})
      /\ Cardinality(before) \in Nat /\ (Cardinality(before) = 0 <=> before = {})
  BY CarryingFinite
<1>3. l # Unreadable => C # {}
  BY DEF Carrying
<1>4. l.class \in {"FY", "Q1", "H1"} => l # Unreadable
  BY DEF Unreadable
<1>5. OpeningLink(labels, l) =
        IF l.class \in {"FY", "Q1", "H1"} /\ ~(Cardinality(C) > 1) /\ ~(Cardinality(before) > 1)
        THEN before ELSE {}
  BY <1>1 DEF OpeningLink, LinkTo, Duplicated, StrictClasses
<1> HIDE DEF C, before, l
<1>6. IF \/ l.class \notin {"FY", "Q1", "H1"} \/ Cardinality(C) # 1 \/ Cardinality(before) # 1
      THEN OpeningLink(labels, l) = {}
      ELSE OpeningLink(labels, l) = before /\ before # {}
  <2>1. CASE l.class \notin {"FY", "Q1", "H1"}
    BY <1>5, <2>1
  <2>2. CASE l.class \in {"FY", "Q1", "H1"}
    <3>1. Cardinality(C) # 0
      BY <1>2, <1>3, <1>4, <2>2
    <3>2. CASE Cardinality(C) > 1 \/ Cardinality(before) > 1
      BY <1>2, <1>5, <3>2
    <3>3. CASE ~(Cardinality(C) > 1) /\ ~(Cardinality(before) > 1)
      <4>1. Cardinality(C) = 1 /\ Cardinality(before) \in {0, 1}
        BY <1>2, <3>1, <3>3
      <4>2. OpeningLink(labels, l) = before
        BY <1>5, <2>2, <3>3
      <4> QED BY <1>2, <2>2, <4>1, <4>2
    <3> QED BY <3>2, <3>3
  <2> QED BY <2>1, <2>2
<1> QED BY <1>6 DEF l, C, before

LEMMA ByHandAgrees ==
    ASSUME SessionInv, NEW i \in Read, NEW base \in BaseKeys,
           NEW flow \in {"revenue", "net_profit"}, NEW m \in Metrics,
           REGISTRY[m] = Average(flow, base)
    PROVE  results[i].derived[m].value = ByHand(i, flow, base)
<1> DEFINE ps == extracted
           labels2 == [k \in Read |-> results[k].label]
           labels == [j \in DOMAIN ps |-> ps[j].label]
           figures == [j \in DOMAIN ps |-> BasisFigures(ps[j])]
           l == results[i].label
           before == [class |-> "FY", year |-> l.year - 1]
           j2 == CHOOSE j \in Carrying(labels2, before) : TRUE
           factor == Factor[results[i].score.basis]
           opening == results[j2].doc.figures[base]
           closing == results[i].doc.figures[base]
           amount == results[i].doc.figures[flow]
           unlinked == \/ l.class \notin {"FY", "Q1", "H1"}
                       \/ Cardinality(Carrying(labels2, l)) # 1
                       \/ Cardinality(Carrying(labels2, before)) # 1
<1>1. results # <<>>
  <2>1. DOMAIN <<>> = {}
    OBVIOUS
  <2> QED BY <2>1 DEF Read
<1>2. /\ IsFiniteSet(Read) /\ IsFiniteSet(DOMAIN ps)
      /\ \E h \in Bijection(Read, DOMAIN ps) : \A k \in Read : results[k] = Scores(ps)[h[k]]
  BY <1>1, ReadAreExtracted
<1>3. PICK h \in Bijection(Read, DOMAIN ps) : \A k \in Read : results[k] = Scores(ps)[h[k]]
  BY <1>2
<1>4. ASSUME NEW k \in Read
      PROVE  /\ h[k] \in DOMAIN ps /\ results[k].label = ps[h[k]].label
             /\ results[k].doc = ps[h[k]].doc
  <2>1. h[k] \in DOMAIN ps
    BY DEF Bijection, Injection
  <2> DEFINE j == h[k]
  <2>2. j \in DOMAIN ps /\ results[k] = Scores(ps)[j]
    BY <1>3, <2>1
  <2> HIDE DEF j
  <2>3. results[k].label = ps[j].label /\ results[k].doc = ps[j].doc
    BY <2>2 DEF Scores
  <2> QED BY <2>2, <2>3 DEF j
<1>5. Renumbers(h, labels2, labels)
  <2>1. DOMAIN labels2 = Read /\ DOMAIN labels = DOMAIN ps
    OBVIOUS
  <2>2. \A k \in Read : labels2[k] = labels[h[k]]
    BY <1>4
  <2> HIDE DEF labels2, labels
  <2> QED BY <1>2, <1>3, <2>1, <2>2 DEF Renumbers
<1>6. ASSUME NEW j \in DOMAIN ps
      PROVE  /\ ps[j].doc.figures \in FiguresSet
             /\ PeriodMethodology(ps[j]).basis \in DOMAIN Factor
             /\ BasisFigures(ps[j]) \in FiguresSet
             /\ BasisFigures(ps[j])[base] = ps[j].doc.figures[base]
             /\ BasisFigures(ps[j])[flow] =
                  IF ps[j].doc.figures[flow] = Missing THEN Missing
                  ELSE Factor[PeriodMethodology(ps[j]).basis] * ps[j].doc.figures[flow]
  <2>1. ps[j] \in ReadPeriods
    BY ElementOfSeq DEF SessionInv, SessionTypes
  <2>2. ps[j].doc.figures \in FiguresSet
    BY <2>1, FiguresKnown DEF ReadPeriods
  <2>3. PeriodMethodology(ps[j]).basis \in DOMAIN Factor
    BY ProfilesKnown, MethodologyKnown DEF PeriodMethodology
  <2>4. DOMAIN ps[j].doc.figures = FigureKeys
    BY <2>2 DEF FiguresSet
  <2>5. /\ base \in FigureKeys /\ base \notin AnnualizedKeys
        /\ flow \in FigureKeys /\ flow \in AnnualizedKeys
    BY DEF BaseKeys, FigureKeys, AnnualizedKeys
  <2> QED BY <2>2, <2>3, <2>4, <2>5, AnnualizeKeeps DEF BasisFigures, Annualize
<1>7. Listed(labels, figures)
  BY <1>6 DEF Listed
<1>8. h[i] \in DOMAIN labels /\ labels[h[i]] = l
  BY <1>4
<1>9. results[i].derived = RatiosOfPeriod(labels, figures, h[i])
  <2>1. h[i] \in DOMAIN ps /\ results[i] = Scores(ps)[h[i]]
    BY <1>3, <1>4
  <2> QED BY <2>1 DEF Scores, Compared
<1>10. factor = Factor[PeriodMethodology(ps[h[i]]).basis]
  <2>1. h[i] \in DOMAIN ps /\ results[i] = Scores(ps)[h[i]]
    BY <1>3, <1>4
  <2> QED BY <2>1 DEF Scores, Score, ScoreFrom
<1>11. ByHand(i, flow, base) =
         IF unlinked THEN Missing
         ELSE IF \/ Missing \in {opening, closing, amount}
                 \/ (flow = "revenue" /\ amount # Missing /\ amount < 0)
         THEN Missing
         ELSE IF opening + closing <= 0 THEN Missing
         ELSE Quantized(2 * factor * amount, opening + closing)
  <2> DEFINE Same(x) == {j \in Read : results[j].label = x /\ x # Unreadable}
             prior == CHOOSE j \in Same(before) : TRUE
             given == results[prior].doc.figures[base]
  <2>1. Same(l) = Carrying(labels2, l) /\ Same(before) = Carrying(labels2, before)
    BY DEF Carrying
  <2>2. ByHand(i, flow, base) =
         IF \/ l.class \notin {"FY", "Q1", "H1"}
            \/ Cardinality(Same(l)) # 1 \/ Cardinality(Same(before)) # 1
         THEN Missing
         ELSE IF \/ Missing \in {given, closing, amount}
                 \/ (flow = "revenue" /\ amount # Missing /\ amount < 0)
         THEN Missing
         ELSE IF given + closing <= 0 THEN Missing
         ELSE Quantized(2 * factor * amount, given + closing)
    BY DEF ByHand
  <2> HIDE DEF labels2, Same, l, before, factor, closing, amount
  <2> QED BY <2>1, <2>2
<1>12. /\ Cardinality(Carrying(labels2, l)) = Cardinality(Carrying(labels, l))
       /\ Cardinality(Carrying(labels2, before)) = Cardinality(Carrying(labels, before))
  <2> HIDE DEF labels2, labels, l, before
  <2> QED BY <1>5, CarryingRenumbered
<1> DEFINE link == OpeningLink(labels, l)
           j1 == CHOOSE j \in link : TRUE
<1>13. IF unlinked THEN link = {}
       ELSE link = Carrying(labels, before) /\ Carrying(labels, before) # {}
  <2>1. IsFiniteSet(DOMAIN labels)
    BY <1>2
  <2> HIDE DEF labels, labels2
  <2> QED BY <1>8, <1>12, <2>1, LinkByHand
<1>14. ~unlinked => j2 \in Read /\ h[j2] = j1
  <2> SUFFICES ASSUME ~unlinked PROVE j2 \in Read /\ h[j2] = j1
    OBVIOUS
  <2>1. DOMAIN labels2 = Read
    OBVIOUS
  <2>2. IsFiniteSet(DOMAIN labels2) /\ i \in DOMAIN labels2 /\ labels2[i] = l
    BY <1>2
  <2> HIDE DEF labels2, labels, link
  <2>3. OpeningLink(labels2, l) = Carrying(labels2, before) /\ Carrying(labels2, before) # {}
    BY <2>2, LinkByHand
  <2> QED BY <1>5, <2>1, <2>3, OpeningRenumbered DEF link
<1> DEFINE taken == figures[j1][base]
           kept == figures[h[i]][base]
           flown == figures[h[i]][flow]
<1>15. results[i].derived[m].value =
         IF link = {} THEN Missing ELSE Averaged(Accepted(flow, flown), taken, kept)
  <2> HIDE DEF labels, figures
  <2> QED BY <1>7, <1>8, <1>9, AverageRatio
<1>16. kept = closing /\ flown = IF amount = Missing THEN Missing ELSE factor * amount
  <2>1. h[i] \in DOMAIN ps /\ results[i].doc = ps[h[i]].doc
    BY <1>4
  <2>2. figures[h[i]] = BasisFigures(ps[h[i]])
    BY <2>1
  <2> QED BY <1>6, <1>10, <2>1, <2>2
<1>17. ~unlinked => taken = opening
  <2> SUFFICES ASSUME ~unlinked PROVE taken = opening
    OBVIOUS
  <2>1. j2 \in Read /\ h[j2] = j1
    BY <1>14
  <2> HIDE DEF j2, j1
  <2>2. j1 \in DOMAIN ps /\ results[j2].doc = ps[j1].doc
    BY <1>4, <2>1
  <2>3. figures[j1] = BasisFigures(ps[j1])
    BY <2>2
  <2> QED BY <1>6, <2>2, <2>3
<1>18. /\ amount \in Int \cup {Missing} /\ factor \in {1, 2, 4}
  <2>1. h[i] \in DOMAIN ps /\ results[i].doc = ps[h[i]].doc
    BY <1>4
  <2>2. amount \in Int \cup {Missing}
    <3>1. flow \in FigureKeys
      BY DEF FigureKeys
    <3> QED BY <1>6, <2>1, <3>1 DEF FiguresSet
  <2>3. \A basis \in DOMAIN Factor : Factor[basis] \in {1, 2, 4}
    BY DEF Factor
  <2> QED BY <1>6, <1>10, <2>1, <2>2, <2>3
<1> HIDE DEF unlinked, link, taken, kept, flown, factor, amount, opening, closing
<1>19. CASE unlinked
  BY <1>11, <1>13, <1>15, <1>19
<1>20. CASE ~unlinked
  <2>1. results[i].derived[m].value = Averaged(Accepted(flow, flown), opening, closing)
    BY <1>13, <1>15, <1>16, <1>17, <1>20
  <2>2. CASE amount = Missing
    <3>1. Accepted(flow, flown) = Missing
      BY <1>16, <2>2 DEF Accepted
    <3> QED BY <1>11, <1>20, <2>1, <2>2, <3>1 DEF Averaged
  <2>3. CASE amount # Missing
    <3>1. amount \in Int /\ flown = factor * amount /\ flown \in Int /\ flown # Missing
      BY <1>16, <1>18, <2>3, MissingIsNoFigure
    <3>2. flown < 0 <=> amount < 0
      BY <1>18, <3>1
    <3>3. 2 * flown = 2 * factor * amount
      BY <1>18, <3>1
    <3>4. CASE flow = "revenue" /\ amount < 0
      <4>1. Accepted(flow, flown) = Missing
        BY <3>1, <3>2, <3>4 DEF Accepted
      <4> QED BY <1>11, <1>20, <2>1, <2>3, <3>4, <4>1 DEF Averaged
    <3>5. CASE ~(flow = "revenue" /\ amount < 0)
      <4>1. Accepted(flow, flown) = flown
        BY <3>2, <3>5 DEF Accepted
      <4>2. Averaged(flown, opening, closing) =
              IF Missing \in {opening, closing} THEN Missing
              ELSE IF opening + closing <= 0 THEN Missing
              ELSE Quantized(2 * factor * amount, opening + closing)
        BY <3>1, <3>3 DEF Averaged
      <4>3. ByHand(i, flow, base) =
              IF Missing \in {opening, closing} THEN Missing
              ELSE IF opening + closing <= 0 THEN Missing
              ELSE Quantized(2 * factor * amount, opening + closing)
        BY <1>11, <1>20, <2>3, <3>5
      <4> QED BY <2>1, <4>1, <4>2, <4>3
    <3> QED BY <3>4, <3>5
  <2> QED BY <2>2, <2>3
<1> QED BY <1>19, <1>20

\* A ratio on an average balance is the one a reader would compute by hand, from
\* the one document of the year before.
THEOREM AveragesFollow == Spec => []AveragesAreAdjacent
<1>1. SessionInv => AveragesAreAdjacent
  <2> SUFFICES ASSUME SessionInv, NEW i \in Read
               PROVE  /\ results[i].derived["roa"].value = ByHand(i, "net_profit", "total_assets")
                      /\ results[i].derived["roe"].value = ByHand(i, "net_profit", "equity")
                      /\ results[i].derived["asset_turnover"].value
                           = ByHand(i, "revenue", "total_assets")
    BY DEF AveragesAreAdjacent
  <2>1. /\ {"roa", "roe", "asset_turnover"} \subseteq Metrics
        /\ {"total_assets", "equity"} \subseteq BaseKeys
        /\ REGISTRY["roa"] = Average("net_profit", "total_assets")
        /\ REGISTRY["roe"] = Average("net_profit", "equity")
        /\ REGISTRY["asset_turnover"] = Average("revenue", "total_assets")
    BY DEF Metrics, REGISTRY, BaseKeys
  <2>2. results[i].derived["roa"].value = ByHand(i, "net_profit", "total_assets")
    BY <2>1, ByHandAgrees
  <2>3. results[i].derived["roe"].value = ByHand(i, "net_profit", "equity")
    BY <2>1, ByHandAgrees
  <2>4. results[i].derived["asset_turnover"].value = ByHand(i, "revenue", "total_assets")
    BY <2>1, ByHandAgrees
  <2> QED BY <2>2, <2>3, <2>4
<1> QED BY <1>1, SessionInvariant, PTL
=============================================================================
