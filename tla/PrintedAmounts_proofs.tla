------------------------- MODULE PrintedAmounts_proofs -------------------------
(***************************************************************************)
(* What PrintedAmounts promises of amounts of any length, in rows of any   *)
(* number of columns: the first period is what is read of a row, and what  *)
(* the model quotes is read as the document would be.                      *)
(*                                                                         *)
(* Line and digits are flattened sequences.  A fold is no induction over   *)
(* data here: it is a function on 0 .. n, and a set of numbers with 0 that *)
(* is closed under + 1 holds them all (Induct, from the least number of    *)
(* the rest).  From that come, in this order: where the parts of a         *)
(* flattened sequence lie in it, what Write writes and Normalized makes of *)
(* it, the cells, where the columns lie in the line, the matches that the  *)
(* patterns find there, the line of text and the line of OCR.              *)
(***************************************************************************)
EXTENDS PrintedAmounts, FiniteSetTheorems, SequenceTheorems, WellFoundedInduction, TLAPS

-----------------------------------------------------------------------------
(* Flattened sequences                                                      *)

\* A set of numbers has a least one.
LEMMA Least ==
    ASSUME NEW S \in SUBSET Nat, S # {}
    PROVE  \E n \in S : \A m \in S : n <= m
<1> DEFINE R == OpToRel(<, Nat)
<1>1. IsWellFoundedOn(R, Nat)
  BY NatLessThanWellFounded
<1>3. ASSUME NEW x \in Nat, NEW y \in Nat, x < y PROVE <<x, y>> \in R
  BY <1>3 DEF OpToRel
<1> HIDE DEF R
<1>2. PICK n \in S : \A m \in S : ~(<<m, n>> \in R)
  BY <1>1, WFMin
<1>4. ASSUME NEW m \in S PROVE n <= m
  <2>1. m \in Nat /\ n \in Nat /\ ~(<<m, n>> \in R)
    BY <1>2
  <2>2. ~(m < n)
    BY <2>1, <1>3
  <2> QED BY <2>1, <2>2
<1> QED BY <1>4

\* A set with 0 that is closed under + 1 holds every number.
LEMMA Induct ==
    ASSUME NEW S, 0 \in S, \A n \in Nat : n \in S => n + 1 \in S
    PROVE  Nat \subseteq S
<1> SUFFICES ASSUME NEW k \in Nat, k \notin S PROVE FALSE
  OBVIOUS
<1> DEFINE T == Nat \ S
<1>1. T \in SUBSET Nat /\ T # {}
  OBVIOUS
<1>2. PICK n \in T : \A m \in T : n <= m
  BY <1>1, Least
<1>3. n \in Nat /\ n # 0 /\ n \notin S
  BY <1>2
<1>4. n - 1 \in Nat /\ n - 1 \in T => n <= n - 1
  BY <1>2, <1>3
<1>5. n - 1 \in S
  BY <1>3, <1>4
<1> QED BY <1>3, <1>4, <1>5

\* What a fold with \o gives, element by element: f[i] is the first i sequences in
\* one (SequencesExt flattens by a fold over 0 .. n).
LEMMA Flattening ==
    ASSUME NEW S, NEW s \in Seq(Seq(S)), s # <<>>
    PROVE  \E f \in [1 .. Len(s) -> Seq(S)] :
                /\ f[1] = s[1] /\ \A i \in 2 .. Len(s) : f[i] = f[i - 1] \o s[i]
                /\ FlattenSeq(s) = f[Len(s)]
<1> DEFINE Step(f, i) == IF i = 1 THEN s[i] ELSE f[i - 1] \o s[i]
           Is(m, f) == f = [i \in 1 .. m |-> Step(f, i)]
           Has(m) == \E f : f \in [1 .. m -> Seq(S)] /\ Is(m, f)
           Good == {m \in Nat : m <= Len(s) => Has(m)}
<1>0. Len(s) \in Nat \ {0} /\ \A i \in 1 .. Len(s) : s[i] \in Seq(S)
  BY EmptySeq, ElementOfSeq
<1>1. Has(0)
  <2> DEFINE f == [i \in 1 .. 0 |-> <<>>]
  <2>1. f \in [1 .. 0 -> Seq(S)] /\ Is(0, f)
    OBVIOUS
  <2> QED BY <2>1
<1>2. ASSUME NEW m \in Nat, m + 1 <= Len(s), Has(m) PROVE Has(m + 1)
  <2>1. PICK f : f \in [1 .. m -> Seq(S)] /\ Is(m, f)
    BY <1>2
  <2> DEFINE last == Step(f, m + 1)
             g == [i \in 1 .. m + 1 |-> IF i <= m THEN f[i] ELSE last]
  <2>2. last \in Seq(S)
    <3>1. CASE m = 0
      BY <3>1, <1>0
    <3>2. CASE m # 0
      <4>1. f[m] \in Seq(S) /\ s[m + 1] \in Seq(S)
        BY <3>2, <2>1, <1>0, <1>2
      <4> QED BY <4>1, <3>2, ConcatProperties
    <3> QED BY <3>1, <3>2
  <2>3. g \in [1 .. m + 1 -> Seq(S)]
    <3> HIDE DEF last, Is, Step
    <3>1. ASSUME NEW i \in 1 .. m + 1 PROVE (IF i <= m THEN f[i] ELSE last) \in Seq(S)
      BY <2>1, <2>2
    <3> QED BY <3>1
  <2>4. ASSUME NEW i \in 1 .. m + 1 PROVE g[i] = Step(g, i)
    <3>1. CASE i <= m
      <4>1. g[i] = f[i]
        BY <3>1
      <4>2. f[i] = Step(f, i)
        <5> HIDE DEF Step, g
        <5>1. f = [j \in 1 .. m |-> Step(f, j)] /\ i \in 1 .. m
          BY <2>1, <3>1
        <5> QED BY <5>1
      <4>3. i # 1 => g[i - 1] = f[i - 1]
        BY <3>1
      <4> HIDE DEF g
      <4> QED BY <4>1, <4>2, <4>3
    <3>2. CASE i = m + 1
      <4>1. g[i] = Step(f, m + 1) /\ (i # 1 => g[i - 1] = f[i - 1])
        BY <3>2
      <4> HIDE DEF g
      <4> QED BY <4>1, <3>2
    <3> QED BY <3>1, <3>2
  <2>5. Is(m + 1, g)
    <3> HIDE DEF Step
    <3>1. g = [i \in 1 .. m + 1 |-> g[i]]
      OBVIOUS
    <3> HIDE DEF g
    <3> QED BY <3>1, <2>4
  <2> QED BY <2>3, <2>5
<1>3. \E f : f = [i \in 1 .. Len(s) |-> Step(f, i)]
  <2>1. Nat \subseteq Good
    <3> HIDE DEF Has
    <3>1. 0 \in Good /\ \A m \in Nat : m \in Good => m + 1 \in Good
      BY <1>1, <1>2, <1>0
    <3> HIDE DEF Good
    <3> QED BY <3>1, Induct
  <2>2. Has(Len(s))
    <3> HIDE DEF Has
    <3> QED BY <2>1, <1>0
  <2> QED BY <2>2
<1> HIDE DEF Has, Is, Good
<1> DEFINE F == CHOOSE f : f = [i \in 1 .. Len(s) |-> IF i = 1 THEN s[i] ELSE f[i - 1] \o s[i]]
<1>4. F = [i \in 1 .. Len(s) |-> IF i = 1 THEN s[i] ELSE F[i - 1] \o s[i]]
  BY <1>3
<1>5. FlattenSeq(s) = F[Len(s)]
  BY <1>0, Zenon DEF FlattenSeq
<1> HIDE DEF F
<1>6. DOMAIN F = 1 .. Len(s) /\ F[1] = s[1]
  BY <1>4, <1>0
<1>7. ASSUME NEW i \in 2 .. Len(s) PROVE F[i] = F[i - 1] \o s[i]
  <2>1. F = [j \in 1 .. Len(s) |-> Step(F, j)]
    BY <1>4
  <2>2. F[i] = Step(F, i)
    <3> HIDE DEF Step
    <3>1. i \in 1 .. Len(s)
      BY <1>0
    <3> QED BY <2>1, <3>1
  <2>3. Step(F, i) = F[i - 1] \o s[i]
    <3>1. i # 1
      BY <1>0
    <3> QED BY <3>1, Zenon
  <2> QED BY <2>2, <2>3
<1>8. \A i \in 1 .. Len(s) : F[i] \in Seq(S)
  <2> DEFINE T == {m \in Nat : \A i \in 1 .. Len(s) : i <= m => F[i] \in Seq(S)}
  <2>1. 0 \in T
    OBVIOUS
  <2>2. ASSUME NEW m \in Nat, m \in T, NEW i \in 1 .. Len(s), i <= m + 1 PROVE F[i] \in Seq(S)
    <3>1. CASE i = 1
      BY <3>1, <1>6, <1>0
    <3>2. CASE i # 1
      <4>1. i \in 2 .. Len(s) /\ i - 1 \in 1 .. Len(s) /\ i - 1 <= m
        BY <3>2, <2>2, <1>0
      <4>2. F[i - 1] \in Seq(S) /\ s[i] \in Seq(S)
        BY <4>1, <2>2, <1>0
      <4> QED BY <4>1, <4>2, <1>7, ConcatProperties
    <3> QED BY <3>1, <3>2
  <2>3. Nat \subseteq T
    <3>1. ASSUME NEW m \in Nat, m \in T PROVE m + 1 \in T
      <4>1. \A i \in 1 .. Len(s) : i <= m + 1 => F[i] \in Seq(S)
        BY <2>2, <3>1
      <4> QED BY <4>1
    <3> HIDE DEF T
    <3> QED BY <2>1, <3>1, Induct
  <2>4. Len(s) \in T
    <3> HIDE DEF T
    <3> QED BY <2>3, <1>0
  <2> QED BY <2>4, <1>0
<1>9. F \in [1 .. Len(s) -> Seq(S)]
  BY <1>6, <1>8, <1>4
<1> QED BY <1>5, <1>6, <1>7, <1>9

\* Sequence k lies behind the first off[k] elements of what is flattened.
Offsets(s, off) ==
    /\ off \in [1 .. Len(s) + 1 -> Nat]
    /\ off[1] = 0 /\ off[Len(s) + 1] = Len(FlattenSeq(s))
    /\ \A k \in 1 .. Len(s) : off[k + 1] = off[k] + Len(s[k])
    /\ \A k \in 1 .. Len(s) : \A l \in k .. Len(s) + 1 : off[k] <= off[l]
    /\ \A k \in 1 .. Len(s) : \A j \in 1 .. Len(s[k]) : FlattenSeq(s)[off[k] + j] = s[k][j]
    /\ \A i \in 1 .. Len(FlattenSeq(s)) :
            \E k \in 1 .. Len(s) : \E j \in 1 .. Len(s[k]) : i = off[k] + j

\* A flattened sequence has every part at its place, and nothing else.
LEMMA Flattened ==
    ASSUME NEW S, NEW s \in Seq(Seq(S)), s # <<>>
    PROVE  FlattenSeq(s) \in Seq(S) /\ \E off : Offsets(s, off)
<1>0. Len(s) \in Nat \ {0} /\ \A i \in 1 .. Len(s) : s[i] \in Seq(S) /\ Len(s[i]) \in Nat
  BY EmptySeq, ElementOfSeq, LenProperties
<1>1. PICK f \in [1 .. Len(s) -> Seq(S)] :
            /\ f[1] = s[1] /\ \A i \in 2 .. Len(s) : f[i] = f[i - 1] \o s[i]
            /\ FlattenSeq(s) = f[Len(s)]
  BY Flattening
<1>2. \A i \in 1 .. Len(s) : f[i] \in Seq(S) /\ Len(f[i]) \in Nat
  BY <1>1, LenProperties
<1> DEFINE off == [k \in 1 .. Len(s) + 1 |-> IF k = 1 THEN 0 ELSE Len(f[k - 1])]
           Placed(m) ==
              /\ \A k \in 1 .. m + 1 : off[k] <= off[m + 1]
              /\ \A k \in 1 .. m : \A j \in 1 .. Len(s[k]) :
                    off[k] + j <= off[m + 1] /\ f[m][off[k] + j] = s[k][j]
              /\ \A i \in 1 .. Len(f[m]) :
                    \E k \in 1 .. m : \E j \in 1 .. Len(s[k]) : i = off[k] + j
<1>3. off \in [1 .. Len(s) + 1 -> Nat]
  <2>1. ASSUME NEW k \in 1 .. Len(s) + 1 PROVE (IF k = 1 THEN 0 ELSE Len(f[k - 1])) \in Nat
    BY <1>2, <1>0
  <2> QED BY <2>1
<1>4. off[1] = 0
  BY <1>0
<1>5. \A k \in 1 .. Len(s) : off[k + 1] = Len(f[k])
  BY <1>0
<1> HIDE DEF off
<1>6. \A k \in 2 .. Len(s) : f[k] = f[k - 1] \o s[k] /\ Len(f[k]) = Len(f[k - 1]) + Len(s[k])
  <2> SUFFICES ASSUME NEW k \in 2 .. Len(s) PROVE Len(f[k]) = Len(f[k - 1]) + Len(s[k])
    BY <1>1
  <2>1. k - 1 \in 1 .. Len(s) /\ k \in 1 .. Len(s)
    BY <1>0
  <2>2. f[k - 1] \in Seq(S) /\ s[k] \in Seq(S) /\ f[k] = f[k - 1] \o s[k]
    BY <2>1, <1>0, <1>1
  <2> QED BY <2>2, ConcatProperties
<1>7. \A k \in 1 .. Len(s) : off[k + 1] = off[k] + Len(s[k])
  <2> SUFFICES ASSUME NEW k \in 1 .. Len(s) PROVE off[k + 1] = off[k] + Len(s[k])
    OBVIOUS
  <2>1. CASE k = 1
    BY <2>1, <1>4, <1>5, <1>1, <1>0
  <2>2. CASE k # 1
    <3>1. k \in 2 .. Len(s) /\ k - 1 \in 1 .. Len(s) /\ (k - 1) + 1 = k
      BY <2>2, <1>0
    <3>2. off[k] = Len(f[k - 1])
      BY <3>1, <1>5
    <3>3. off[k + 1] = Len(f[k])
      BY <1>5
    <3> QED BY <3>1, <3>2, <3>3, <1>6
  <2> QED BY <2>1, <2>2
<1>8. \A m \in 1 .. Len(s) : Placed(m)
  <2> DEFINE T == {m \in Nat : m \in 1 .. Len(s) => Placed(m)}
  <2>1. 0 \in T
    OBVIOUS
  <2>2. Placed(1)
    <3>1. off[2] = Len(s[1]) /\ off[1] = 0 /\ f[1] = s[1]
      BY <1>1, <1>4, <1>7, <1>0
    <3> QED BY <3>1, <1>0
  <2>3. ASSUME NEW m \in 2 .. Len(s), Placed(m - 1) PROVE Placed(m)
    <3>1. m - 1 \in 1 .. Len(s) /\ m \in 1 .. Len(s) /\ (m - 1) + 1 = m
      BY <1>0
    <3>2. off[m + 1] = off[m] + Len(s[m]) /\ off[m] = Len(f[m - 1]) /\ off[m + 1] = Len(f[m])
      BY <3>1, <1>5, <1>7
    <3>3. /\ off[m] \in Nat /\ Len(s[m]) \in Nat /\ m \in Nat
          /\ \A k \in 1 .. m + 1 : off[k] \in Nat
      <4>1. \A k \in 1 .. m + 1 : k \in 1 .. Len(s) + 1
        BY <1>0, <3>1
      <4>2. \A k \in 1 .. m + 1 : off[k] \in Nat
        BY <4>1, <1>3
      <4> QED BY <4>2, <3>1, <1>0
    <3>4. ASSUME NEW k \in 1 .. m + 1 PROVE off[k] <= off[m + 1]
      <4>1. CASE k = m + 1
        BY <4>1, <3>3
      <4>2. CASE k # m + 1
        <5>1. k \in 1 .. (m - 1) + 1 /\ m + 1 \in 1 .. m + 1
          BY <4>2, <3>3
        <5>2. off[k] <= off[m]
          BY <5>1, <2>3, <3>1
        <5>3. off[k] \in Nat /\ off[m + 1] \in Nat
          BY <5>1, <3>3
        <5> HIDE DEF Placed
        <5>4. off[k] <= off[m] + Len(s[m])
          BY <5>2, <5>3, <3>3
        <5> QED BY <5>4, <3>2, Zenon
      <4> QED BY <4>1, <4>2
    <3>5. f[m - 1] \in Seq(S) /\ s[m] \in Seq(S) /\ f[m] = f[m - 1] \o s[m]
      BY <1>1, <1>0, <3>1
    <3>6. \A i \in 1 .. Len(f[m]) :
             f[m][i] = IF i <= Len(f[m - 1]) THEN f[m - 1][i] ELSE s[m][i - Len(f[m - 1])]
      BY <3>5, ConcatProperties
    <3>7. ASSUME NEW k \in 1 .. m, NEW j \in 1 .. Len(s[k])
          PROVE  off[k] + j <= off[m + 1] /\ f[m][off[k] + j] = s[k][j]
      <4>0. off[k] \in Nat /\ k \in 1 .. Len(s) /\ Len(s[k]) \in Nat
        BY <3>3, <1>0
      <4>1. CASE k = m
        <5>1. off[m] + j \in 1 .. off[m] + Len(s[m]) /\ ~(off[m] + j <= off[m])
              /\ (off[m] + j) - off[m] = j
          <6> HIDE DEF Placed
          <6> QED BY <4>1, <4>0
        <5>2. f[m][off[m] + j] = s[m][(off[m] + j) - off[m]]
          BY <5>1, <3>6, <3>2
        <5> QED BY <5>1, <5>2, <4>1, <3>2
      <4>2. CASE k # m
        <5>1. k \in 1 .. m - 1
          BY <4>2
        <5>2. off[k] + j <= off[m] /\ f[m - 1][off[k] + j] = s[k][j]
          BY <5>1, <2>3, <3>1
        <5>3. off[k] + j \in 1 .. off[m] + Len(s[m])
          <6> HIDE DEF Placed
          <6> QED BY <5>2, <4>0, <3>3
        <5>4. off[k] + j <= off[m + 1]
          <6> HIDE DEF Placed
          <6>1. off[k] + j <= off[m] + Len(s[m])
            BY <5>3, <3>3
          <6> QED BY <6>1, <3>2, Zenon
        <5>5. f[m][off[k] + j] = f[m - 1][off[k] + j]
          <6>1. off[k] + j \in 1 .. Len(f[m]) /\ off[k] + j <= Len(f[m - 1])
            BY <5>2, <5>3, <3>2
          <6> HIDE DEF Placed
          <6> QED BY <6>1, <3>6
        <5> QED BY <5>2, <5>4, <5>5
      <4> QED BY <4>1, <4>2
    <3>8. ASSUME NEW i \in 1 .. Len(f[m])
          PROVE  \E k \in 1 .. m : \E j \in 1 .. Len(s[k]) : i = off[k] + j
      <4>1. CASE i <= Len(f[m - 1])
        <5>1. i \in 1 .. Len(f[m - 1])
          BY <4>1, <3>2, <3>3
        <5>2. PICK k \in 1 .. m - 1 : \E j \in 1 .. Len(s[k]) : i = off[k] + j
          BY <5>1, <2>3
        <5> QED BY <5>2
      <4>2. CASE ~(i <= Len(f[m - 1]))
        <5>0. i \in 1 .. off[m] + Len(s[m]) /\ ~(i <= off[m])
          BY <4>2, <3>2
        <5>1. i - off[m] \in 1 .. Len(s[m]) /\ i = off[m] + (i - off[m]) /\ m \in 1 .. m
          <6> HIDE DEF Placed
          <6> QED BY <5>0, <3>3, <3>1
        <5> QED BY <5>1
      <4> QED BY <4>1, <4>2
    <3> QED BY <3>4, <3>7, <3>8
  <2>4. ASSUME NEW m \in Nat, m \in T PROVE m + 1 \in T
    <3> SUFFICES ASSUME m + 1 \in 1 .. Len(s) PROVE Placed(m + 1)
      OBVIOUS
    <3>1. CASE m = 0
      BY <3>1, <2>2
    <3>2. CASE m # 0
      <4> HIDE DEF Placed
      <4>1. m \in 1 .. Len(s) /\ m + 1 \in 2 .. Len(s) /\ (m + 1) - 1 = m
        BY <3>2, <1>0
      <4>2. Placed((m + 1) - 1)
        BY <4>1, <2>4
      <4> QED BY <4>1, <4>2, <2>3
    <3> QED BY <3>1, <3>2
  <2>5. Nat \subseteq T
    <3> HIDE DEF T
    <3> QED BY <2>1, <2>4, Induct
  <2> HIDE DEF Placed
  <2> QED BY <2>5
<1>9. Placed(Len(s)) /\ Len(s) + 1 \in 1 .. Len(s) + 1 /\ Len(s) \in 1 .. Len(s)
  <2> HIDE DEF Placed
  <2> QED BY <1>8, <1>0
<1>10. \A k \in 1 .. Len(s) : \A l \in k .. Len(s) + 1 : off[k] <= off[l]
  <2> SUFFICES ASSUME NEW k \in 1 .. Len(s), NEW l \in k .. Len(s) + 1 PROVE off[k] <= off[l]
    OBVIOUS
  <2>1. CASE l = 1
    BY <2>1, <1>3, <1>0
  <2>2. CASE l # 1
    <3>1. l - 1 \in 1 .. Len(s) /\ (l - 1) + 1 = l /\ k \in 1 .. (l - 1) + 1
      BY <2>2, <1>0
    <3>2. Placed(l - 1)
      BY <3>1, <1>8
    <3> QED BY <3>1, <3>2
  <2> QED BY <2>1, <2>2
<1>11. off[Len(s) + 1] = Len(FlattenSeq(s))
  <2> HIDE DEF Placed
  <2> QED BY <1>1, <1>5, <1>9
<1>12. FlattenSeq(s) \in Seq(S)
  BY <1>1, <1>2, <1>9
<1>13. \A k \in 1 .. Len(s) : \A j \in 1 .. Len(s[k]) : FlattenSeq(s)[off[k] + j] = s[k][j]
  BY <1>9, <1>1
<1>14. \A i \in 1 .. Len(FlattenSeq(s)) :
            \E k \in 1 .. Len(s) : \E j \in 1 .. Len(s[k]) : i = off[k] + j
  BY <1>9, <1>1
<1>15. Offsets(s, off)
  BY <1>3, <1>4, <1>7, <1>10, <1>11, <1>13, <1>14 DEF Offsets
<1> QED BY <1>12, <1>15

\* One sequence alone stays what it is.
LEMMA FlattenOne ==
    ASSUME NEW S, NEW x \in Seq(S)
    PROVE  FlattenSeq(<<x>>) = x
<1>1. <<x>> \in Seq(Seq(S)) /\ <<x>> # <<>> /\ Len(<<x>>) = 1 /\ <<x>>[1] = x
  OBVIOUS
<1>2. PICK f \in [1 .. Len(<<x>>) -> Seq(S)] : f[1] = <<x>>[1] /\ FlattenSeq(<<x>>) = f[Len(<<x>>)]
  BY <1>1, Flattening
<1> QED BY <1>1, <1>2, Zenon

\* Thousands, as every amount groups them.
Grouped(runs) ==
    /\ runs \in Seq(Run) \ {<<>>} /\ runs[1] # <<>>
    /\ \A j \in 2 .. Len(runs) : Len(runs[j]) = 3

\* Digits of any runs are a run.
LEMMA DigitsType ==
    ASSUME NEW runs \in Seq(Run) \ {<<>>}
    PROVE  DigitsOf(runs) \in Run /\ Len(DigitsOf(runs)) \in Nat
<1>1. FlattenSeq(runs) \in Seq(0 .. 9)
  BY Flattened DEF Run
<1> QED BY <1>1, LenProperties DEF DigitsOf, Run

\* How many digits thousands have, and that they begin as their first group does.
LEMMA GroupedDigits ==
    ASSUME NEW runs, Grouped(runs)
    PROVE  /\ DigitsOf(runs) \in Run
           /\ Len(runs[1]) \in Nat \ {0} /\ Len(runs) \in Nat \ {0}
           /\ Len(DigitsOf(runs)) = Len(runs[1]) + 3 * (Len(runs) - 1)
           /\ DigitsOf(runs)[1] = runs[1][1]
<1>1. runs \in Seq(Seq(0 .. 9)) /\ runs # <<>> /\ Len(runs) \in Nat \ {0}
  BY EmptySeq DEF Grouped, Run
<1>2. runs[1] \in Seq(0 .. 9) /\ runs[1] # <<>> /\ Len(runs[1]) \in Nat \ {0}
  BY <1>1, EmptySeq, ElementOfSeq DEF Grouped, Run
<1>3. PICK off : Offsets(runs, off)
  BY <1>1, Flattened
<1>4. FlattenSeq(runs)[1] = runs[1][1]
  <2>1. 1 \in 1 .. Len(runs) /\ 1 \in 1 .. Len(runs[1])
    BY <1>1, <1>2
  <2>2. FlattenSeq(runs)[off[1] + 1] = runs[1][1]
    BY <2>1, <1>3 DEF Offsets
  <2> QED BY <2>2, <1>3 DEF Offsets
<1>5. \A k \in 1 .. Len(runs) : off[k + 1] = Len(runs[1]) + 3 * (k - 1)
  <2> DEFINE P(k) == off[k + 1] = Len(runs[1]) + 3 * (k - 1)
             T == {m \in Nat : \A k \in 1 .. Len(runs) : k <= m => P(k)}
  <2>1. P(1)
    <3>1. off[1 + 1] = off[1] + Len(runs[1])
      BY <1>1, <1>3 DEF Offsets
    <3> QED BY <3>1, <1>2, <1>3 DEF Offsets
  <2>2. ASSUME NEW k \in 2 .. Len(runs), P(k - 1) PROVE P(k)
    <3>1. k \in 1 .. Len(runs) /\ (k - 1) + 1 = k /\ k \in Nat
      BY <1>1
    <3>2. off[k + 1] = off[k] + Len(runs[k]) /\ Len(runs[k]) = 3
      BY <3>1, <1>3 DEF Grouped, Offsets
    <3>3. off[k] = Len(runs[1]) + 3 * ((k - 1) - 1)
      BY <2>2, <3>1
    <3>4. \A a, b \in Nat : a + 3 * ((b - 1) - 1) + 3 = a + 3 * (b - 1)
      OBVIOUS
    <3>5. Len(runs[1]) + 3 * ((k - 1) - 1) + 3 = Len(runs[1]) + 3 * (k - 1)
      BY <1>2, <3>1, <3>4
    <3> QED BY <3>2, <3>3, <3>5
  <2> HIDE DEF P
  <2>3. ASSUME NEW m \in Nat, m \in T, NEW k \in 1 .. Len(runs), k <= m + 1 PROVE P(k)
    <3>1. CASE k = 1
      BY <3>1, <2>1
    <3>2. CASE k # 1
      <4>1. k \in 2 .. Len(runs) /\ k - 1 \in 1 .. Len(runs) /\ k - 1 <= m
        BY <2>3, <3>2, <1>1
      <4> QED BY <4>1, <2>2, <2>3
    <3> QED BY <3>1, <3>2
  <2>4. 0 \in T
    OBVIOUS
  <2>5. ASSUME NEW m \in Nat, m \in T PROVE m + 1 \in T
    <3>1. \A k \in 1 .. Len(runs) : k <= m + 1 => P(k)
      BY <2>3, <2>5
    <3> QED BY <3>1
  <2>6. Nat \subseteq T
    <3> HIDE DEF T
    <3> QED BY <2>4, <2>5, Induct
  <2>7. Len(runs) \in T
    <3> HIDE DEF T
    <3> QED BY <2>6, <1>1
  <2>8. \A k \in 1 .. Len(runs) : P(k)
    BY <2>7, <1>1
  <2> QED BY <2>8 DEF P
<1>6. Len(FlattenSeq(runs)) = Len(runs[1]) + 3 * (Len(runs) - 1)
  <2>1. Len(runs) \in 1 .. Len(runs)
    BY <1>1
  <2> QED BY <2>1, <1>3, <1>5 DEF Offsets
<1> QED BY <1>1, <1>2, <1>4, <1>6, DigitsType DEF DigitsOf, Run, Grouped

-----------------------------------------------------------------------------
(* What is written, and the number it is                                    *)

\* What is written of an amount: its groups, in one run or in several, and the
\* decimals behind them.
GroupRuns(a, s) == IF s.sep = "none" THEN <<DigitsOf(a.groups)>> ELSE a.groups

\* Written in one run or in several, the digits of an amount are the same.
LEMMA GroupsOfAmount ==
    ASSUME NEW a \in Amounts, NEW s \in Styles
    PROVE  /\ Grouped(a.groups)
           /\ GroupRuns(a, s) \in Seq(Run) \ {<<>>} /\ Len(GroupRuns(a, s)) \in Nat \ {0}
           /\ DigitsOf(GroupRuns(a, s)) = DigitsOf(a.groups)
           /\ s.sep = "none" => Len(GroupRuns(a, s)) = 1
           /\ s.sep # "none" => GroupRuns(a, s) = a.groups
<1>1. Grouped(a.groups)
  BY AmountsAssumption DEF Grouped
<1>2. DigitsOf(a.groups) \in Run /\ a.groups \in Seq(Run) \ {<<>>}
  BY <1>1, GroupedDigits DEF Grouped
<1>3. CASE s.sep = "none"
  <2>1. GroupRuns(a, s) = <<DigitsOf(a.groups)>>
    BY <1>3 DEF GroupRuns
  <2>2. GroupRuns(a, s) \in Seq(Run) \ {<<>>} /\ Len(GroupRuns(a, s)) = 1
    BY <2>1, <1>2
  <2>3. DigitsOf(<<DigitsOf(a.groups)>>) = DigitsOf(a.groups)
    BY <1>2, FlattenOne DEF DigitsOf, Run
  <2> QED BY <1>1, <1>3, <2>1, <2>2, <2>3
<1>4. CASE s.sep # "none"
  <2>1. GroupRuns(a, s) = a.groups
    BY <1>4 DEF GroupRuns
  <2>2. Len(a.groups) \in Nat \ {0}
    BY <1>1, GroupedDigits
  <2> QED BY <1>1, <1>2, <1>4, <2>1, <2>2
<1> QED BY <1>3, <1>4

\* An amount is written with a sign exactly when it is negative.
LEMMA WrittenSign ==
    ASSUME NEW a \in Amounts, NEW s \in Styles
    PROVE  /\ Write(a, s).sign \in Signs /\ Write(a, s).currency \in BOOLEAN
           /\ (Write(a, s).sign # "none") = a.negative
BY AmountsAssumption DEF Write, Signs

\* Without decimals, the groups are what is written.
LEMMA WrittenWhole ==
    ASSUME NEW a \in Amounts, NEW s \in Styles, a.decimals = <<>>
    PROVE  /\ Write(a, s).runs = GroupRuns(a, s)
           /\ Write(a, s).marks = [i \in 1 .. Len(GroupRuns(a, s)) - 1 |-> s.sep]
<1> DEFINE groups == GroupRuns(a, s)
<1>1. Write(a, s).runs = groups
  BY DEF Write, GroupRuns, DigitsOf
<1>2. Write(a, s).marks = [i \in 1 .. Len(groups) - 1 |-> IF i < Len(groups) THEN s.sep ELSE s.point]
  BY DEF Write, GroupRuns, DigitsOf
<1>3. Len(groups) \in Nat
  BY GroupsOfAmount
<1> HIDE DEF groups
<1>4. Write(a, s).marks = [i \in 1 .. Len(groups) - 1 |-> s.sep]
  BY <1>2, <1>3
<1> QED BY <1>1, <1>4 DEF groups

\* With decimals, they stand behind the groups and a point.
LEMMA WrittenPart ==
    ASSUME NEW a \in Amounts, NEW s \in Styles, a.decimals # <<>>
    PROVE  /\ Write(a, s).runs = Append(GroupRuns(a, s), a.decimals)
           /\ DOMAIN Write(a, s).marks = 1 .. Len(GroupRuns(a, s))
           /\ \A i \in 1 .. Len(GroupRuns(a, s)) - 1 : Write(a, s).marks[i] = s.sep
           /\ Write(a, s).marks[Len(GroupRuns(a, s))] = s.point
<1> DEFINE groups == GroupRuns(a, s)
<1>1. Write(a, s).runs = Append(groups, a.decimals)
  BY DEF Write, GroupRuns, DigitsOf
<1>2. Write(a, s).marks =
        [i \in 1 .. Len(Append(groups, a.decimals)) - 1 |-> IF i < Len(groups) THEN s.sep ELSE s.point]
  BY DEF Write, GroupRuns, DigitsOf
<1>3. groups \in Seq(Run) /\ Len(groups) \in Nat \ {0} /\ a.decimals \in Run
  BY GroupsOfAmount, AmountsAssumption
<1> HIDE DEF groups
<1>4. Len(Append(groups, a.decimals)) = Len(groups) + 1
  BY <1>3, AppendProperties
<1>5. Write(a, s).marks = [i \in 1 .. Len(groups) |-> IF i < Len(groups) THEN s.sep ELSE s.point]
  BY <1>2, <1>3, <1>4
<1>6. DOMAIN Write(a, s).marks = 1 .. Len(groups)
  BY <1>5
<1>7. \A i \in 1 .. Len(groups) - 1 : Write(a, s).marks[i] = s.sep
  BY <1>3, <1>5
<1>8. Write(a, s).marks[Len(groups)] = s.point
  BY <1>3, <1>5
<1> QED BY <1>1, <1>6, <1>7, <1>8 DEF groups

\* A sequence of one element.
LEMMA SubSeqOne ==
    ASSUME NEW S, NEW seq \in Seq(S), NEW n \in 1 .. Len(seq)
    PROVE  SubSeq(seq, n, n) = <<seq[n]>>
<1>0. Len(seq) \in Nat /\ n \in Int /\ n + 1 \in Int /\ n \in n .. Len(seq) /\ n < n + 1
  BY LenProperties
<1>1. SubSeq(seq, n, n) = <<seq[n]>> \o SubSeq(seq, n + 1, n)
  BY <1>0, SubSeqRecursiveFirst
<1>2. SubSeq(seq, n + 1, n) = <<>>
  BY <1>0, SubSeqEmpty
<1>3. <<seq[n]>> \in Seq(S)
  BY ElementOfSeq
<1>4. <<seq[n]>> \o <<>> = <<seq[n]>>
  BY <1>3, ConcatEmptySeq
<1> QED BY <1>1, <1>2, <1>4

\* Behind the last mark stands the last run.
LEMMA RunBehind ==
    ASSUME NEW w, w.runs \in Seq(Run), NEW i \in 1 .. Len(w.runs), i + 1 = Len(w.runs)
    PROVE  Behind(w, i) = w.runs[Len(w.runs)]
<1>1. SubSeq(w.runs, i + 1, Len(w.runs)) = <<w.runs[Len(w.runs)]>>
  BY SubSeqOne, LenProperties
<1>2. w.runs[Len(w.runs)] \in Seq(0 .. 9)
  BY ElementOfSeq, LenProperties DEF Run
<1> QED BY <1>1, <1>2, FlattenOne DEF Behind, DigitsOf

\* _normalize_number reads a whole amount as it was meant: grouped by commas or by
\* dots, its marks are no points.
LEMMA ReadsWhole ==
    ASSUME NEW a \in Amounts, NEW s \in Styles, a.decimals = <<>>,
           Write(a, s).sign # "trailing", Len(DigitsOf(Write(a, s).runs)) <= 16,
           Cardinality(Separators(Write(a, s))) = 1 => ~Write(a, s).currency
    PROVE  Normalized(Write(a, s)) = Meaning(a)
<1> DEFINE w == Write(a, s)
           groups == GroupRuns(a, s)
           n == Len(groups)
<1>1. /\ w.runs = groups /\ w.marks = [i \in 1 .. n - 1 |-> s.sep]
      /\ w.sign \in Signs /\ (w.sign # "none") = a.negative
  BY WrittenWhole, WrittenSign
<1>2. /\ groups \in Seq(Run) /\ n \in Nat \ {0} /\ DigitsOf(groups) = DigitsOf(a.groups)
      /\ s.sep = "none" => n = 1
      /\ s.sep # "none" => groups = a.groups
      /\ Grouped(a.groups)
  BY GroupsOfAmount
<1>3. s.sep \in {"space", "comma", "dot", "none"}
  BY AmountsAssumption DEF Marks
<1>4. /\ w.sign # "trailing" /\ Len(DigitsOf(w.runs)) <= 16
      /\ Cardinality(Separators(w)) = 1 => ~w.currency
  OBVIOUS
<1> HIDE DEF w, groups, n
<1>5. \A mark : Marked(w, mark) = IF s.sep = mark THEN 1 .. n - 1 ELSE {}
  BY <1>1 DEF Marked
<1>6. Separators(w) = IF s.sep \in {"comma", "dot"} THEN 1 .. n - 1 ELSE {}
  BY <1>5 DEF Separators
<1>7. Marked(w, "comma") = {} \/ Marked(w, "dot") = {}
  BY <1>5
<1>8. Cardinality(Separators(w)) = 1 => SeparatesThousands(w)
  <2> SUFFICES ASSUME Cardinality(Separators(w)) = 1 PROVE SeparatesThousands(w)
    OBVIOUS
  <2>1. s.sep \in {"comma", "dot"}
    BY <1>6, FS_EmptySet
  <2>2. Separators(w) = 1 .. n - 1
    BY <2>1, <1>6
  <2>3. n = 2
    <3>1. 1 \in Int /\ n - 1 \in Int
      BY <1>2
    <3>2. Cardinality(1 .. n - 1) = IF 1 > n - 1 THEN 0 ELSE (n - 1) - 1 + 1
      BY <3>1, FS_Interval, Zenon
    <3> QED BY <3>2, <2>2, <1>2
  <2>4. Separators(w) = {1}
    BY <2>2, <2>3
  <2>5. groups = a.groups /\ Len(groups[2]) = 3
    <3>1. s.sep # "none"
      BY <2>1
    <3>2. groups = a.groups
      BY <3>1, <1>2
    <3> QED BY <3>2, <2>3, <1>2 DEF Grouped, n
  <2>6. Behind(w, 1) = groups[2]
    <3>1. w.runs = groups /\ groups \in Seq(Run) /\ Len(groups) = 2
      BY <1>1, <1>2, <2>3 DEF n
    <3>2. 1 \in 1 .. Len(w.runs) /\ 1 + 1 = Len(w.runs) /\ w.runs \in Seq(Run)
      BY <3>1
    <3>3. Behind(w, 1) = w.runs[Len(w.runs)]
      BY <3>2, RunBehind
    <3> QED BY <3>1, <3>3
  <2> QED BY <2>4, <2>5, <2>6, <1>4 DEF SeparatesThousands
<1>9. Points(w) = {}
  <2>1. ~(Marked(w, "comma") # {} /\ Marked(w, "dot") # {})
    BY <1>7
  <2>2. ~(Cardinality(Separators(w)) = 1 /\ ~SeparatesThousands(w))
    BY <1>8
  <2> QED BY <2>1, <2>2 DEF Points
<1>10. Normalized(w) = Number(w, {}, a.negative)
  BY <1>1, <1>4, <1>9 DEF Normalized
<1>11. Number(w, {}, a.negative) = [negative |-> a.negative, whole |-> DigitsOf(w.runs), part |-> <<>>]
  BY <1>4, FS_EmptySet DEF Number
<1> QED BY <1>1, <1>2, <1>10, <1>11 DEF Meaning, w

\* So it does with decimals: the mark before them is the only point.
LEMMA ReadsPart ==
    ASSUME NEW a \in Amounts, NEW s \in Styles, a.decimals # <<>>,
           Write(a, s).sign # "trailing", Len(DigitsOf(Write(a, s).runs)) <= 16,
           Cardinality(Separators(Write(a, s))) = 1 => Len(a.decimals) # 3
    PROVE  Normalized(Write(a, s)) = Meaning(a)
<1> DEFINE w == Write(a, s)
           groups == GroupRuns(a, s)
           n == Len(groups)
<1>1. /\ w.runs = Append(groups, a.decimals) /\ DOMAIN w.marks = 1 .. n
      /\ \A i \in 1 .. n - 1 : w.marks[i] = s.sep
      /\ w.marks[n] = s.point
      /\ w.sign \in Signs /\ (w.sign # "none") = a.negative
  BY WrittenPart, WrittenSign
<1>2. /\ groups \in Seq(Run) /\ n \in Nat \ {0} /\ DigitsOf(groups) = DigitsOf(a.groups)
      /\ a.decimals \in Run
  BY GroupsOfAmount, AmountsAssumption
<1>3. s.sep \in {"space", "comma", "dot", "none"} /\ s.point \in {"comma", "dot"} /\ s.sep # s.point
  BY AmountsAssumption DEF Marks
<1>4. /\ w.sign # "trailing" /\ Len(DigitsOf(w.runs)) <= 16
      /\ Cardinality(Separators(w)) = 1 => Len(a.decimals) # 3
  OBVIOUS
<1> HIDE DEF w, groups, n
<1>5. Marked(w, s.point) = {n}
  BY <1>1, <1>2, <1>3 DEF Marked
<1>6. \A mark : mark # s.point => Marked(w, mark) = IF s.sep = mark THEN 1 .. n - 1 ELSE {}
  BY <1>1, <1>2, <1>3 DEF Marked
<1>7. n \in Separators(w) /\ Separators(w) \subseteq 1 .. n
  BY <1>1, <1>2, <1>3, <1>5 DEF Separators, Marked
<1>8. Len(w.runs) = n + 1 /\ w.runs \in Seq(Run) /\ w.runs[n + 1] = a.decimals
  BY <1>1, <1>2, AppendProperties DEF n
<1>9. Behind(w, n) = a.decimals
  BY <1>2, <1>8, RunBehind
<1>10. Before(w, n) = DigitsOf(a.groups)
  <2>1. SubSeq(Append(groups, a.decimals), 1, n) = groups
    BY <1>2 DEF n
  <2> QED BY <2>1, <1>1, <1>2 DEF Before
<1>11. Points(w) = {n}
  <2>1. CASE Marked(w, "comma") # {} /\ Marked(w, "dot") # {}
    <3>1. Points(w) = LastKind(w)
      BY <2>1 DEF Points
    <3> DEFINE last == CHOOSE i \in Separators(w) : \A j \in Separators(w) : j <= i
    <3>2. n \in Separators(w) /\ \A j \in Separators(w) : j <= n
      BY <1>7, <1>2
    <3>3. last \in Separators(w) /\ \A j \in Separators(w) : j <= last
      BY <3>2
    <3>4. last = n
      <4> HIDE DEF last
      <4> QED BY <3>2, <3>3, <1>7, <1>2
    <3>5. LastKind(w) = Marked(w, s.point)
      <4>1. LastKind(w) = IF w.marks[last] = "dot" THEN Marked(w, "dot") ELSE Marked(w, "comma")
        BY DEF LastKind
      <4> HIDE DEF last
      <4> QED BY <4>1, <3>4, <1>1, <1>3
    <3> QED BY <3>1, <3>5, <1>5
  <2>2. CASE ~(Marked(w, "comma") # {} /\ Marked(w, "dot") # {})
    <3>1. Separators(w) = {n}
      <4>1. CASE s.point = "dot"
        BY <4>1, <1>5, <2>2 DEF Separators
      <4>2. CASE s.point = "comma"
        BY <4>2, <1>5, <2>2 DEF Separators
      <4> QED BY <4>1, <4>2, <1>3
    <3>2. Cardinality(Separators(w)) = 1
      BY <3>1, FS_Singleton
    <3>3. ~SeparatesThousands(w)
      BY <3>1, <3>2, <1>4, <1>9 DEF SeparatesThousands
    <3> QED BY <2>2, <3>1, <3>2, <3>3 DEF Points
  <2> QED BY <2>1, <2>2
<1>12. Normalized(w) = Number(w, {n}, a.negative)
  BY <1>1, <1>4, <1>11 DEF Normalized
<1>13. Number(w, {n}, a.negative) =
         [negative |-> a.negative, whole |-> Before(w, n), part |-> Behind(w, n)]
  <2>1. Cardinality({n}) = 1 /\ {n} # {}
    BY FS_Singleton
  <2>2. (CHOOSE i \in {n} : TRUE) = n
    OBVIOUS
  <2> QED BY <1>4, <2>1, <2>2 DEF Number
<1> QED BY <1>9, <1>10, <1>12, <1>13 DEF Meaning, w

\* An amount in a cell of its own is read as it was meant.
LEMMA CellIsRead ==
    ASSUME NEW k \in DOMAIN row, NEW a \in Amounts, NEW s \in Styles,
           printed[k] = a, row[k] = Write(a, s), Legible(k)
    PROVE  Normalized(row[k]) = Meaning(a)
<1>1. /\ Write(a, s).sign # "trailing" /\ Len(DigitsOf(Write(a, s).runs)) <= 16
      /\ Cardinality(Separators(Write(a, s))) = 1 =>
            IF a.decimals = <<>> THEN ~Write(a, s).currency ELSE Len(a.decimals) # 3
  BY DEF Legible
<1>2. CASE a.decimals = <<>>
  BY <1>1, <1>2, ReadsWhole
<1>3. CASE a.decimals # <<>>
  BY <1>1, <1>3, ReadsPart
<1> QED BY <1>2, <1>3

-----------------------------------------------------------------------------
(* A row of cells                                                           *)

\* A row of n amounts, all written in style s.
RowOf(n, s) ==
    /\ n \in Nat \ {0} /\ s \in Styles
    /\ printed \in [1 .. n -> Amounts]
    /\ row = [i \in 1 .. n |-> Write(printed[i], s)]

\* What an amount means is a number.
LEMMA MeaningIsNumber ==
    ASSUME NEW a \in Amounts
    PROVE  Meaning(a) # Unread
<1>1. Grouped(a.groups) /\ a.negative \in BOOLEAN /\ a.decimals \in Run
  BY AmountsAssumption DEF Grouped
<1>2. DigitsOf(a.groups) \in Run
  BY <1>1, GroupedDigits
<1>3. Meaning(a) \in [negative : BOOLEAN, whole : Run, part : Run]
  BY <1>1, <1>2 DEF Meaning
<1> QED BY <1>3, AmountsAssumption

\* Min is the least element.
LEMMA LeastIsMin ==
    ASSUME NEW S \in SUBSET Int, NEW k \in S, \A i \in S : k <= i
    PROVE  Min(S) = k
<1>1. \E x \in S : \A y \in S : x <= y
  OBVIOUS
<1>2. Min(S) \in S /\ \A y \in S : Min(S) <= y
  BY <1>1 DEF Min
<1>3. Min(S) \in Int /\ k \in Int /\ k <= Min(S) /\ Min(S) <= k
  BY <1>2
<1> QED BY <1>3

\* _extract_first_numeric_cell takes the first column that is an amount.
LEMMA CellsAreRead ==
    ASSUME NEW n, NEW s, RowOf(n, s), NEW k \in DOMAIN row, FirstInCells(k)
    PROVE  FirstCell = Meaning(printed[k])
<1> DEFINE usable == {i \in DOMAIN row : ~SmallCell(row[i]) /\ Tells(Normalized(row[i]))}
<1>1. /\ n \in Nat \ {0} /\ s \in Styles /\ DOMAIN row = 1 .. n
      /\ \A i \in 1 .. n : printed[i] \in Amounts /\ row[i] = Write(printed[i], s)
  BY DEF RowOf
<1>2. \A i \in 1 .. n : Legible(i) => Normalized(row[i]) = Meaning(printed[i])
  BY <1>1, CellIsRead
<1>3. k \in usable /\ Normalized(row[k]) = Meaning(printed[k])
  <2>1. Normalized(row[k]) = Meaning(printed[k])
    BY <1>1, <1>2 DEF FirstInCells
  <2>2. Meaning(printed[k]) # Unread
    BY <1>1, MeaningIsNumber
  <2> QED BY <2>1, <2>2, <1>1 DEF FirstInCells, Tells
<1>4. ASSUME NEW i \in usable PROVE k <= i
  <2> SUFFICES ASSUME i < k PROVE FALSE
    BY <1>1
  <2>1. i \in 1 .. k - 1 /\ i \in 1 .. n
    BY <1>1
  <2>2. SmallCell(row[i]) \/ (IsYear(Meaning(printed[i])) /\ Legible(i))
    BY <2>1 DEF FirstInCells
  <2>3. IsYear(Meaning(printed[i])) /\ Normalized(row[i]) = Meaning(printed[i])
    BY <2>1, <2>2, <1>2
  <2> QED BY <2>3 DEF Tells
<1>5. usable \in SUBSET Int
  BY <1>1
<1>6. FirstCell = IF usable = {} THEN Unread ELSE Normalized(row[Min(usable)])
  BY DEF FirstCell
<1> HIDE DEF usable
<1>7. Min(usable) = k
  BY <1>3, <1>4, <1>5, LeastIsMin
<1> QED BY <1>3, <1>6, <1>7

-----------------------------------------------------------------------------
(* Where the columns lie in a line                                          *)

\* An amount in a line: its thousands, with spaces only.
Spaced(w) ==
    /\ Grouped(w.runs)
    /\ w = [sign |-> w.sign, currency |-> w.currency, runs |-> w.runs,
            marks |-> [j \in 1 .. Len(w.runs) - 1 |-> "space"]]
    /\ w.sign \in Signs /\ w.currency \in BOOLEAN
    /\ w.runs[1][1] = 0 => Len(DigitsOf(w.runs)) = 1

\* A row without commas and dots has whole amounts, grouped by spaces if at all.
LEMMA SpacedRow ==
    ASSUME NEW n, NEW s, RowOf(n, s), SpaceGrouped, NEW k \in 1 .. n
    PROVE  /\ Spaced(row[k])
           /\ Meaning(printed[k]) = [negative |-> row[k].sign # "none",
                                     whole |-> DigitsOf(row[k].runs), part |-> <<>>]
<1> DEFINE a == printed[k]
           w == row[k]
           groups == GroupRuns(a, s)
<1>1. s \in Styles /\ a \in Amounts /\ w = Write(a, s) /\ k \in DOMAIN row
  BY DEF RowOf
<1>2. Separators(w) = {}
  BY <1>1 DEF SpaceGrouped
<1> HIDE DEF a, w
<1>3. /\ Grouped(a.groups)
      /\ groups \in Seq(Run) \ {<<>>} /\ Len(groups) \in Nat \ {0}
      /\ DigitsOf(groups) = DigitsOf(a.groups)
      /\ s.sep = "none" => Len(groups) = 1
      /\ s.sep # "none" => groups = a.groups
  BY <1>1, GroupsOfAmount
<1>4. s.sep \in {"space", "comma", "dot", "none"} /\ s.point \in {"comma", "dot"}
  BY <1>1, AmountsAssumption DEF Marks
<1> HIDE DEF groups
<1>5. a.decimals = <<>>
  <2> SUFFICES ASSUME a.decimals # <<>> PROVE FALSE
    OBVIOUS
  <2>1. Len(groups) \in DOMAIN w.marks /\ w.marks[Len(groups)] = s.point
    BY <1>1, <1>3, WrittenPart DEF groups
  <2> QED BY <1>2, <1>4, <2>1 DEF Separators, Marked
<1>6. w.runs = groups /\ w.marks = [i \in 1 .. Len(groups) - 1 |-> s.sep]
  BY <1>1, <1>5, WrittenWhole DEF groups
<1>7. Len(groups) > 1 => s.sep = "space"
  <2> SUFFICES ASSUME Len(groups) > 1, s.sep \in {"comma", "dot"} PROVE FALSE
    <3>1. ASSUME Len(groups) > 1, s.sep = "none" PROVE FALSE
      <4>1. Len(groups) = 1
        BY <1>3, <3>1, Zenon
      <4> QED BY <3>1, <4>1
    <3> QED BY <3>1, <1>4
  <2>1. 1 \in DOMAIN w.marks /\ w.marks[1] = s.sep
    BY <1>3, <1>6
  <2> QED BY <2>1, <1>2 DEF Separators, Marked
<1>8. w.marks = [j \in 1 .. Len(w.runs) - 1 |-> "space"]
  <2>1. CASE Len(groups) > 1
    BY <2>1, <1>6, <1>7
  <2>2. CASE ~(Len(groups) > 1)
    <3>1. 1 .. Len(groups) - 1 = {}
      BY <2>2, <1>3
    <3> QED BY <3>1, <1>6
  <2> QED BY <2>1, <2>2
<1>9. Grouped(groups) /\ groups[1][1] = a.groups[1][1]
  <2>1. CASE s.sep = "none"
    <3>1. groups = <<DigitsOf(a.groups)>>
      BY <2>1 DEF groups, GroupRuns
    <3>2. /\ DigitsOf(a.groups) \in Run /\ Len(DigitsOf(a.groups)) \in Nat \ {0}
          /\ DigitsOf(a.groups)[1] = a.groups[1][1]
      <4>1. /\ DigitsOf(a.groups) \in Run /\ DigitsOf(a.groups)[1] = a.groups[1][1]
            /\ Len(DigitsOf(a.groups)) = Len(a.groups[1]) + 3 * (Len(a.groups) - 1)
            /\ Len(a.groups[1]) \in Nat \ {0} /\ Len(a.groups) \in Nat \ {0}
        BY <1>3, GroupedDigits
      <4>2. \A x, y \in Nat \ {0} : x + 3 * (y - 1) \in Nat \ {0}
        OBVIOUS
      <4>3. Len(DigitsOf(a.groups)) \in Nat \ {0}
        BY <4>1, <4>2
      <4> QED BY <4>1, <4>3
    <3>3. DigitsOf(a.groups) # <<>>
      BY <3>2 DEF Run
    <3> QED BY <3>1, <3>2, <3>3, <1>3 DEF Grouped
  <2>2. CASE s.sep # "none"
    BY <2>2, <1>3
  <2> QED BY <2>1, <2>2
<1>10. groups[1][1] = 0 => Len(DigitsOf(groups)) = 1
  <2> SUFFICES ASSUME groups[1][1] = 0 PROVE Len(DigitsOf(groups)) = 1
    OBVIOUS
  <2>1. Len(a.groups) = 1 /\ Len(a.groups[1]) = 1
    BY <1>1, <1>9, AmountsAssumption
  <2>2. Len(DigitsOf(a.groups)) = Len(a.groups[1]) + 3 * (Len(a.groups) - 1)
    BY <1>3, GroupedDigits
  <2> QED BY <2>1, <2>2, <1>3
<1>11. w.sign \in Signs /\ w.currency \in BOOLEAN /\ (w.sign # "none") = a.negative
  BY <1>1, WrittenSign
<1>12. w = [sign |-> w.sign, currency |-> w.currency, runs |-> w.runs, marks |-> w.marks]
  BY <1>1 DEF Write
<1>13. Spaced(w)
  BY <1>6, <1>8, <1>9, <1>10, <1>11, <1>12 DEF Spaced
<1>14. Meaning(a) = [negative |-> w.sign # "none", whole |-> DigitsOf(w.runs), part |-> <<>>]
  BY <1>3, <1>5, <1>6, <1>11 DEF Meaning
<1> QED BY <1>13, <1>14 DEF a, w

\* Where column k lies in the line: behind the first off[k] runs.
LineAt(n, off) ==
    /\ off \in [1 .. n + 1 -> Nat] /\ off[1] = 0 /\ off[n + 1] = Len(Line)
    /\ DOMAIN Line = 1 .. Len(Line) /\ Len(Line) \in Nat
    /\ \A k \in 1 .. n : off[k + 1] = off[k] + Len(row[k].runs)
    /\ \A k \in 1 .. n : \A l \in k .. n + 1 : off[k] <= off[l]
    /\ \A k \in 1 .. n : \A j \in 1 .. Len(row[k].runs) : Line[off[k] + j] = Piece(k)[j]
    /\ \A i \in 1 .. Len(Line) :
            \E k \in 1 .. n : \E j \in 1 .. Len(row[k].runs) : i = off[k] + j

\* Every run of every column has its place in the line.
LEMMA LineOfRow ==
    ASSUME NEW n, NEW s, RowOf(n, s), SpaceGrouped
    PROVE  \E off : LineAt(n, off)
<1> DEFINE S == [digits : Run, sign : Signs, joins : BOOLEAN, currency : BOOLEAN]
           pieces == [k \in DOMAIN row |-> Piece(k)]
<1>1. n \in Nat \ {0} /\ DOMAIN row = 1 .. n
  BY DEF RowOf
<1>2. \A k \in 1 .. n : /\ row[k].runs \in Seq(Run) /\ Len(row[k].runs) \in Nat
                        /\ row[k].sign \in Signs /\ row[k].currency \in BOOLEAN
                        /\ DOMAIN row[k].runs = 1 .. Len(row[k].runs)
  BY SpacedRow, LenProperties DEF Spaced, Grouped
<1>3. ASSUME NEW k \in 1 .. n
      PROVE  Piece(k) \in Seq(S) /\ Len(Piece(k)) = Len(row[k].runs)
  <2>1. ASSUME NEW j \in 1 .. Len(row[k].runs)
        PROVE  [digits |-> row[k].runs[j],
                sign |-> IF j = 1 /\ row[k].sign \in {"minus", "parens"} THEN row[k].sign ELSE "none",
                joins |-> \/ j > 1
                          \/ /\ k > 1 /\ row[k].sign \in {"none", "trailing"} /\ ~row[k].currency
                             /\ row[k - 1].sign \notin {"parens", "trailing"},
                currency |-> j = 1 /\ row[k].currency] \in S
    <3>1. row[k].runs[j] \in Run
      BY <1>2, ElementOfSeq
    <3>2. "none" \in Signs /\ row[k].sign \in Signs
      BY <1>2 DEF Signs
    <3> QED BY <3>1, <3>2
  <2> HIDE DEF S
  <2>2. Piece(k) \in [1 .. Len(row[k].runs) -> S]
    BY <1>2, <2>1 DEF Piece
  <2> QED BY <2>2, <1>2
<1> HIDE DEF S
<1>4. pieces \in [1 .. n -> Seq(S)]
  BY <1>1, <1>3
<1>5. pieces \in Seq(Seq(S)) /\ Len(pieces) = n /\ pieces # <<>>
  BY <1>1, <1>4
<1>6. \A k \in 1 .. n : pieces[k] = Piece(k) /\ Len(pieces[k]) = Len(row[k].runs)
  BY <1>1, <1>3
<1>7. Line = FlattenSeq(pieces)
  BY DEF Line
<1> HIDE DEF pieces
<1>8. Line \in Seq(S)
  BY <1>5, <1>7, Flattened
<1>9. PICK off : Offsets(pieces, off)
  BY <1>5, Flattened
<1>10. DOMAIN Line = 1 .. Len(Line) /\ Len(Line) \in Nat
  BY <1>8, LenProperties
<1>11. /\ off \in [1 .. n + 1 -> Nat] /\ off[1] = 0 /\ off[n + 1] = Len(Line)
       /\ \A k \in 1 .. n : off[k + 1] = off[k] + Len(row[k].runs)
       /\ \A k \in 1 .. n : \A l \in k .. n + 1 : off[k] <= off[l]
  BY <1>5, <1>6, <1>7, <1>9 DEF Offsets
<1>12. \A k \in 1 .. n : \A j \in 1 .. Len(row[k].runs) : Line[off[k] + j] = Piece(k)[j]
  BY <1>5, <1>6, <1>7, <1>9 DEF Offsets
<1>13. ASSUME NEW i \in 1 .. Len(Line)
       PROVE  \E k \in 1 .. n : \E j \in 1 .. Len(row[k].runs) : i = off[k] + j
  <2>1. PICK k \in 1 .. Len(pieces) : \E j \in 1 .. Len(pieces[k]) : i = off[k] + j
    BY <1>7, <1>9 DEF Offsets
  <2>2. k \in 1 .. n /\ Len(pieces[k]) = Len(row[k].runs)
    BY <1>5, <1>6
  <2> QED BY <2>1, <2>2
<1>14. LineAt(n, off)
  BY <1>10, <1>11, <1>12, <1>13 DEF LineAt
<1> QED BY <1>14

-----------------------------------------------------------------------------
(* The matches in a line                                                    *)

\* A match ends where the next begins, or with the line.
LEMMA MatchIs ==
    ASSUME Len(Line) \in Nat, NEW starts \in SUBSET (1 .. Len(Line)), NEW i \in starts,
           NEW e \in i .. Len(Line), e = Len(Line) \/ e + 1 \in starts,
           \A j \in starts : j <= i \/ j > e
    PROVE  Match(starts, i) =
                [sign |-> Line[i].sign, currency |-> Line[i].currency,
                 runs |-> [j \in 1 .. e - i + 1 |-> Line[i + j - 1].digits],
                 marks |-> [j \in 1 .. e - i |-> "space"]]
<1> DEFINE later == {j \in starts \cup {Len(Line) + 1} : j > i}
           part == SubSeq(Line, i, e)
<1>1. Min(later) = e + 1
  <2>1. later \in SUBSET Int /\ e + 1 \in later
    <3>1. \A j \in starts : j \in Int
      OBVIOUS
    <3>2. e \in Int /\ i \in Int /\ i <= e /\ e + 1 \in starts \cup {Len(Line) + 1}
      OBVIOUS
    <3>3. later \subseteq Int
      <4>1. Len(Line) + 1 \in Int
        OBVIOUS
      <4>2. starts \cup {Len(Line) + 1} \subseteq Int
        BY <3>1, <4>1
      <4> QED BY <4>2
    <3>4. e + 1 > i
      BY <3>2
    <3> QED BY <3>2, <3>3, <3>4
  <2>2. ASSUME NEW j \in later PROVE e + 1 <= j
    <3>1. CASE j = Len(Line) + 1
      BY <3>1
    <3>2. CASE j \in starts
      <4>1. j \in Int /\ e \in Int /\ j > e
        BY <3>2
      <4> QED BY <4>1
    <3> QED BY <3>1, <3>2
  <2> HIDE DEF later
  <2> QED BY <2>1, <2>2, LeastIsMin
<1>2. Match(starts, i) =
        LET p == SubSeq(Line, i, Min(later) - 1)
        IN  [sign |-> p[1].sign, currency |-> p[1].currency,
             runs |-> [j \in DOMAIN p |-> p[j].digits],
             marks |-> [j \in 1 .. Len(p) - 1 |-> "space"]]
  BY DEF Match
<1> HIDE DEF later
<1>3. Min(later) - 1 = e
  BY <1>1
<1>4. Match(starts, i) =
        [sign |-> part[1].sign, currency |-> part[1].currency,
         runs |-> [j \in DOMAIN part |-> part[j].digits],
         marks |-> [j \in 1 .. Len(part) - 1 |-> "space"]]
  BY <1>2, <1>3, Zenon
<1>5. /\ Len(part) = e - i + 1 /\ DOMAIN part = 1 .. e - i + 1
      /\ \A j \in 1 .. e - i + 1 : part[j] = Line[i + j - 1]
  <2> DEFINE T == {Line[j] : j \in i .. e}
  <2>0. i \in Int /\ e \in Int /\ i <= e
    OBVIOUS
  <2>1. \A j \in i .. e : Line[j] \in T
    OBVIOUS
  <2> HIDE DEF T
  <2>2. /\ part \in Seq(T) /\ Len(part) = e - i + 1
        /\ \A j \in 1 .. e - i + 1 : part[j] = Line[i + j - 1]
    BY <2>0, <2>1, SubSeqProperties
  <2> HIDE DEF part
  <2> QED BY <2>2, LenProperties
<1> HIDE DEF part
<1>6. part[1] = Line[i]
  BY <1>5
<1>7. [j \in DOMAIN part |-> part[j].digits] = [j \in 1 .. e - i + 1 |-> Line[i + j - 1].digits]
  BY <1>5
<1>8. Len(part) - 1 = e - i
  BY <1>5
<1> QED BY <1>4, <1>6, <1>7, <1>8, Zenon

\* Digits that only spaces keep apart are one number.
LEMMA SpacesOnly ==
    ASSUME NEW w, NEW m, w.marks = [j \in 1 .. m |-> "space"],
           w.sign # "trailing", Len(DigitsOf(w.runs)) \in Nat, Len(DigitsOf(w.runs)) <= 16
    PROVE  Normalized(w) = [negative |-> w.sign # "none", whole |-> DigitsOf(w.runs), part |-> <<>>]
<1>1. Marked(w, "comma") = {} /\ Marked(w, "dot") = {}
  BY DEF Marked
<1>2. Separators(w) = {} /\ Cardinality({}) = 0
  BY <1>1, FS_EmptySet DEF Separators
<1>3. Points(w) = {}
  BY <1>1, <1>2 DEF Points
<1>4. Normalized(w) = Number(w, {}, w.sign # "none")
  BY <1>3 DEF Normalized
<1> QED BY <1>2, <1>4 DEF Number

\* A row that a line gives, and where its columns lie in it.
RowInLine(n, s, off) == RowOf(n, s) /\ SpaceGrouped /\ LineAt(n, off)

\* A column and its place in the line.
LEMMA ColumnFacts ==
    ASSUME NEW n, NEW s, NEW off, RowInLine(n, s, off), NEW k \in 1 .. n
    PROVE  /\ n \in Nat \ {0} /\ DOMAIN row = 1 .. n /\ Len(row) = n /\ Spaced(row[k])
           /\ row[k].runs \in Seq(Run) /\ Len(row[k].runs) \in Nat \ {0}
           /\ off[k] \in Nat /\ off[k + 1] = off[k] + Len(row[k].runs)
           /\ off[k + 1] <= Len(Line) /\ Len(Line) \in Nat
           /\ \A j \in 1 .. Len(row[k].runs) :
                 off[k] + j \in DOMAIN Line /\ Line[off[k] + j] = Piece(k)[j]
<1>1. n \in Nat \ {0} /\ DOMAIN row = 1 .. n /\ Len(row) = n
  <2>1. n \in Nat \ {0} /\ row = [i \in 1 .. n |-> Write(printed[i], s)]
    BY DEF RowInLine, RowOf
  <2> QED BY <2>1
<1>2. Spaced(row[k])
  BY SpacedRow DEF RowInLine
<1>3. row[k].runs \in Seq(Run) /\ Len(row[k].runs) \in Nat \ {0}
  BY <1>2, GroupedDigits DEF Spaced, Grouped
<1>4. /\ off \in [1 .. n + 1 -> Nat] /\ off[k + 1] = off[k] + Len(row[k].runs)
      /\ off[n + 1] = Len(Line) /\ Len(Line) \in Nat /\ DOMAIN Line = 1 .. Len(Line)
      /\ \A j \in 1 .. Len(row[k].runs) : Line[off[k] + j] = Piece(k)[j]
  BY DEF RowInLine, LineAt
<1>5. off[k] \in Nat
  BY <1>1, <1>4
<1>6. off[k + 1] <= Len(Line)
  <2>1. CASE k = n
    BY <2>1, <1>1, <1>4
  <2>2. CASE k # n
    <3>1. k + 1 \in 1 .. n /\ n + 1 \in k + 1 .. n + 1
      BY <2>2, <1>1
    <3>2. off[k + 1] <= off[n + 1]
      BY <3>1 DEF RowInLine, LineAt
    <3> QED BY <3>2, <1>4
  <2> QED BY <2>1, <2>2
<1>7. ASSUME NEW j \in 1 .. Len(row[k].runs) PROVE off[k] + j \in DOMAIN Line
  <2>1. off[k] + j <= off[k] + Len(row[k].runs)
    BY <1>3, <1>5
  <2>2. off[k] + j \in Nat \ {0} /\ off[k] + Len(row[k].runs) <= Len(Line)
    BY <1>3, <1>4, <1>5, <1>6
  <2>3. off[k] + j <= Len(Line) /\ off[k] + Len(row[k].runs) \in Nat
    BY <2>1, <2>2, <1>3, <1>4, <1>5
  <2> QED BY <2>2, <2>3, <1>4
<1> QED BY <1>1, <1>2, <1>3, <1>4, <1>5, <1>6, <1>7

\* A match that begins and ends with a column is what the column holds; of its
\* sign it knows the minus and the parentheses.
SignInLine(w) == IF w.sign \in {"minus", "parens"} THEN w.sign ELSE "none"

\* So a match that covers a column, no more and no less, holds what is written there.
LEMMA ColumnMatch ==
    ASSUME NEW n, NEW s, NEW off, RowInLine(n, s, off), NEW k \in 1 .. n,
           NEW starts \in SUBSET DOMAIN Line, off[k] + 1 \in starts,
           k = n \/ off[k + 1] + 1 \in starts,
           \A j \in 2 .. Len(row[k].runs) : off[k] + j \notin starts
    PROVE  Match(starts, off[k] + 1) =
                [sign |-> SignInLine(row[k]), currency |-> row[k].currency,
                 runs |-> row[k].runs, marks |-> row[k].marks]
<1> DEFINE R == row[k].runs
           e == off[k + 1]
           p == off[k] + 1
<1>1. /\ n \in Nat \ {0} /\ Spaced(row[k]) /\ R \in Seq(Run) /\ Len(R) \in Nat \ {0}
      /\ off[k] \in Nat /\ e = off[k] + Len(R) /\ e <= Len(Line) /\ Len(Line) \in Nat
      /\ \A j \in 1 .. Len(R) : off[k] + j \in DOMAIN Line /\ Line[off[k] + j] = Piece(k)[j]
      /\ DOMAIN Line = 1 .. Len(Line) /\ off[n + 1] = Len(Line)
  <2>1. DOMAIN Line = 1 .. Len(Line) /\ off[n + 1] = Len(Line)
    BY DEF RowInLine, LineAt
  <2> QED BY <2>1, ColumnFacts
<1>2. p \in starts /\ e \in p .. Len(Line) /\ (e = Len(Line) \/ e + 1 \in starts)
  BY <1>1
<1>3. ASSUME NEW j \in starts PROVE j <= p \/ j > e
  <2> SUFFICES ASSUME j > p, j <= e PROVE FALSE
    BY <1>1
  <2>1. j \in Int
    BY <1>1
  <2>2. j - off[k] \in 2 .. Len(R) /\ off[k] + (j - off[k]) = j
    BY <2>1, <1>1
  <2> QED BY <2>2
<1>4. starts \in SUBSET (1 .. Len(Line)) /\ Len(Line) \in Nat
  BY <1>1
<1> HIDE DEF R, e, p
<1>5. Match(starts, p) =
        [sign |-> Line[p].sign, currency |-> Line[p].currency,
         runs |-> [j \in 1 .. e - p + 1 |-> Line[p + j - 1].digits],
         marks |-> [j \in 1 .. e - p |-> "space"]]
  BY <1>2, <1>3, <1>4, MatchIs
<1>6. p = off[k] + 1 /\ e - p + 1 = Len(R) /\ e - p = Len(R) - 1
  BY <1>1 DEF p
<1>7. \A j \in 1 .. Len(R) : Line[p + j - 1] = Piece(k)[j]
  <2> SUFFICES ASSUME NEW j \in 1 .. Len(R) PROVE Line[p + j - 1] = Piece(k)[j]
    OBVIOUS
  <2>1. p + j - 1 = off[k] + j
    BY <1>1, <1>6
  <2> QED BY <2>1, <1>1
<1>8. DOMAIN R = 1 .. Len(R)
  BY <1>1, LenProperties
<1>9. \A j \in 1 .. Len(R) : Piece(k)[j].digits = R[j]
  BY <1>8 DEF Piece, R
<1>10. [j \in 1 .. e - p + 1 |-> Line[p + j - 1].digits] = R
  <2>1. [j \in 1 .. Len(R) |-> Line[p + j - 1].digits] = [j \in 1 .. Len(R) |-> R[j]]
    BY <1>7, <1>9
  <2>2. [j \in 1 .. Len(R) |-> R[j]] = R
    BY <1>1, <1>8, LenProperties
  <2> QED BY <2>1, <2>2, <1>6
<1>11. Line[p] = Piece(k)[1] /\ 1 \in DOMAIN R
  <2>1. 1 \in 1 .. Len(R)
    BY <1>1
  <2>2. Line[off[k] + 1] = Piece(k)[1]
    BY <2>1, <1>1
  <2> QED BY <2>1, <2>2, <1>6, <1>8
<1>12. Piece(k)[1].sign = SignInLine(row[k]) /\ Piece(k)[1].currency = row[k].currency
  BY <1>1, <1>11 DEF Piece, R, SignInLine, Spaced
<1>13. row[k].marks = [j \in 1 .. e - p |-> "space"]
  <2>1. row[k] = [sign |-> row[k].sign, currency |-> row[k].currency, runs |-> R,
                  marks |-> [j \in 1 .. Len(R) - 1 |-> "space"]]
    BY <1>1, Zenon DEF Spaced, R
  <2>2. row[k].marks = [j \in 1 .. Len(R) - 1 |-> "space"]
    BY <2>1
  <2> QED BY <2>2, <1>6
<1> QED BY <1>5, <1>10, <1>11, <1>12, <1>13 DEF R, p

\* A column begins a match unless the one before runs on into it, and a match does
\* not end within a column whose first run the pattern takes.
LEMMA ColumnStarts ==
    ASSUME NEW n, NEW s, NEW off, RowInLine(n, s, off), NEW k \in 1 .. n, NEW lead,
           k = 1 \/ ~RunsOn(k - 1)
    PROVE  off[k] + 1 \in Starts(lead)
<1>1. /\ n \in Nat \ {0} /\ Len(row) = n
      /\ row[k].runs \in Seq(Run) /\ Len(row[k].runs) \in Nat \ {0}
      /\ off[k] + 1 \in DOMAIN Line /\ Line[off[k] + 1] = Piece(k)[1]
  <2>1. Len(row[k].runs) \in Nat \ {0}
    BY ColumnFacts
  <2>2. 1 \in 1 .. Len(row[k].runs)
    BY <2>1
  <2> QED BY <2>1, <2>2, ColumnFacts
<1>2. CASE k = 1
  <2>1. off[1] = 0
    BY DEF RowInLine, LineAt
  <2>2. off[k] + 1 = 1
    BY <2>1, <1>2
  <2> QED BY <2>2, <1>1 DEF Starts
<1>3. CASE k # 1
  <2>1. k - 1 < n /\ (k - 1) + 1 = k
    BY <1>1
  <2>2. \/ row[k - 1].sign = "parens" \/ row[k].sign \notin {"none", "trailing"} \/ row[k].currency
        \/ Len(row[k].runs[1]) # 3
    BY <1>1, <1>3, <2>1 DEF RunsOn
  <2>3. 1 \in DOMAIN row[k].runs
    BY <1>1, LenProperties
  <2>4. ~Line[off[k] + 1].joins \/ Len(Line[off[k] + 1].digits) # 3
    BY <1>1, <2>2, <2>3 DEF Piece
  <2> QED BY <1>1, <2>4 DEF Starts
<1> QED BY <1>2, <1>3

\* No run behind the first of a column begins a match.
LEMMA WithinColumn ==
    ASSUME NEW n, NEW s, NEW off, RowInLine(n, s, off), NEW k \in 1 .. n, NEW lead \in Nat,
           NEW j \in 2 .. Len(row[k].runs), k # 1 \/ Len(row[k].runs[1]) <= lead
    PROVE  off[k] + j \notin Starts(lead) /\ off[k] + j \notin Connected
<1>1. /\ Spaced(row[k]) /\ row[k].runs \in Seq(Run) /\ Len(row[k].runs) \in Nat \ {0}
      /\ off[k] \in Nat
      /\ Line[off[k] + j] = Piece(k)[j]
  <2>1. Len(row[k].runs) \in Nat \ {0}
    BY ColumnFacts
  <2>2. j \in 1 .. Len(row[k].runs)
    BY <2>1
  <2> QED BY <2>1, <2>2, ColumnFacts
<1>2. j \in DOMAIN row[k].runs
  BY <1>1, LenProperties
<1>3. Line[off[k] + j].joins /\ Len(Line[off[k] + j].digits) = 3
  BY <1>1, <1>2 DEF Piece, Spaced, Grouped
<1>4. off[k] + j # 1
  BY <1>1
<1>5. ASSUME off[k] + j = 2 PROVE ~(Len(Line[1].digits) > lead)
  <2>1. off[k] = 0
    BY <1>1, <1>5
  <2>2. k = 1
    <3> SUFFICES ASSUME k # 1 PROVE FALSE
      OBVIOUS
    <3>1. k - 1 \in 1 .. n /\ (k - 1) + 1 = k
      <4>1. n \in Nat
        BY DEF RowInLine, RowOf
      <4> QED BY <4>1
    <3>2. /\ off[k - 1] \in Nat /\ Len(row[k - 1].runs) \in Nat \ {0}
          /\ off[(k - 1) + 1] = off[k - 1] + Len(row[k - 1].runs)
      BY <3>1, ColumnFacts
    <3> QED BY <3>1, <3>2, <2>1
  <2>3. Line[off[1] + 1] = Piece(1)[1] /\ off[1] = 0
    <3>1. 1 \in 1 .. Len(row[k].runs)
      BY <1>1
    <3> QED BY <3>1, <2>1, <2>2, ColumnFacts
  <2>4. Line[1] = Piece(1)[1] /\ 1 \in DOMAIN row[1].runs
    BY <2>2, <2>3, <1>1, <1>2, LenProperties
  <2>5. Line[1].digits = row[1].runs[1]
    BY <2>4 DEF Piece
  <2>6. Len(row[1].runs[1]) <= lead /\ Len(row[1].runs[1]) \in Nat
    BY <2>2, <1>1, GroupedDigits DEF Spaced
  <2> QED BY <2>5, <2>6
<1> QED BY <1>3, <1>4, <1>5 DEF Starts, Connected

\* Notes, line numbers and years are short.
LEMMA ShortColumn ==
    ASSUME NEW runs, Grouped(runs), Len(DigitsOf(runs)) <= 4
    PROVE  Len(runs) <= 2 /\ Len(runs[1]) <= 4 /\ (Len(runs) # 1 => Len(runs[1]) <= 3)
<1>1. /\ Len(runs[1]) \in Nat \ {0} /\ Len(runs) \in Nat \ {0}
      /\ Len(DigitsOf(runs)) = Len(runs[1]) + 3 * (Len(runs) - 1)
  BY GroupedDigits
<1>2. \A x, y \in Nat \ {0} : x + 3 * (y - 1) <= 4 => y <= 2 /\ x <= 4 /\ (y # 1 => x <= 3)
  OBVIOUS
<1> QED BY <1>1, <1>2

\* The groups of one amount are not taken for two periods.
LEMMA TwoPeriodsOfColumn ==
    ASSUME NEW w, w.runs \in Seq(Run), \A j \in 2 .. Len(w.runs) : Len(w.runs[j]) = 3,
           [j \in DOMAIN w.runs |-> Len(w.runs[j])] # <<3, 3, 3, 3>>
    PROVE  TwoPeriods(w) = w
<1> DEFINE L == [j \in DOMAIN w.runs |-> Len(w.runs[j])]
<1>1. DOMAIN w.runs = 1 .. Len(w.runs) /\ Len(w.runs) \in Nat
  BY LenProperties
<1>2. Len(L) = Len(w.runs)
  BY <1>1
<1>3. ~(Len(L) = 4 /\ L[2] = 3 /\ L[4] = 3 /\ L[1] <= 2 /\ L[3] <= 2)
  <2> SUFFICES ASSUME Len(L) = 4 PROVE ~(L[3] <= 2)
    OBVIOUS
  <2>1. 3 \in 2 .. Len(w.runs) /\ 3 \in DOMAIN w.runs
    BY <1>1, <1>2
  <2>2. L[3] = 3
    BY <2>1
  <2> HIDE DEF L
  <2> QED BY <2>2
<1> HIDE DEF L
<1>4. TwoPeriods(w) =
        IF \/ L = <<3, 3, 3, 3>>
           \/ Len(L) = 4 /\ L[2] = 3 /\ L[4] = 3 /\ L[1] <= 2 /\ L[3] <= 2
        THEN [FirstRuns(w, 2) EXCEPT !.sign = "none"] ELSE w
  BY Zenon DEF TwoPeriods, L
<1>5. L # <<3, 3, 3, 3>>
  BY DEF L
<1> QED BY <1>3, <1>4, <1>5, Zenon

\* Two groups of three.
LEMMA TwoLengths ==
    ASSUME NEW k, row[k].runs \in Seq(Run), Lengths(k) = <<3, 3>>
    PROVE  Len(row[k].runs) = 2 /\ Len(row[k].runs[1]) = 3 /\ Len(row[k].runs[2]) = 3
<1>1. DOMAIN row[k].runs = 1 .. Len(row[k].runs) /\ Len(row[k].runs) \in Nat
  BY LenProperties
<1>2. Lengths(k) = [j \in 1 .. Len(row[k].runs) |-> Len(row[k].runs[j])]
  BY <1>1 DEF Lengths
<1>3. Len(Lengths(k)) = Len(row[k].runs) /\ Len(<<3, 3>>) = 2
  BY <1>1, <1>2
<1>4. Len(row[k].runs) = 2
  BY <1>3
<1>5. Lengths(k)[1] = Len(row[k].runs[1]) /\ Lengths(k)[2] = Len(row[k].runs[2])
  <2>1. Lengths(k) = [j \in 1 .. 2 |-> Len(row[k].runs[j])]
    BY <1>2, <1>4
  <2>2. 1 \in 1 .. 2 /\ 2 \in 1 .. 2
    OBVIOUS
  <2>3. \A j \in 1 .. 2 : Lengths(k)[j] = Len(row[k].runs[j])
    BY <2>1, Zenon
  <2> QED BY <2>2, <2>3, Zenon
<1> QED BY <1>4, <1>5

\* Two columns of two groups of three, read as one, are taken apart again.
LEMMA TwoColumnsMatch ==
    ASSUME NEW n, NEW s, NEW off, RowInLine(n, s, off), NEW k \in 1 .. n - 1,
           NEW starts \in SUBSET DOMAIN Line, off[k] + 1 \in starts,
           \A j \in 2 .. 4 : off[k] + j \notin starts,
           k + 1 = n \/ off[(k + 1) + 1] + 1 \in starts,
           Lengths(k) = <<3, 3>>, Lengths(k + 1) = <<3, 3>>
    PROVE  TwoPeriods(Match(starts, off[k] + 1)) =
                [sign |-> "none", currency |-> FALSE, runs |-> row[k].runs,
                 marks |-> [j \in 1 .. 1 |-> "space"]]
<1> DEFINE p == off[k] + 1
           e == off[(k + 1) + 1]
           w == Match(starts, p)
<1>0. k \in 1 .. n /\ k + 1 \in 1 .. n /\ n \in Nat \ {0}
  <2>1. n \in Nat \ {0}
    BY DEF RowInLine, RowOf
  <2> QED BY <2>1
<1>1. /\ Len(row[k].runs) = 2 /\ Len(row[k].runs[1]) = 3 /\ Len(row[k].runs[2]) = 3
      /\ row[k].runs \in Seq(Run)
  <2>1. row[k].runs \in Seq(Run)
    BY <1>0, ColumnFacts
  <2> QED BY <2>1, TwoLengths
<1>2. /\ Len(row[k + 1].runs) = 2 /\ Len(row[k + 1].runs[1]) = 3 /\ Len(row[k + 1].runs[2]) = 3
      /\ row[k + 1].runs \in Seq(Run)
  <2>1. row[k + 1].runs \in Seq(Run)
    BY <1>0, ColumnFacts
  <2> QED BY <2>1, TwoLengths
<1>3. /\ off[k] \in Nat /\ off[k + 1] = off[k] + 2
      /\ \A j \in 1 .. 2 : Line[off[k] + j] = Piece(k)[j]
  <2>1. /\ off[k] \in Nat /\ off[k + 1] = off[k] + Len(row[k].runs)
        /\ \A j \in 1 .. Len(row[k].runs) : Line[off[k] + j] = Piece(k)[j]
    BY <1>0, ColumnFacts
  <2> QED BY <2>1, <1>1
<1>4. /\ off[k + 1] \in Nat /\ e = off[k + 1] + 2 /\ e <= Len(Line) /\ Len(Line) \in Nat
      /\ \A j \in 1 .. 2 : Line[off[k + 1] + j] = Piece(k + 1)[j]
  <2>1. /\ off[k + 1] \in Nat /\ off[(k + 1) + 1] = off[k + 1] + Len(row[k + 1].runs)
        /\ off[(k + 1) + 1] <= Len(Line) /\ Len(Line) \in Nat
        /\ \A j \in 1 .. Len(row[k + 1].runs) : Line[off[k + 1] + j] = Piece(k + 1)[j]
    BY <1>0, ColumnFacts
  <2> QED BY <2>1, <1>2
<1>5. DOMAIN Line = 1 .. Len(Line) /\ off[n + 1] = Len(Line)
  BY DEF RowInLine, LineAt
<1>6. e = off[k] + 4 /\ p \in starts /\ e \in p .. Len(Line) /\ (e = Len(Line) \/ e + 1 \in starts)
  <2>1. e = off[k] + 4
    BY <1>3, <1>4
  <2>2. p \in Nat /\ e \in Nat /\ p <= e /\ e <= Len(Line)
    BY <2>1, <1>3, <1>4
  <2>3. k + 1 = n => e = Len(Line)
    BY <1>5
  <2> QED BY <2>1, <2>2, <2>3, <1>4
<1>7. ASSUME NEW j \in starts PROVE j <= p \/ j > e
  <2> SUFFICES ASSUME j > p, j <= e PROVE FALSE
    BY <1>3, <1>5, <1>6
  <2>1. j - off[k] \in 2 .. 4 /\ off[k] + (j - off[k]) = j
    BY <1>3, <1>5, <1>6
  <2> QED BY <2>1
<1>8. starts \in SUBSET (1 .. Len(Line)) /\ Len(Line) \in Nat
  BY <1>4, <1>5
<1> HIDE DEF e, p
<1>9. w = [sign |-> Line[p].sign, currency |-> Line[p].currency,
           runs |-> [j \in 1 .. e - p + 1 |-> Line[p + j - 1].digits],
           marks |-> [j \in 1 .. e - p |-> "space"]]
  BY <1>6, <1>7, <1>8, MatchIs
<1>10. e - p + 1 = 4 /\ e - p = 3 /\ p = off[k] + 1
  BY <1>3, <1>6 DEF p
<1>11. /\ Line[p + 1 - 1].digits = row[k].runs[1] /\ Line[p + 2 - 1].digits = row[k].runs[2]
       /\ Line[p + 3 - 1].digits = row[k + 1].runs[1] /\ Line[p + 4 - 1].digits = row[k + 1].runs[2]
  <2>1. /\ p + 1 - 1 = off[k] + 1 /\ p + 2 - 1 = off[k] + 2
        /\ p + 3 - 1 = off[k + 1] + 1 /\ p + 4 - 1 = off[k + 1] + 2
    BY <1>3, <1>10
  <2>2. /\ DOMAIN row[k].runs = 1 .. 2 /\ DOMAIN row[k + 1].runs = 1 .. 2
    BY <1>1, <1>2, LenProperties
  <2>3. /\ Line[off[k] + 1] = Piece(k)[1] /\ Line[off[k] + 2] = Piece(k)[2]
        /\ Line[off[k + 1] + 1] = Piece(k + 1)[1] /\ Line[off[k + 1] + 2] = Piece(k + 1)[2]
    BY <1>3, <1>4
  <2>4. Piece(k)[1].digits = row[k].runs[1] /\ Piece(k)[2].digits = row[k].runs[2]
    BY <2>2 DEF Piece
  <2>5. Piece(k + 1)[1].digits = row[k + 1].runs[1] /\ Piece(k + 1)[2].digits = row[k + 1].runs[2]
    BY <2>2 DEF Piece
  <2> QED BY <2>1, <2>3, <2>4, <2>5
<1> DEFINE runs == [j \in 1 .. 4 |-> Line[p + j - 1].digits]
<1>12. w = [sign |-> Line[p].sign, currency |-> Line[p].currency, runs |-> runs,
            marks |-> [j \in 1 .. 3 |-> "space"]]
  BY <1>9, <1>10
<1>13. /\ runs[1] = row[k].runs[1] /\ runs[2] = row[k].runs[2]
       /\ runs[3] = row[k + 1].runs[1] /\ runs[4] = row[k + 1].runs[2]
       /\ DOMAIN runs = 1 .. 4
  BY <1>11
<1> HIDE DEF runs, w
<1>14. w.runs = runs /\ w.marks = [j \in 1 .. 3 |-> "space"]
       /\ DOMAIN w = {"sign", "currency", "runs", "marks"}
  BY <1>12
<1>15. [j \in DOMAIN w.runs |-> Len(w.runs[j])] = <<3, 3, 3, 3>>
  <2>1. ASSUME NEW j \in 1 .. 4 PROVE Len(runs[j]) = 3
    BY <1>1, <1>2, <1>13
  <2>2. [j \in 1 .. 4 |-> Len(runs[j])] = [j \in 1 .. 4 |-> 3]
    BY <2>1
  <2>3. [j \in 1 .. 4 |-> 3] = <<3, 3, 3, 3>>
    OBVIOUS
  <2> QED BY <2>2, <2>3, <1>13, <1>14
<1>16. TwoPeriods(w) = [FirstRuns(w, 2) EXCEPT !.sign = "none"]
  BY <1>15, Zenon DEF TwoPeriods
<1>17. SubSeq(runs, 1, 2) = row[k].runs
  <2>1. /\ runs[1] \in Run /\ runs[2] \in Run
    BY <1>1, <1>13, ElementOfSeq
  <2>2. \A i \in 1 .. 2 : runs[i] \in Run
    BY <2>1
  <2>3. /\ SubSeq(runs, 1, 2) \in Seq(Run) /\ Len(SubSeq(runs, 1, 2)) = 2
        /\ \A i \in 1 .. 2 : SubSeq(runs, 1, 2)[i] = runs[1 + i - 1]
    BY <2>2, SubSeqProperties
  <2>4. SubSeq(runs, 1, 2)[1] = runs[1] /\ SubSeq(runs, 1, 2)[2] = runs[2]
    BY <2>3
  <2>5. \A i \in 1 .. Len(SubSeq(runs, 1, 2)) : SubSeq(runs, 1, 2)[i] = row[k].runs[i]
    BY <2>3, <2>4, <1>13
  <2> QED BY <2>3, <2>5, <1>1, SeqEqual
<1>18. SubSeq([j \in 1 .. 3 |-> "space"], 1, 1) = [j \in 1 .. 1 |-> "space"]
  <2>1. [j \in 1 .. 3 |-> "space"] \in Seq({"space"})
    OBVIOUS
  <2>2. SubSeq([j \in 1 .. 3 |-> "space"], 1, 1) = <<"space">>
    <3> DEFINE m == [j \in 1 .. 3 |-> "space"]
    <3>1. m \in Seq({"space"}) /\ 1 \in 1 .. Len(m) /\ m[1] = "space"
      OBVIOUS
    <3> HIDE DEF m
    <3>2. SubSeq(m, 1, 1) = <<m[1]>>
      BY <3>1, SubSeqOne
    <3>3. SubSeq(m, 1, 1) = <<"space">>
      BY <3>1, <3>2, Zenon
    <3> QED BY <3>3 DEF m
  <2> QED BY <2>2
<1>19. FirstRuns(w, 2) =
          [w EXCEPT !.runs = row[k].runs, !.marks = [j \in 1 .. 1 |-> "space"], !.currency = FALSE]
  <2>1. SubSeq(w.runs, 1, 2) = row[k].runs
    BY <1>14, <1>17
  <2>2. 2 - 1 = 1
    OBVIOUS
  <2>3. SubSeq(w.marks, 1, 2 - 1) = [j \in 1 .. 1 |-> "space"]
    BY <1>14, <1>18, <2>2, Zenon
  <2> QED BY <2>1, <2>3, Zenon DEF FirstRuns
<1>20. TwoPeriods(w) = [sign |-> "none", currency |-> FALSE, runs |-> row[k].runs,
                       marks |-> [j \in 1 .. 1 |-> "space"]]
  BY <1>12, <1>16, <1>19
<1> QED BY <1>20 DEF w, p

-----------------------------------------------------------------------------
(* A line of text                                                           *)

\* Column k of a line, when the columns before it are told apart.
TextMatch(i) == TwoPeriods(Match(Starts(3), i))

\* What a column of a line means.
LEMMA SpacedMeaning ==
    ASSUME NEW n, NEW s, NEW off, RowInLine(n, s, off), NEW k \in 1 .. n
    PROVE  /\ Meaning(printed[k]) = [negative |-> row[k].sign # "none",
                                     whole |-> DigitsOf(row[k].runs), part |-> <<>>]
           /\ Meaning(printed[k]) # Unread
<1>1. printed[k] \in Amounts
  BY DEF RowInLine, RowOf
<1> QED BY <1>1, MeaningIsNumber, SpacedRow DEF RowInLine

\* The first amount begins a match, and what TwoPeriods leaves of it is the amount.
LEMMA LateColumn ==
    ASSUME NEW n, NEW s, NEW off, RowInLine(n, s, off), NEW k \in 1 .. n, FirstInText(k)
    PROVE  /\ Normalized(TextMatch(off[k] + 1)) = Meaning(printed[k])
           /\ TextMatch(off[k] + 1).runs = row[k].runs
           /\ off[k] + 1 \in Starts(3)
<1> DEFINE p == off[k] + 1
<1>0. Starts(3) \in SUBSET DOMAIN Line /\ n \in Nat \ {0} /\ Len(row) = n
  BY ColumnFacts DEF Starts
<1>1. /\ Grouped(row[k].runs) /\ row[k].runs \in Seq(Run)
      /\ row[k].marks = [j \in 1 .. Len(row[k].runs) - 1 |-> "space"]
      /\ row[k] = [sign |-> row[k].sign, currency |-> row[k].currency,
                   runs |-> row[k].runs, marks |-> row[k].marks]
  <2>1. Spaced(row[k])
    BY ColumnFacts
  <2>2. row[k] = [sign |-> row[k].sign, currency |-> row[k].currency, runs |-> row[k].runs,
                  marks |-> [j \in 1 .. Len(row[k].runs) - 1 |-> "space"]]
    BY <2>1, Zenon DEF Spaced
  <2>3. row[k].marks = [j \in 1 .. Len(row[k].runs) - 1 |-> "space"]
    BY <2>2
  <2>4. row[k] = [sign |-> row[k].sign, currency |-> row[k].currency,
                  runs |-> row[k].runs, marks |-> row[k].marks]
    BY <2>2, <2>3, Zenon
  <2> QED BY <2>1, <2>3, <2>4 DEF Spaced, Grouped
<1>2. Len(DigitsOf(row[k].runs)) \in Nat /\ Len(DigitsOf(row[k].runs)) <= 16
  <2>1. Len(DigitsOf(row[k].runs)) \in 4 .. 16
    BY Zenon DEF FirstInText
  <2>2. \A x \in 4 .. 16 : x \in Nat /\ x <= 16
    OBVIOUS
  <2> QED BY <2>1, <2>2, Zenon
<1>3. p \in Starts(3)
  <2>1. k = 1 \/ ~RunsOn(k - 1)
    <3>1. k # 1 => k - 1 \in 1 .. k - 1
      BY <1>0
    <3> QED BY <3>1 DEF FirstInText
  <2> QED BY <2>1, ColumnStarts
<1>4. \A j \in 2 .. Len(row[k].runs) : off[k] + j \notin Starts(3)
  <2> SUFFICES ASSUME NEW j \in 2 .. Len(row[k].runs) PROVE off[k] + j \notin Starts(3)
    OBVIOUS
  <2>1. Len(row[k].runs) # 1
    BY <1>1, LenProperties
  <2>2. Len(row[k].runs[1]) <= 3
    BY <2>1 DEF FirstInText
  <2> QED BY <2>2, WithinColumn
<1>5. CASE ~RunsOn(k) /\ Lengths(k) # <<3, 3, 3, 3>>
  <2>1. k = n \/ off[k + 1] + 1 \in Starts(3)
    <3> SUFFICES ASSUME k # n PROVE off[k + 1] + 1 \in Starts(3)
      OBVIOUS
    <3>1. k + 1 \in 1 .. n /\ (k + 1) - 1 = k
      BY <1>0
    <3>2. ~RunsOn((k + 1) - 1)
      BY <3>1, <1>5
    <3> QED BY <3>1, <3>2, ColumnStarts
  <2>2. Match(Starts(3), p) = [sign |-> SignInLine(row[k]), currency |-> row[k].currency,
                               runs |-> row[k].runs, marks |-> row[k].marks]
    <3> DEFINE starts == Starts(3)
    <3>1. starts \in SUBSET DOMAIN Line /\ off[k] + 1 \in starts /\ (k = n \/ off[k + 1] + 1 \in starts)
      BY <1>0, <1>3, <2>1
    <3>2. \A j \in 2 .. Len(row[k].runs) : off[k] + j \notin starts
      BY <1>4
    <3> HIDE DEF starts
    <3>3. Match(starts, off[k] + 1) = [sign |-> SignInLine(row[k]), currency |-> row[k].currency,
                                       runs |-> row[k].runs, marks |-> row[k].marks]
      BY <3>1, <3>2, ColumnMatch, Zenon
    <3> QED BY <3>3 DEF starts
  <2>3. SignInLine(row[k]) = row[k].sign /\ row[k].sign # "trailing"
    BY DEF FirstInText, SignInLine
  <2>4. Match(Starts(3), p) = row[k]
    BY <2>2, <2>3, <1>1, Zenon
  <2>5. TwoPeriods(row[k]) = row[k]
    BY <1>1, <1>5, TwoPeriodsOfColumn DEF Grouped, Lengths
  <2>6. TextMatch(p) = row[k]
    BY <2>4, <2>5, Zenon DEF TextMatch
  <2>7. Normalized(row[k]) =
          [negative |-> row[k].sign # "none", whole |-> DigitsOf(row[k].runs), part |-> <<>>]
    BY <2>3, <1>1, <1>2, SpacesOnly
  <2> QED BY <2>6, <2>7, <1>3, SpacedMeaning
<1>6. CASE /\ RunsOn(k) /\ ~RunsOn(k + 1) /\ row[k].sign = "none"
           /\ Lengths(k) = <<3, 3>> /\ Lengths(k + 1) = <<3, 3>>
  <2>1. k < n /\ k \in 1 .. n - 1 /\ k + 1 \in 1 .. n
    BY <1>0, <1>6 DEF RunsOn
  <2>2. Len(row[k].runs) = 2
    BY <1>1, <1>6, TwoLengths
  <2>3. Len(row[k + 1].runs) = 2 /\ Len(row[k + 1].runs[1]) = 3
    <3>1. row[k + 1].runs \in Seq(Run)
      BY <2>1, ColumnFacts
    <3> QED BY <3>1, <1>6, TwoLengths
  <2>4. off[k] \in Nat /\ off[k + 1] = off[k] + 2
    <3>1. off[k] \in Nat /\ off[k + 1] = off[k] + Len(row[k].runs)
      BY ColumnFacts
    <3> QED BY <3>1, <2>2
  <2>5. k + 1 = n \/ off[(k + 1) + 1] + 1 \in Starts(3)
    <3> SUFFICES ASSUME k + 1 # n PROVE off[(k + 1) + 1] + 1 \in Starts(3)
      OBVIOUS
    <3>1. (k + 1) + 1 \in 1 .. n /\ ((k + 1) + 1) - 1 = k + 1
      BY <2>1, <1>0
    <3>2. ~RunsOn(((k + 1) + 1) - 1)
      BY <3>1, <1>6
    <3> QED BY <3>1, <3>2, ColumnStarts
  <2>6. off[k] + 2 \notin Starts(3)
    BY <1>4, <2>2
  <2>7. off[k + 1] + 2 \notin Starts(3)
    <3>1. k + 1 # 1 /\ 2 \in 2 .. Len(row[k + 1].runs)
      BY <2>1, <2>3
    <3> QED BY <3>1, <2>1, WithinColumn
  <2>8. off[k + 1] + 1 \notin Starts(3)
    <3>1. /\ Line[off[k + 1] + 1] = Piece(k + 1)[1] /\ 1 \in DOMAIN row[k + 1].runs
      <4>1. 1 \in 1 .. Len(row[k + 1].runs) /\ row[k + 1].runs \in Seq(Run)
        BY <2>1, <2>3, ColumnFacts
      <4> QED BY <4>1, <2>1, ColumnFacts, LenProperties
    <3>2. row[k + 1].sign \in {"none", "trailing"} /\ ~row[k + 1].currency
      BY <1>6 DEF RunsOn
    <3>3. k + 1 > 1 /\ row[(k + 1) - 1].sign = "none"
      <4>1. (k + 1) - 1 = k /\ k + 1 > 1
        BY <2>1
      <4> QED BY <4>1, <1>6
    <3>4. Line[off[k + 1] + 1].joins /\ Len(Line[off[k + 1] + 1].digits) = 3
      BY <3>1, <3>2, <3>3, <2>3 DEF Piece
    <3>5. off[k + 1] + 1 # 1 /\ off[k + 1] + 1 # 2
      BY <2>4
    <3> QED BY <3>4, <3>5 DEF Starts
  <2>9. \A j \in 2 .. 4 : off[k] + j \notin Starts(3)
    <3>1. off[k + 1] + 1 = off[k] + 3 /\ off[k + 1] + 2 = off[k] + 4
      BY <2>4
    <3>2. off[k] + 2 \notin Starts(3) /\ off[k] + 3 \notin Starts(3) /\ off[k] + 4 \notin Starts(3)
      BY <3>1, <2>6, <2>7, <2>8, Zenon
    <3>3. \A j \in 2 .. 4 : j = 2 \/ j = 3 \/ j = 4
      OBVIOUS
    <3> QED BY <3>2, <3>3, Zenon
  <2>10. TextMatch(p) = [sign |-> "none", currency |-> FALSE, runs |-> row[k].runs,
                         marks |-> [j \in 1 .. 1 |-> "space"]]
    BY <1>0, <1>3, <1>6, <2>1, <2>5, <2>9, TwoColumnsMatch DEF TextMatch
  <2> HIDE DEF p
  <2>11. /\ TextMatch(p).sign = "none" /\ TextMatch(p).runs = row[k].runs
         /\ TextMatch(p).marks = [j \in 1 .. 1 |-> "space"]
    BY <2>10
  <2>12. Normalized(TextMatch(p)) = [negative |-> TextMatch(p).sign # "none",
                                     whole |-> DigitsOf(TextMatch(p).runs), part |-> <<>>]
    <3>1. TextMatch(p).sign # "trailing" /\ Len(DigitsOf(TextMatch(p).runs)) \in Nat
          /\ Len(DigitsOf(TextMatch(p).runs)) <= 16
      BY <2>11, <1>2
    <3> QED BY <3>1, <2>11, SpacesOnly
  <2>13. (TextMatch(p).sign # "none") = (row[k].sign # "none")
    BY <2>11, <1>6
  <2>14. Normalized(TextMatch(p)) = [negative |-> row[k].sign # "none",
                                     whole |-> DigitsOf(row[k].runs), part |-> <<>>]
    BY <2>11, <2>12, <2>13
  <2> QED BY <2>11, <2>14, <1>3, SpacedMeaning DEF p
<1>7. \/ ~RunsOn(k) /\ Lengths(k) # <<3, 3, 3, 3>>
      \/ /\ RunsOn(k) /\ ~RunsOn(k + 1) /\ row[k].sign = "none"
         /\ Lengths(k) = <<3, 3>> /\ Lengths(k + 1) = <<3, 3>>
  BY DEF FirstInText
<1> QED BY <1>5, <1>6, <1>7

\* A column before the first amount is short, a year without a sign, or both.
LEMMA EarlyColumn ==
    ASSUME NEW n, NEW s, NEW off, RowInLine(n, s, off), NEW k \in 1 .. n, FirstInText(k),
           NEW l \in 1 .. k - 1
    PROVE  /\ Len(row[l].runs) <= 2 /\ (Len(row[l].runs) # 1 => Len(row[l].runs[1]) <= 3)
           /\ off[l] + 1 \in Starts(3)
           /\ TextMatch(off[l] + 1).runs = row[l].runs
           /\ \/ Len(DigitsOf(row[l].runs)) <= 3
              \/ IsYear(Normalized(TextMatch(off[l] + 1)))
<1> DEFINE p == off[l] + 1
           R == row[l].runs
<1>0. l \in 1 .. n /\ l # n /\ l + 1 \in 1 .. k /\ l + 1 \in 1 .. n /\ n \in Nat \ {0} /\ k \in Nat
  <2>1. n \in Nat \ {0}
    BY ColumnFacts
  <2> QED BY <2>1
<1>1. Spaced(row[l]) /\ R \in Seq(Run) /\ Len(R) \in Nat \ {0} /\ Grouped(R)
  BY <1>0, ColumnFacts DEF Spaced
<1>2. /\ Len(DigitsOf(R)) <= 3 \/ IsYear(Meaning(printed[l]))
      /\ ~RunsOn(l)
  BY Zenon DEF FirstInText
<1>3. Meaning(printed[l]) = [negative |-> row[l].sign # "none", whole |-> DigitsOf(R), part |-> <<>>]
  BY <1>0, SpacedMeaning
<1>4. Len(DigitsOf(R)) \in Nat /\ Len(DigitsOf(R)) <= 4
  <2>1. Len(DigitsOf(R)) \in Nat
    BY <1>1, DigitsType DEF Grouped
  <2>2. IsYear(Meaning(printed[l])) => Len(DigitsOf(R)) = 4
    BY <1>3 DEF IsYear
  <2>3. \A x \in Nat : x <= 3 \/ x = 4 => x <= 4
    OBVIOUS
  <2> QED BY <2>1, <2>2, <2>3, <1>2, Zenon
<1>5. Len(R) <= 2 /\ (Len(R) # 1 => Len(R[1]) <= 3)
  BY <1>1, <1>4, ShortColumn
<1>6. p \in Starts(3)
  <2>1. l = 1 \/ ~RunsOn(l - 1)
    <3>1. l # 1 => l - 1 \in 1 .. k - 1
      BY <1>0
    <3> QED BY <3>1 DEF FirstInText
  <2> QED BY <2>1, <1>0, ColumnStarts
<1>7. off[l + 1] + 1 \in Starts(3)
  <2>1. ~RunsOn((l + 1) - 1)
    <3>1. (l + 1) - 1 = l
      BY <1>0
    <3> QED BY <3>1, <1>2
  <2> QED BY <2>1, <1>0, ColumnStarts
<1>8. \A j \in 2 .. Len(R) : off[l] + j \notin Starts(3)
  <2> SUFFICES ASSUME NEW j \in 2 .. Len(R) PROVE off[l] + j \notin Starts(3)
    OBVIOUS
  <2>0. Len(R) # 1
    <3> HIDE DEF R
    <3>1. Len(R) \in Nat \ {0}
      BY <1>1, Zenon
    <3>2. \A x \in Nat \ {0} : \A y \in 2 .. x : x # 1
      OBVIOUS
    <3> QED BY <3>1, <3>2, Zenon
  <2>1. Len(R[1]) <= 3
    BY <2>0, <1>5, Zenon
  <2> QED BY <2>1, <1>0, WithinColumn
<1>9. Match(Starts(3), p) = [sign |-> SignInLine(row[l]), currency |-> row[l].currency,
                             runs |-> R, marks |-> row[l].marks]
  <2> DEFINE starts == Starts(3)
  <2>1. starts \in SUBSET DOMAIN Line /\ off[l] + 1 \in starts /\ (l = n \/ off[l + 1] + 1 \in starts)
    BY <1>6, <1>7 DEF Starts
  <2>2. \A j \in 2 .. Len(row[l].runs) : off[l] + j \notin starts
    BY <1>8
  <2> HIDE DEF starts
  <2>3. Match(starts, off[l] + 1) = [sign |-> SignInLine(row[l]), currency |-> row[l].currency,
                                     runs |-> row[l].runs, marks |-> row[l].marks]
    BY <1>0, <2>1, <2>2, ColumnMatch, Zenon
  <2> QED BY <2>3 DEF starts
<1> DEFINE w == Match(Starts(3), p)
<1>10. w.runs = R /\ w.sign = SignInLine(row[l]) /\ w.marks = row[l].marks
  BY <1>9
<1> HIDE DEF w, p
<1>11. TextMatch(p) = w
  <2>1. \A j \in 2 .. Len(w.runs) : Len(w.runs[j]) = 3
    BY <1>1, <1>10 DEF Grouped
  <2>2. DOMAIN w.runs = 1 .. Len(R) /\ Len(R) # 4
    <3> HIDE DEF R
    <3>1. DOMAIN R = 1 .. Len(R)
      BY <1>1, LenProperties
    <3>2. Len(R) # 4
      <4>1. Len(R) \in Nat \ {0} /\ Len(R) <= 2
        BY <1>1, <1>5, Zenon
      <4>2. \A x \in Nat \ {0} : x <= 2 => x # 4
        OBVIOUS
      <4> QED BY <4>1, <4>2, Zenon
    <3> QED BY <3>1, <3>2, <1>10, Zenon
  <2>3. Len([j \in 1 .. Len(R) |-> Len(w.runs[j])]) = Len(R) /\ Len(<<3, 3, 3, 3>>) = 4
    BY <1>1
  <2>4. [j \in DOMAIN w.runs |-> Len(w.runs[j])] # <<3, 3, 3, 3>>
    BY <2>2, <2>3
  <2>5. w.runs \in Seq(Run)
    BY <1>1, <1>10
  <2>6. TwoPeriods(w) = w
    BY <2>1, <2>4, <2>5, TwoPeriodsOfColumn
  <2> QED BY <2>6 DEF TextMatch, w
<1>12. ASSUME IsYear(Meaning(printed[l])) PROVE IsYear(Normalized(TextMatch(p)))
  <2>1. row[l].sign = "none"
    <3>1. ~Meaning(printed[l]).negative
      BY <1>12, Zenon DEF IsYear
    <3>2. Meaning(printed[l]).negative = (row[l].sign # "none")
      BY <1>3
    <3> QED BY <3>1, <3>2
  <2>2. w.sign = "none"
    BY <2>1, <1>10 DEF SignInLine
  <2>3. w.marks = [j \in 1 .. Len(R) - 1 |-> "space"]
    <3>1. row[l] = [sign |-> row[l].sign, currency |-> row[l].currency, runs |-> R,
                    marks |-> [j \in 1 .. Len(R) - 1 |-> "space"]]
      BY <1>1, Zenon DEF Spaced, R
    <3> QED BY <3>1, <1>10
  <2>4. Normalized(w) = [negative |-> w.sign # "none", whole |-> DigitsOf(w.runs), part |-> <<>>]
    BY <1>4, <1>10, <2>2, <2>3, SpacesOnly
  <2>5. Normalized(w) = Meaning(printed[l])
    BY <2>1, <2>2, <2>4, <1>3, <1>10
  <2> QED BY <2>5, <1>11, <1>12
<1> QED BY <1>2, <1>5, <1>6, <1>10, <1>11, <1>12 DEF p

\* A form code begins with 0, and an amount of several digits does not.
LEMMA NoFormCode ==
    ASSUME NEW w, Spaced(w), Len(DigitsOf(w.runs)) > 1
    PROVE  ~FormCode(DigitsOf(w.runs))
<1>1. Grouped(w.runs) /\ w.runs[1][1] # 0
  BY DEF Spaced
<1>2. DigitsOf(w.runs)[1] = w.runs[1][1]
  BY <1>1, GroupedDigits
<1> QED BY <1>1, <1>2 DEF FormCode

\* _extract_preferred_numeric_match takes the first column that is an amount: what it
\* prefers lies at that column, and every earlier match is short or a year.
LEMMA TextIsRead ==
    ASSUME NEW n, NEW s, NEW off, RowInLine(n, s, off), NEW k \in DOMAIN row, FirstInText(k)
    PROVE  InText = Meaning(printed[k])
<1> DEFINE p == off[k] + 1
           found == {i \in Starts(3) : Tells(Normalized(TextMatch(i)))}
           good == {i \in found : /\ Len(DigitsOf(TextMatch(i).runs)) > 3 \/ found = {i}
                                  /\ ~FormCode(DigitsOf(TextMatch(i).runs))}
<1>0. n \in Nat \ {0} /\ DOMAIN row = 1 .. n /\ k \in 1 .. n /\ k \in Nat
  <2>1. n \in Nat \ {0} /\ DOMAIN row = 1 .. n
    BY DEF RowInLine, RowOf
  <2> QED BY <2>1
<1>1. /\ Normalized(TextMatch(p)) = Meaning(printed[k])
      /\ TextMatch(p).runs = row[k].runs /\ p \in Starts(3)
  BY <1>0, LateColumn
<1>2. InText = IF found = {} THEN Unread
               ELSE Normalized(TextMatch(IF good = {} THEN Max(found) ELSE Min(good)))
  BY Zenon DEF InText, TextMatch
<1>3. /\ Len(DigitsOf(row[k].runs)) \in Nat /\ Len(DigitsOf(row[k].runs)) > 3
      /\ ~IsYear(Meaning(printed[k]))
  <2>1. Len(DigitsOf(row[k].runs)) \in 4 .. 16 /\ ~IsYear(Meaning(printed[k]))
    BY Zenon DEF FirstInText
  <2>2. \A x \in 4 .. 16 : x \in Nat /\ x > 3
    OBVIOUS
  <2> QED BY <2>1, <2>2, Zenon
<1>4. p \in found
  <2>1. Meaning(printed[k]) # Unread
    BY <1>0, SpacedMeaning
  <2> QED BY <2>1, <1>1, <1>3 DEF Tells
<1>5. p \in good
  <2>1. Spaced(row[k])
    BY <1>0, ColumnFacts
  <2>2. ~FormCode(DigitsOf(row[k].runs))
    BY <2>1, <1>3, NoFormCode
  <2> QED BY <2>2, <1>1, <1>3, <1>4
<1>6. Starts(3) \in SUBSET Int /\ DOMAIN Line = 1 .. Len(Line)
  <2>1. DOMAIN Line = 1 .. Len(Line) /\ Len(Line) \in Nat
    BY DEF RowInLine, LineAt
  <2> QED BY <2>1 DEF Starts
<1>7. off[k] \in Nat
  BY <1>0, ColumnFacts
<1>8. ASSUME NEW i \in good PROVE p <= i
  <2> SUFFICES ASSUME i < p PROVE FALSE
    BY <1>6, <1>7
  <2>1. i \in Starts(3) /\ i \in 1 .. Len(Line)
    BY <1>6 DEF Starts
  <2>2. PICK l \in 1 .. n : \E j \in 1 .. Len(row[l].runs) : i = off[l] + j
    BY <2>1 DEF RowInLine, LineAt
  <2>3. PICK j \in 1 .. Len(row[l].runs) : i = off[l] + j
    BY <2>2
  <2>4. off[l] \in Nat /\ Len(row[l].runs) \in Nat
    BY ColumnFacts
  <2>5. l \in 1 .. k - 1
    <3> SUFFICES ASSUME l >= k PROVE FALSE
      BY <1>0
    <3>1. l \in k .. n + 1
      BY <1>0
    <3>2. off[k] <= off[l]
      BY <3>1, <1>0 DEF RowInLine, LineAt
    <3> QED BY <3>2, <2>3, <2>4, <1>7
  <2>6. /\ Len(row[l].runs) # 1 => Len(row[l].runs[1]) <= 3
        /\ TextMatch(off[l] + 1).runs = row[l].runs
        /\ \/ Len(DigitsOf(row[l].runs)) <= 3
           \/ IsYear(Normalized(TextMatch(off[l] + 1)))
    BY <1>0, <2>5, EarlyColumn
  <2>7. j = 1
    <3> SUFFICES ASSUME j # 1 PROVE FALSE
      OBVIOUS
    <3>0. \A x \in Nat : \A y \in 1 .. x : y # 1 => y \in 2 .. x /\ x # 1
      OBVIOUS
    <3>1. j \in 2 .. Len(row[l].runs) /\ Len(row[l].runs) # 1
      BY <2>4, <3>0
    <3> QED BY <3>1, <2>1, <2>3, <2>6, WithinColumn
  <2>8. i = off[l] + 1
    BY <2>3, <2>7
  <2>9. CASE Len(DigitsOf(row[l].runs)) <= 3
    <3>1. found # {i}
      BY <1>4, <1>6, <1>7
    <3>2. Len(DigitsOf(row[l].runs)) \in Nat
      <4>1. Spaced(row[l])
        BY ColumnFacts
      <4> QED BY <4>1, DigitsType DEF Spaced, Grouped
    <3>3. ~(Len(DigitsOf(TextMatch(i).runs)) > 3)
      BY <2>6, <2>8, <2>9, <3>2
    <3> QED BY <3>1, <3>3
  <2>10. CASE IsYear(Normalized(TextMatch(off[l] + 1)))
    BY <2>8, <2>10 DEF Tells
  <2> QED BY <2>6, <2>9, <2>10
<1> HIDE DEF p, found
<1>9. good \in SUBSET Int
  BY <1>6 DEF found
<1> HIDE DEF good
<1>10. Min(good) = p
  BY <1>5, <1>8, <1>9, LeastIsMin
<1> QED BY <1>1, <1>2, <1>4, <1>5, <1>10

-----------------------------------------------------------------------------
(* A line that OCR gave                                                     *)

\* How the digits of several runs begin, and how many there are at least.
LEMMA FirstDigits ==
    ASSUME NEW runs \in Seq(Run) \ {<<>>}, runs[1] # <<>>
    PROVE  /\ DigitsOf(runs)[1] = runs[1][1]
           /\ Len(DigitsOf(runs)) \in Nat
           /\ Len(runs) >= 3 => Len(DigitsOf(runs)) >= Len(runs[1]) + Len(runs[2]) + Len(runs[3])
<1>1. runs \in Seq(Seq(0 .. 9)) /\ runs # <<>> /\ Len(runs) \in Nat \ {0}
  BY EmptySeq DEF Run
<1>2. \A j \in 1 .. Len(runs) : Len(runs[j]) \in Nat /\ runs[j] \in Seq(0 .. 9)
  BY <1>1, ElementOfSeq, LenProperties
<1>3. Len(runs[1]) \in Nat \ {0}
  <2>1. runs[1] \in Seq(0 .. 9)
    BY <1>1, <1>2
  <2> QED BY <2>1, EmptySeq
<1>4. PICK off : Offsets(runs, off)
  BY <1>1, Flattened
<1>5. FlattenSeq(runs)[1] = runs[1][1]
  <2>1. 1 \in 1 .. Len(runs) /\ 1 \in 1 .. Len(runs[1])
    BY <1>1, <1>3
  <2>2. FlattenSeq(runs)[off[1] + 1] = runs[1][1]
    BY <2>1, <1>4 DEF Offsets
  <2> QED BY <2>2, <1>4 DEF Offsets
<1>6. ASSUME Len(runs) >= 3
      PROVE  Len(FlattenSeq(runs)) >= Len(runs[1]) + Len(runs[2]) + Len(runs[3])
  <2>1. \A k \in 1 .. Len(runs) : off[k + 1] = off[k] + Len(runs[k])
    BY <1>4 DEF Offsets
  <2>2. 1 \in 1 .. Len(runs) /\ 2 \in 1 .. Len(runs) /\ 3 \in 1 .. Len(runs)
    BY <1>1, <1>6
  <2>3. off[1] = 0 /\ off[1 + 1] = off[1] + Len(runs[1]) /\ off[2 + 1] = off[2] + Len(runs[2])
        /\ off[3 + 1] = off[3] + Len(runs[3])
    BY <2>1, <2>2, <1>4, Zenon DEF Offsets
  <2>4. off[4] = Len(runs[1]) + Len(runs[2]) + Len(runs[3])
    <3>1. Len(runs[1]) \in Nat /\ Len(runs[2]) \in Nat /\ Len(runs[3]) \in Nat
      BY <2>2, <1>2
    <3>2. off[2] = Len(runs[1])
      BY <2>3, <3>1
    <3>3. off[3] = off[2] + Len(runs[2]) /\ off[4] = off[3] + Len(runs[3])
      BY <2>3
    <3> QED BY <3>2, <3>3
  <2>5. off[4] <= off[Len(runs) + 1]
    <3>1. CASE Len(runs) = 3
      BY <3>1, <2>4, <2>2, <1>2
    <3>2. CASE Len(runs) # 3
      <4>1. 4 \in 1 .. Len(runs) /\ Len(runs) + 1 \in 4 .. Len(runs) + 1
        <5>1. \A x \in Nat : x >= 3 /\ x # 3 => 4 \in 1 .. x /\ x + 1 \in 4 .. x + 1
          OBVIOUS
        <5> QED BY <5>1, <3>2, <1>1, <1>6
      <4> QED BY <4>1, <1>4 DEF Offsets
    <3> QED BY <3>1, <3>2
  <2>6. off[Len(runs) + 1] = Len(FlattenSeq(runs)) /\ off[Len(runs) + 1] \in Nat
    <3>1. Len(runs) + 1 \in 1 .. Len(runs) + 1
      BY <1>1
    <3> QED BY <3>1, <1>4 DEF Offsets
  <2> QED BY <2>4, <2>5, <2>6, <2>2, <1>2
<1>7. Len(DigitsOf(runs)) \in Nat
  BY DigitsType
<1> QED BY <1>5, <1>6, <1>7 DEF DigitsOf

\* What one line of OCR gives, of columns of one size.
OneSizeFacts(n, z, off) ==
    /\ n \in Nat \ {0} /\ z \in Nat \ {0} /\ Len(Line) \in Nat \ {0}
    /\ DOMAIN Line = 1 .. Len(Line)
    /\ off[1] = 0
    /\ Connected = {1}
    /\ Starts(4) \subseteq 1 .. Len(Line) /\ 1 \in Starts(4)
    /\ Len(row[1].runs) = z /\ Len(row[1].runs[1]) \in 1 .. 3
    /\ row[1].sign = "none" /\ ~row[1].currency
    /\ Spaced(row[1]) /\ row[1].runs \in Seq(Run) \ {<<>>} /\ DOMAIN row[1].runs = 1 .. z
    /\ row[1].marks = [j \in 1 .. z - 1 |-> "space"]
    /\ row[1] = [sign |-> "none", currency |-> row[1].currency,
                 runs |-> row[1].runs, marks |-> row[1].marks]
    /\ Len(DigitsOf(row[1].runs)) = Len(row[1].runs[1]) + 3 * (z - 1)
    /\ Meaning(printed[1]) = [negative |-> FALSE, whole |-> DigitsOf(row[1].runs), part |-> <<>>]
    /\ Tells(Meaning(printed[1]))
    /\ \A j \in 1 .. z : Line[j].digits = row[1].runs[j]
    /\ Line[1].sign = "none" /\ ~Line[1].currency

\* Nothing but a space ever stands in such a line, so that all of it is one
\* connected candidate.
LEMMA OneSizeLine ==
    ASSUME NEW n, NEW s, NEW off, RowInLine(n, s, off), OneSize
    PROVE  OneSizeFacts(n, Len(row[1].runs), off)
<1> DEFINE z == Len(row[1].runs)
<1>1. /\ n \in Nat \ {0} /\ DOMAIN row = 1 .. n /\ Len(row) = n /\ 1 \in 1 .. n
      /\ DOMAIN Line = 1 .. Len(Line) /\ off[1] = 0
  <2>1. n \in Nat \ {0} /\ row = [i \in 1 .. n |-> Write(printed[i], s)]
    BY DEF RowInLine, RowOf
  <2>2. DOMAIN row = 1 .. n /\ Len(row) = n /\ 1 \in 1 .. n
    BY <2>1
  <2>3. DOMAIN Line = 1 .. Len(Line) /\ off[1] = 0
    BY DEF RowInLine, LineAt
  <2> QED BY <2>1, <2>2, <2>3
<1>2. \A k \in 1 .. n : /\ row[k].sign = "none" /\ ~row[k].currency
                        /\ Len(row[k].runs) = z /\ Len(row[k].runs[1]) <= 3
  BY <1>1, Zenon DEF OneSize
<1>3. ~IsYear(Meaning(printed[1]))
  BY Zenon DEF OneSize
<1>4. /\ Spaced(row[1]) /\ row[1].runs \in Seq(Run) /\ z \in Nat \ {0}
      /\ \A j \in 1 .. z : off[1] + j \in DOMAIN Line /\ Line[off[1] + j] = Piece(1)[j]
      /\ Len(Line) \in Nat
  BY <1>1, ColumnFacts
<1>5. \A j \in 1 .. z : j \in DOMAIN Line /\ Line[j] = Piece(1)[j]
  <2> SUFFICES ASSUME NEW j \in 1 .. z PROVE j \in DOMAIN Line /\ Line[j] = Piece(1)[j]
    OBVIOUS
  <2>1. off[1] + j = j
    BY <1>1, <1>4
  <2> QED BY <2>1, <1>4
<1>6. DOMAIN row[1].runs = 1 .. z /\ 1 \in 1 .. z
  BY <1>4, LenProperties
<1>7. Grouped(row[1].runs) /\ Len(row[1].runs[1]) \in 1 .. 3
  <2>1. Grouped(row[1].runs)
    BY <1>4 DEF Spaced
  <2>2. Len(row[1].runs[1]) \in Nat \ {0}
    BY <2>1, GroupedDigits
  <2>3. Len(row[1].runs[1]) <= 3
    BY <1>1, <1>2
  <2>4. \A x \in Nat \ {0} : x <= 3 => x \in 1 .. 3
    OBVIOUS
  <2> QED BY <2>1, <2>2, <2>3, <2>4
<1>8. Len(Line) \in Nat \ {0}
  BY <1>1, <1>4, <1>5, <1>6
<1>9. Connected = {1}
  <2>1. 1 \in Connected
    BY <1>1, <1>8 DEF Connected
  <2>2. ASSUME NEW i \in Connected, i # 1 PROVE FALSE
    <3>1. i \in 1 .. Len(Line)
      BY <1>1 DEF Connected
    <3>2. PICK k \in 1 .. n : \E j \in 1 .. Len(row[k].runs) : i = off[k] + j
      BY <3>1 DEF RowInLine, LineAt
    <3>3. PICK j \in 1 .. Len(row[k].runs) : i = off[k] + j
      BY <3>2
    <3>4. CASE j = 1
      <4>1. k # 1
        BY <3>3, <3>4, <2>2, <1>1
      <4>2. k - 1 \in 1 .. n /\ k > 1
        BY <4>1, <1>1
      <4>3. Line[off[k] + j] = Piece(k)[j] /\ j \in DOMAIN row[k].runs
        <5>1. row[k].runs \in Seq(Run) /\ Line[off[k] + j] = Piece(k)[j]
          BY ColumnFacts
        <5> QED BY <5>1, LenProperties
      <4>4. row[k].sign = "none" /\ ~row[k].currency /\ row[k - 1].sign = "none"
        BY <4>2, <1>2
      <4>5. Line[i].joins
        BY <4>2, <4>3, <4>4, <3>3 DEF Piece
      <4> QED BY <4>5, <2>2 DEF Connected
    <3>5. CASE j # 1
      <4>1. j \in 2 .. Len(row[k].runs) /\ Len(row[k].runs[1]) <= 3
        <5>1. Len(row[k].runs) \in Nat
          BY ColumnFacts
        <5> QED BY <5>1, <3>5, <1>2
      <4>2. off[k] + j \notin Connected
        BY <4>1, WithinColumn
      <4> QED BY <4>2, <3>3, <2>2
    <3> QED BY <3>4, <3>5
  <2> QED BY <2>1, <2>2
<1>10. Starts(4) \subseteq 1 .. Len(Line) /\ 1 \in Starts(4)
  BY <1>1, <1>8 DEF Starts
<1>11. row[1].marks = [j \in 1 .. z - 1 |-> "space"]
  <2>1. row[1] = [sign |-> row[1].sign, currency |-> row[1].currency, runs |-> row[1].runs,
                  marks |-> [j \in 1 .. z - 1 |-> "space"]]
    BY <1>4, Zenon DEF Spaced
  <2> QED BY <2>1
<1>12. row[1] = [sign |-> "none", currency |-> row[1].currency,
                 runs |-> row[1].runs, marks |-> row[1].marks]
  <2>1. row[1] = [sign |-> row[1].sign, currency |-> row[1].currency, runs |-> row[1].runs,
                  marks |-> [j \in 1 .. z - 1 |-> "space"]]
    BY <1>4, Zenon DEF Spaced
  <2> QED BY <2>1, <1>1, <1>2, <1>11, Zenon
<1>13. Len(DigitsOf(row[1].runs)) = Len(row[1].runs[1]) + 3 * (z - 1)
  BY <1>7, GroupedDigits
<1>14. /\ Meaning(printed[1]) = [negative |-> FALSE, whole |-> DigitsOf(row[1].runs), part |-> <<>>]
       /\ Tells(Meaning(printed[1]))
  <2>1. /\ Meaning(printed[1]) = [negative |-> row[1].sign # "none",
                                  whole |-> DigitsOf(row[1].runs), part |-> <<>>]
        /\ Meaning(printed[1]) # Unread
    BY <1>1, SpacedMeaning
  <2>2. (row[1].sign # "none") = FALSE
    BY <1>1, <1>2
  <2> QED BY <2>1, <2>2, <1>3 DEF Tells
<1>15. \A j \in 1 .. z : Line[j].digits = row[1].runs[j]
  <2> SUFFICES ASSUME NEW j \in 1 .. z PROVE Line[j].digits = row[1].runs[j]
    OBVIOUS
  <2>1. Line[j] = Piece(1)[j] /\ j \in DOMAIN row[1].runs
    BY <1>5, <1>6
  <2>2. Piece(1)[j].digits = row[1].runs[j]
    BY <2>1 DEF Piece
  <2> QED BY <2>1, <2>2, Zenon
<1>16. Line[1].sign = "none" /\ ~Line[1].currency
  <2>1. Line[1] = Piece(1)[1] /\ row[1].sign = "none" /\ ~row[1].currency
    BY <1>1, <1>2, <1>5, <1>6
  <2>2. 1 \in DOMAIN row[1].runs
    BY <1>6
  <2>3. Piece(1)[1].sign = "none" /\ ~Piece(1)[1].currency
    BY <2>1, <2>2 DEF Piece
  <2> QED BY <2>1, <2>3, Zenon
<1>17. row[1].sign = "none" /\ ~row[1].currency
  BY <1>1, <1>2
<1>18. row[1].runs # <<>>
  BY <1>7 DEF Grouped
<1> HIDE DEF z
<1>19. OneSizeFacts(n, z, off)
  BY <1>1, <1>4, <1>6, <1>7, <1>8, <1>9, <1>10, <1>11, <1>12, <1>13, <1>14, <1>15, <1>16, <1>17, <1>18,
     Zenon DEF OneSizeFacts, z
<1> QED BY <1>19 DEF z

\* The first column, taken out of the candidate, is read as it was meant.
LEMMA OcrValue ==
    ASSUME NEW n, NEW z \in 1 .. 5, NEW off, OneSizeFacts(n, z, off),
           NEW w, w.sign = "none", w.runs = row[1].runs, w.marks = [j \in 1 .. z - 1 |-> "space"]
    PROVE  Normalized(w) = Meaning(printed[1])
<1>1. /\ Len(row[1].runs[1]) \in 1 .. 3
      /\ Len(DigitsOf(row[1].runs)) = Len(row[1].runs[1]) + 3 * (z - 1)
      /\ Meaning(printed[1]) = [negative |-> FALSE, whole |-> DigitsOf(row[1].runs), part |-> <<>>]
  BY DEF OneSizeFacts
<1>2. \A x \in 1 .. 3 : \A y \in 1 .. 5 : x + 3 * (y - 1) \in Nat /\ x + 3 * (y - 1) <= 16
  OBVIOUS
<1>3. Len(DigitsOf(w.runs)) \in Nat /\ Len(DigitsOf(w.runs)) <= 16
  BY <1>1, <1>2
<1>4. w.sign # "trailing" /\ (w.sign # "none") = FALSE
  OBVIOUS
<1>5. Normalized(w) = [negative |-> w.sign # "none", whole |-> DigitsOf(w.runs), part |-> <<>>]
  BY <1>3, <1>4, SpacesOnly
<1> QED BY <1>1, <1>4, <1>5

\* A single column is the line.
LEMMA SingleColumn ==
    ASSUME NEW n, NEW s, NEW off, RowInLine(n, s, off), NEW z, OneSizeFacts(n, z, off), n = 1
    PROVE  /\ Len(Line) = z /\ Starts(4) = {1}
           /\ Match(Connected, 1) = row[1] /\ Match(Starts(4), 1) = row[1]
<1>1. /\ z \in Nat \ {0} /\ Len(row[1].runs) = z /\ off[1] = 0 /\ DOMAIN Line = 1 .. Len(Line)
      /\ Connected = {1} /\ Starts(4) \subseteq 1 .. Len(Line) /\ 1 \in Starts(4)
      /\ Len(row[1].runs[1]) \in 1 .. 3 /\ row[1].sign = "none"
      /\ row[1] = [sign |-> "none", currency |-> row[1].currency, runs |-> row[1].runs, marks |-> row[1].marks]
  BY DEF OneSizeFacts
<1>2. Len(Line) = z
  <2>1. 1 \in 1 .. n /\ off[1 + 1] = off[1] + Len(row[1].runs) /\ off[n + 1] = Len(Line)
    BY DEF RowInLine, LineAt
  <2> QED BY <2>1, <1>1
<1>3. \A j \in 2 .. z : off[1] + j \notin Starts(4) /\ off[1] + j = j
  <2> SUFFICES ASSUME NEW j \in 2 .. z PROVE off[1] + j \notin Starts(4) /\ off[1] + j = j
    OBVIOUS
  <2>1. 1 \in 1 .. n /\ 4 \in Nat /\ j \in 2 .. Len(row[1].runs) /\ Len(row[1].runs[1]) <= 4
    <3>1. \A x \in 1 .. 3 : x <= 4
      OBVIOUS
    <3>2. j \in 2 .. Len(row[1].runs)
      BY <1>1, Zenon
    <3>3. 1 \in 1 .. n /\ 4 \in Nat
      OBVIOUS
    <3> QED BY <3>1, <3>2, <3>3, <1>1, Zenon
  <2>2. off[1] + j \notin Starts(4)
    BY <2>1, WithinColumn
  <2> QED BY <2>2, <1>1
<1>4. Starts(4) = {1}
  <2>1. \A j \in 2 .. z : j \notin Starts(4)
    BY <1>3, Zenon
  <2>2. \A j \in 1 .. z : j = 1 \/ j \in 2 .. z
    BY <1>1
  <2> QED BY <2>1, <2>2, <1>1, <1>2
<1>5. ASSUME NEW starts, starts = {1} PROVE Match(starts, 1) = row[1]
  <2>1. /\ 1 \in 1 .. n /\ starts \in SUBSET DOMAIN Line /\ off[1] + 1 \in starts /\ off[1] + 1 = 1
    BY <1>1, <1>2, <1>5
  <2>2. \A j \in 2 .. Len(row[1].runs) : off[1] + j \notin starts
    BY <1>1, <1>5
  <2>3. Match(starts, off[1] + 1) = [sign |-> SignInLine(row[1]), currency |-> row[1].currency,
                                     runs |-> row[1].runs, marks |-> row[1].marks]
    <3>1. 1 = n \/ off[1 + 1] + 1 \in starts
      OBVIOUS
    <3> QED BY <2>1, <2>2, <3>1, ColumnMatch, Zenon
  <2>4. SignInLine(row[1]) = "none"
    BY <1>1 DEF SignInLine
  <2> QED BY <2>1, <2>3, <2>4, <1>1, Zenon
<1> QED BY <1>1, <1>2, <1>4, <1>5

\* A single column of one, two, three or five runs is not divided.
LEMMA FewRuns ==
    ASSUME NEW w, NEW z \in {1, 2, 3, 5}, Len(w.runs) = z
    PROVE  ManyPeriods(w) = w
<1> DEFINE n == Len(w.runs)
           sizes == {n \div p : p \in {q \in {2, 3} : n % q = 0 /\ n \div q \in 2 .. 4}}
<1>1. n < 4 \/ sizes = {}
  OBVIOUS
<1> QED BY <1>1 DEF ManyPeriods

\* _extract_preferred_ocr_numeric_match takes a single column as it stands.
LEMMA SingleIsRead ==
    ASSUME NEW n, NEW s, NEW off, RowInLine(n, s, off), NEW z \in {1, 2, 3, 5},
           OneSizeFacts(n, z, off), n = 1
    PROVE  InOcr = Meaning(printed[1])
<1> DEFINE Value(c) == Normalized(ManyPeriods(Candidate(c)))
           Size(c) == Len(DigitsOf(Candidate(c).runs))
           found == {c \in OcrCandidates : Tells(Value(c))}
           large == \E c \in found : Size(c) >= 6
           good == {c \in found : /\ found = {c} \/ (Size(c) > 3 /\ ~(large /\ Size(c) = 4))
                                  /\ ~FormCode(DigitsOf(Candidate(c).runs))}
           all == {c \in Connected : Len(Match(Connected, c).runs) > 1}
                  \cup {Len(Line) + i : i \in Starts(4)}
<1>1. /\ Len(Line) = z /\ Starts(4) = {1} /\ Connected = {1} /\ Len(row[1].runs) = z
      /\ Match(Connected, 1) = row[1] /\ Match(Starts(4), 1) = row[1]
  <2>1. Connected = {1} /\ Len(row[1].runs) = z
    BY DEF OneSizeFacts
  <2> QED BY <2>1, SingleColumn
<1>2. all = (IF z > 1 THEN {1} ELSE {}) \cup {z + 1}
  BY <1>1
<1>3. OcrCandidates = {c \in all : \A d \in all : d < c => Candidate(d) # Candidate(c)}
  BY DEF OcrCandidates
<1>4. \A c \in all : Candidate(c) = row[1]
  <2>1. (z + 1) - z = 1 /\ ~(z + 1 <= z) /\ 1 <= z
    OBVIOUS
  <2>2. Candidate(z + 1) = row[1]
    BY <2>1, <1>1 DEF Candidate
  <2>3. Candidate(1) = row[1]
    BY <2>1, <1>1 DEF Candidate
  <2> QED BY <2>2, <2>3, <1>2
<1> HIDE DEF all
<1>5. \E c : OcrCandidates = {c}
  <2>1. CASE z > 1
    <3>1. all = {1, z + 1} /\ 1 < z + 1 /\ ~(z + 1 < 1) /\ ~(1 < 1) /\ ~(z + 1 < z + 1)
      BY <2>1, <1>2
    <3>2. OcrCandidates = {1}
      BY <3>1, <1>3, <1>4
    <3> QED BY <3>2
  <2>2. CASE ~(z > 1)
    <3>1. all = {2}
      BY <2>2, <1>2
    <3>2. OcrCandidates = {2}
      BY <3>1, <1>3
    <3> QED BY <3>2
  <2> QED BY <2>1, <2>2
<1>6. PICK c : OcrCandidates = {c}
  BY <1>5
<1>7. c \in all /\ Candidate(c) = row[1] /\ c \in Int
  <2>1. c \in all
    BY <1>6, <1>3
  <2> QED BY <2>1, <1>4, <1>2
<1>8. Value(c) = Meaning(printed[1])
  <2>1. ManyPeriods(row[1]) = row[1]
    BY <1>1, FewRuns
  <2>2. row[1].sign = "none" /\ row[1].marks = [j \in 1 .. z - 1 |-> "space"] /\ z \in 1 .. 5
    BY DEF OneSizeFacts
  <2>3. Normalized(row[1]) = Meaning(printed[1])
    BY <2>2, OcrValue
  <2> QED BY <2>1, <2>3, <1>7
<1>9. Tells(Meaning(printed[1]))
  BY DEF OneSizeFacts
<1> HIDE DEF Value, Size
<1>10. found = {c}
  BY <1>6, <1>8, <1>9
<1>11. InOcr = IF found = {} THEN Unread ELSE Value(IF good = {} THEN Max(found) ELSE Min(good))
  BY Zenon DEF InOcr, Value, Size
<1>12. good \subseteq {c}
  BY <1>10
<1> HIDE DEF found, good
<1>13. (IF good = {} THEN Max(found) ELSE Min(good)) = c
  <2>1. Max({c}) = c /\ Min({c}) = c
    BY <1>7 DEF Max, Min
  <2>2. good = {} \/ good = {c}
    BY <1>12
  <2> QED BY <2>1, <2>2, <1>10
<1> QED BY <1>8, <1>10, <1>11, <1>13

\* What the line holds are runs.
LEMMA RunsOfLine ==
    ASSUME NEW n, NEW s, NEW off, RowInLine(n, s, off), NEW i \in DOMAIN Line
    PROVE  Line[i].digits \in Run /\ Len(Line[i].digits) \in Nat \ {0}
<1>1. i \in 1 .. Len(Line)
  BY DEF RowInLine, LineAt
<1>2. PICK k \in 1 .. n : \E j \in 1 .. Len(row[k].runs) : i = off[k] + j
  BY <1>1 DEF RowInLine, LineAt
<1>3. PICK j \in 1 .. Len(row[k].runs) : i = off[k] + j
  BY <1>2
<1>4. /\ Spaced(row[k]) /\ row[k].runs \in Seq(Run) /\ Line[i] = Piece(k)[j]
      /\ Len(row[k].runs) \in Nat
  BY <1>3, ColumnFacts
<1>5. j \in DOMAIN row[k].runs
  BY <1>4, LenProperties
<1>6. Line[i].digits = row[k].runs[j]
  BY <1>4, <1>5 DEF Piece
<1>7. row[k].runs[j] \in Run
  BY <1>4, ElementOfSeq
<1>8. Len(row[k].runs[j]) \in Nat \ {0}
  <2>1. Grouped(row[k].runs)
    BY <1>4 DEF Spaced
  <2>2. CASE j = 1
    BY <2>1, <2>2, GroupedDigits
  <2>3. CASE j # 1
    <3>1. j \in 2 .. Len(row[k].runs)
      BY <1>4, <2>3
    <3>2. Len(row[k].runs[j]) = 3
      BY <2>1, <3>1 DEF Grouped
    <3> QED BY <3>2
  <2> QED BY <2>2, <2>3
<1> QED BY <1>6, <1>7, <1>8

\* Two or three columns of one size.
LEMMA LineLength ==
    ASSUME NEW n, NEW s, NEW off, RowInLine(n, s, off), OneSize, n \in {2, 3}
    PROVE  Len(Line) = n * Len(row[1].runs)
<1> DEFINE z == Len(row[1].runs)
<1>1. Len(row) = n /\ DOMAIN row = 1 .. n /\ 1 \in 1 .. n /\ 2 \in 1 .. n
  <2>1. n \in Nat \ {0} /\ row = [i \in 1 .. n |-> Write(printed[i], s)]
    BY DEF RowInLine, RowOf
  <2> QED BY <2>1
<1>2. \A k \in 1 .. n : Len(row[k].runs) = z
  BY <1>1, Zenon DEF OneSize
<1>3. z \in Nat
  BY <1>1, ColumnFacts
<1>4. \A k \in 1 .. n : off[k + 1] = off[k] + Len(row[k].runs)
  BY DEF RowInLine, LineAt
<1>5. off[1] = 0 /\ off[n + 1] = Len(Line)
  BY DEF RowInLine, LineAt
<1> HIDE DEF z
<1>6. \A k \in 1 .. n : off[k + 1] = off[k] + z
  BY <1>2, <1>4
<1>7. off[2] = z /\ off[3] = 2 * z
  <2>1. off[1 + 1] = off[1] + z /\ off[2 + 1] = off[2] + z
    BY <1>1, <1>6
  <2> QED BY <2>1, <1>3, <1>5
<1>8. CASE n = 2
  BY <1>5, <1>7, <1>8 DEF z
<1>9. CASE n = 3
  <2>1. off[3 + 1] = off[3] + z
    BY <1>6, <1>9
  <2>2. off[4] = 3 * z
    BY <2>1, <1>3, <1>7
  <2> QED BY <2>2, <1>5, <1>9 DEF z
<1> QED BY <1>8, <1>9

\* The larger of the amounts that the runs can be divided into is the size.
LEMMA LargerAmounts ==
    ASSUME NEW w, NEW n, NEW z, Len(w.runs) = n, Len(w.runs[1]) # 4,
           \/ n = 4 /\ z = 2
           \/ n = 6 /\ z = 3
           \/ n = 8 /\ z = 4
           \/ n = 9 /\ z = 3
           \/ n = 12 /\ z = 4
    PROVE  ManyPeriods(w) = FirstRuns(w, z)
<1> DEFINE Sizes(m) == {m \div p : p \in {q \in {2, 3} : m % q = 0 /\ m \div q \in 2 .. 4}}
           sizes == Sizes(n)
<1>1. z \in sizes /\ \A t \in sizes : t <= z
  <2>1. CASE n = 4 /\ z = 2
    BY <2>1
  <2>2. CASE n = 6 /\ z = 3
    BY <2>2
  <2>3. CASE n = 8 /\ z = 4
    BY <2>3
  <2>4. CASE n = 9 /\ z = 3
    BY <2>4
  <2>5. CASE n = 12 /\ z = 4
    BY <2>5
  <2> QED BY <2>1, <2>2, <2>3, <2>4, <2>5
<1>2. n >= 4 /\ n \in Nat /\ z \in Nat /\ sizes \subseteq Int
  OBVIOUS
<1> HIDE DEF sizes
<1>3. (CHOOSE x \in sizes : \A t \in sizes : t <= x) = z
  <2> DEFINE best == CHOOSE x \in sizes : \A t \in sizes : t <= x
  <2>1. best \in sizes /\ \A t \in sizes : t <= best
    BY <1>1
  <2> HIDE DEF best
  <2>2. best \in Int /\ z \in Int /\ z <= best /\ best <= z
    BY <1>1, <1>2, <2>1
  <2> QED BY <2>2 DEF best
<1>4. ManyPeriods(w) =
        IF n < 4 \/ sizes = {} THEN w
        ELSE FirstRuns(w, CHOOSE x \in sizes : \A t \in sizes :
                              IF Len(w.runs[1]) = 4 THEN x <= t ELSE t <= x)
  <2> DEFINE Split(m, S) ==
               IF m < 4 \/ S = {} THEN w
               ELSE FirstRuns(w, CHOOSE x \in S : \A t \in S :
                                     IF Len(w.runs[1]) = 4 THEN x <= t ELSE t <= x)
  <2>1. ManyPeriods(w) = Split(Len(w.runs), Sizes(Len(w.runs)))
    BY Zenon DEF ManyPeriods
  <2> HIDE DEF Split, Sizes
  <2>2. ManyPeriods(w) = Split(n, sizes)
    BY <2>1, Zenon DEF sizes
  <2> QED BY <2>2, Zenon DEF Split
<1>5. (CHOOSE x \in sizes : \A t \in sizes : IF Len(w.runs[1]) = 4 THEN x <= t ELSE t <= x)
        = (CHOOSE x \in sizes : \A t \in sizes : t <= x)
  BY Zenon
<1>6. ~(n < 4 \/ sizes = {})
  BY <1>1, <1>2
<1> QED BY <1>3, <1>4, <1>5, <1>6, Zenon

\* It takes the first of two or three columns: the connected candidate comes first,
\* no other is preferred to it, and ManyPeriods divides it at the size.
LEMMA ManyAreRead ==
    ASSUME NEW n, NEW s, NEW off, RowInLine(n, s, off), OneSize, NEW z,
           OneSizeFacts(n, z, off), (n = 2 /\ z \in 2 .. 4) \/ (n = 3 /\ z \in 3 .. 4)
    PROVE  InOcr = Meaning(printed[1])
<1> DEFINE N == Len(Line)
           w == Match(Connected, 1)
           runs == [j \in 1 .. N |-> Line[j].digits]
           Value(c) == Normalized(ManyPeriods(Candidate(c)))
           Size(c) == Len(DigitsOf(Candidate(c).runs))
           found == {c \in OcrCandidates : Tells(Value(c))}
           large == \E c \in found : Size(c) >= 6
           good == {c \in found : /\ found = {c} \/ (Size(c) > 3 /\ ~(large /\ Size(c) = 4))
                                  /\ ~FormCode(DigitsOf(Candidate(c).runs))}
           all == {c \in Connected : Len(Match(Connected, c).runs) > 1}
                  \cup {Len(Line) + i : i \in Starts(4)}
<1>1. /\ Connected = {1} /\ DOMAIN Line = 1 .. N /\ N \in Nat \ {0}
      /\ Starts(4) \subseteq 1 .. N
      /\ Len(row[1].runs) = z /\ Len(row[1].runs[1]) \in 1 .. 3
      /\ Spaced(row[1]) /\ row[1].runs \in Seq(Run) /\ DOMAIN row[1].runs = 1 .. z
      /\ Len(DigitsOf(row[1].runs)) = Len(row[1].runs[1]) + 3 * (z - 1)
      /\ \A j \in 1 .. z : Line[j].digits = row[1].runs[j]
      /\ Line[1].sign = "none" /\ ~Line[1].currency
      /\ Tells(Meaning(printed[1]))
  BY Zenon DEF OneSizeFacts
<1>2. /\ \/ N = 4 /\ z = 2
         \/ N = 6 /\ z = 3
         \/ N = 8 /\ z = 4
         \/ N = 9 /\ z = 3
         \/ N = 12 /\ z = 4
      /\ z \in 2 .. 4 /\ N >= 4 /\ z <= N
  <2>1. N = n * z
    BY <1>1, LineLength
  <2> HIDE DEF N
  <2>2. \A x \in 2 .. 4 : x = 2 \/ x = 3 \/ x = 4
    OBVIOUS
  <2>3. \A x \in 3 .. 4 : x \in 2 .. 4 /\ (x = 3 \/ x = 4)
    OBVIOUS
  <2>4. CASE n = 2 /\ z \in 2 .. 4
    <3>1. z = 2 \/ z = 3 \/ z = 4
      BY <2>2, <2>4
    <3>2. N = 2 * z
      BY <2>1, <2>4, Zenon
    <3>3. CASE z = 2
      <4>1. N = 2 * 2
        BY <3>2, <3>3
      <4>2. N = 4
        BY <4>1
      <4>3. 2 \in 2 .. 4 /\ 4 >= 4 /\ 2 <= 4
        OBVIOUS
      <4> QED BY <4>2, <4>3, <3>3
    <3>4. CASE z = 3
      <4>1. N = 2 * 3
        BY <3>2, <3>4
      <4>2. N = 6
        BY <4>1
      <4>3. 3 \in 2 .. 4 /\ 6 >= 4 /\ 3 <= 6
        OBVIOUS
      <4> QED BY <4>2, <4>3, <3>4
    <3>5. CASE z = 4
      <4>1. N = 2 * 4
        BY <3>2, <3>5
      <4>2. N = 8
        BY <4>1
      <4>3. 4 \in 2 .. 4 /\ 8 >= 4 /\ 4 <= 8
        OBVIOUS
      <4> QED BY <4>2, <4>3, <3>5
    <3> QED BY <3>1, <3>3, <3>4, <3>5
  <2>5. CASE n = 3 /\ z \in 3 .. 4
    <3>1. z = 3 \/ z = 4
      BY <2>3, <2>5
    <3>2. N = 3 * z
      BY <2>1, <2>5, Zenon
    <3>4. CASE z = 3
      <4>1. N = 3 * 3
        BY <3>2, <3>4
      <4>2. N = 9
        BY <4>1
      <4>3. 3 \in 2 .. 4 /\ 9 >= 4 /\ 3 <= 9
        OBVIOUS
      <4> QED BY <4>2, <4>3, <3>4
    <3>5. CASE z = 4
      <4>1. N = 3 * 4
        BY <3>2, <3>5
      <4>2. N = 12
        BY <4>1
      <4>3. 4 \in 2 .. 4 /\ 12 >= 4 /\ 4 <= 12
        OBVIOUS
      <4> QED BY <4>2, <4>3, <3>5
    <3> QED BY <3>1, <3>4, <3>5
  <2> QED BY <2>4, <2>5
<1>3. w = [sign |-> Line[1].sign, currency |-> Line[1].currency, runs |-> runs,
           marks |-> [j \in 1 .. N - 1 |-> "space"]]
  <2> DEFINE starts == Connected
  <2>1. starts \in SUBSET (1 .. Len(Line)) /\ 1 \in starts /\ Len(Line) \in Nat
        /\ Len(Line) \in 1 .. Len(Line) /\ \A j \in starts : j <= 1 \/ j > Len(Line)
    BY <1>1
  <2>2. w = [sign |-> Line[1].sign, currency |-> Line[1].currency,
             runs |-> [j \in 1 .. N - 1 + 1 |-> Line[1 + j - 1].digits],
             marks |-> [j \in 1 .. N - 1 |-> "space"]]
    <3> HIDE DEF starts
    <3>1. Match(starts, 1) =
             [sign |-> Line[1].sign, currency |-> Line[1].currency,
              runs |-> [j \in 1 .. Len(Line) - 1 + 1 |-> Line[1 + j - 1].digits],
              marks |-> [j \in 1 .. Len(Line) - 1 |-> "space"]]
      BY <2>1, MatchIs
    <3> QED BY <3>1 DEF starts
  <2>3. [j \in 1 .. N - 1 + 1 |-> Line[1 + j - 1].digits] = runs
    <3>1. N - 1 + 1 = N
      BY <1>1
    <3>2. \A j \in 1 .. N : 1 + j - 1 = j
      BY <1>1
    <3> QED BY <3>1, <3>2
  <2> QED BY <2>2, <2>3
<1>4. w.sign = "none" /\ w.runs = runs /\ w.marks = [j \in 1 .. N - 1 |-> "space"]
      /\ DOMAIN w = {"sign", "currency", "runs", "marks"}
  <2> DEFINE m == [j \in 1 .. N - 1 |-> "space"]
  <2>1. Line[1].sign = "none"
    BY <1>1
  <2> HIDE DEF w, runs, N, m
  <2>2. w = [sign |-> Line[1].sign, currency |-> Line[1].currency, runs |-> runs, marks |-> m]
    BY <1>3 DEF m
  <2>3. w.sign = Line[1].sign /\ w.runs = runs /\ w.marks = m
        /\ DOMAIN w = {"sign", "currency", "runs", "marks"}
    BY <2>2
  <2> QED BY <2>1, <2>3 DEF m
<1>5. \A j \in 1 .. N : Line[j].digits \in Run /\ Len(Line[j].digits) \in Nat \ {0}
  BY <1>1, RunsOfLine
<1>6. /\ runs \in Seq(Run) \ {<<>>} /\ Len(runs) = N
      /\ \A j \in 1 .. N : runs[j] = Line[j].digits
  <2>1. runs \in [1 .. N -> Run] /\ N \in Nat \ {0}
    BY <1>1, <1>5
  <2>2. runs \in Seq(Run) /\ Len(runs) = N
    BY <2>1
  <2> HIDE DEF N
  <2>3. Len(<<>>) = 0 /\ N # 0
    BY <2>1
  <2>4. runs # <<>>
    BY <2>2, <2>3
  <2> QED BY <2>2, <2>4
<1> HIDE DEF N, w, runs
<1>7. \A j \in 1 .. z : runs[j] = row[1].runs[j]
  <2>1. \A j \in 1 .. z : j \in 1 .. N
    BY <1>1, <1>2
  <2> QED BY <2>1, <1>1, <1>6
<1>8. 1 \in 1 .. z /\ 2 \in 1 .. z /\ 3 \in 1 .. N /\ 1 \in 1 .. N
  BY <1>1, <1>2
<1>9. Len(runs[1]) \in 1 .. 3 /\ Len(runs[2]) = 3 /\ Len(runs[3]) \in Nat \ {0}
      /\ runs[1] # <<>> /\ runs[1][1] # 0
  <2>1. runs[1] = row[1].runs[1] /\ runs[2] = row[1].runs[2]
    BY <1>7, <1>8
  <2>2. Grouped(row[1].runs)
    BY <1>1 DEF Spaced
  <2>3. 2 \in 2 .. Len(row[1].runs)
    BY <1>1, <1>2
  <2>4. Len(row[1].runs[2]) = 3 /\ row[1].runs[1] # <<>>
    BY <2>2, <2>3 DEF Grouped
  <2>5. Len(runs[3]) \in Nat \ {0}
    BY <1>5, <1>6, <1>8
  <2>6. row[1].runs[1][1] # 0
    <3>1. \A x \in 1 .. 3 : \A y \in 2 .. 4 : x + 3 * (y - 1) # 1
      OBVIOUS
    <3>2. Len(DigitsOf(row[1].runs)) # 1
      BY <3>1, <1>1, <1>2
    <3> QED BY <3>2, <1>1 DEF Spaced
  <2> QED BY <2>1, <2>4, <2>5, <2>6, <1>1
<1>10. /\ Len(DigitsOf(runs)) \in Nat /\ Len(DigitsOf(runs)) > 4
       /\ ~FormCode(DigitsOf(runs))
  <2>1. /\ Len(DigitsOf(runs)) \in Nat /\ DigitsOf(runs)[1] = runs[1][1]
        /\ Len(runs) >= 3 => Len(DigitsOf(runs)) >= Len(runs[1]) + Len(runs[2]) + Len(runs[3])
    BY <1>6, <1>9, FirstDigits
  <2>2. Len(runs) >= 3
    BY <1>1, <1>2, <1>6
  <2>3. \A x \in 1 .. 3 : \A y \in Nat \ {0} : \A t \in Nat : t >= x + 3 + y => t > 4
    OBVIOUS
  <2>4. Len(DigitsOf(runs)) > 4
    BY <2>1, <2>2, <2>3, <1>9
  <2> QED BY <2>1, <2>4, <1>9 DEF FormCode
<1>11. Candidate(1) = w
  <2>1. 1 <= N
    BY <1>1
  <2> QED BY <2>1 DEF Candidate, N, w
<1>12. ManyPeriods(w) = FirstRuns(w, z)
  <2>1. Len(w.runs) = N /\ Len(w.runs[1]) # 4
    <3>1. \A x \in 1 .. 3 : x # 4
      OBVIOUS
    <3> QED BY <3>1, <1>4, <1>6, <1>9
  <2> QED BY <2>1, <1>2, LargerAmounts
<1>13. SubSeq(runs, 1, z) = row[1].runs
  <2>1. \A i \in 1 .. z : runs[i] \in Run
    <3>1. \A i \in 1 .. z : row[1].runs[i] \in Run
      BY <1>1, ElementOfSeq
    <3> QED BY <3>1, <1>7
  <2>2. z \in Int /\ 1 <= z /\ z - 1 + 1 = z
    BY <1>2
  <2>3. /\ SubSeq(runs, 1, z) \in Seq(Run) /\ Len(SubSeq(runs, 1, z)) = z - 1 + 1
        /\ \A i \in 1 .. z - 1 + 1 : SubSeq(runs, 1, z)[i] = runs[1 + i - 1]
    BY <2>1, <2>2, SubSeqProperties
  <2>4. \A i \in 1 .. z : 1 + i - 1 = i
    BY <2>2
  <2>5. \A i \in 1 .. z : SubSeq(runs, 1, z)[i] = row[1].runs[i]
    BY <2>2, <2>3, <2>4, <1>7
  <2> QED BY <2>2, <2>3, <2>5, <1>1, SeqEqual
<1>14. SubSeq([j \in 1 .. N - 1 |-> "space"], 1, z - 1) = [j \in 1 .. z - 1 |-> "space"]
  <2> DEFINE m == [j \in 1 .. N - 1 |-> "space"]
             t == [j \in 1 .. z - 1 |-> "space"]
  <2>1. z - 1 \in Nat \ {0} /\ N - 1 \in Nat /\ z - 1 <= N - 1
    BY <1>1, <1>2
  <2>2. \A i \in 1 .. z - 1 : m[i] = "space" /\ m[i] \in {"space"}
    BY <2>1
  <2>3. t \in Seq({"space"}) /\ Len(t) = z - 1 /\ \A i \in 1 .. z - 1 : t[i] = "space"
    BY <2>1
  <2> HIDE DEF m, t
  <2>4. z - 1 \in Int /\ 1 \in Int /\ (z - 1) - 1 + 1 = z - 1 /\ 1 <= z - 1
    BY <2>1
  <2>5. /\ SubSeq(m, 1, z - 1) \in Seq({"space"})
        /\ Len(SubSeq(m, 1, z - 1)) = (z - 1) - 1 + 1
        /\ \A i \in 1 .. (z - 1) - 1 + 1 : SubSeq(m, 1, z - 1)[i] = m[1 + i - 1]
    BY <2>2, <2>4, SubSeqProperties
  <2>6. \A i \in 1 .. z - 1 : SubSeq(m, 1, z - 1)[i] = t[i]
    <3>1. \A i \in 1 .. z - 1 : 1 + i - 1 = i
      BY <2>4
    <3> QED BY <3>1, <2>2, <2>3, <2>4, <2>5
  <2>7. SubSeq(m, 1, z - 1) = t
    BY <2>3, <2>4, <2>5, <2>6, SeqEqual
  <2> QED BY <2>7 DEF m, t
<1>15. Value(1) = Meaning(printed[1])
  <2> DEFINE v == FirstRuns(w, z)
  <2>1. v = [w EXCEPT !.runs = row[1].runs, !.marks = [j \in 1 .. z - 1 |-> "space"],
                      !.currency = FALSE]
    <3>1. /\ SubSeq(w.runs, 1, z) = row[1].runs
          /\ SubSeq(w.marks, 1, z - 1) = [j \in 1 .. z - 1 |-> "space"]
      BY <1>4, <1>13, <1>14
    <3> QED BY <3>1, Zenon DEF FirstRuns
  <2> HIDE DEF v
  <2>2. v.sign = "none" /\ v.runs = row[1].runs /\ v.marks = [j \in 1 .. z - 1 |-> "space"]
    BY <2>1, <1>4
  <2>3. z \in 1 .. 5
    BY <1>2
  <2>4. Normalized(v) = Meaning(printed[1])
    BY <2>2, <2>3, OcrValue
  <2> QED BY <2>4, <1>11, <1>12 DEF v
<1>16. 1 \in OcrCandidates /\ OcrCandidates \subseteq Nat \ {0}
  <2>1. OcrCandidates = {c \in all : \A d \in all : d < c => Candidate(d) # Candidate(c)}
    BY DEF OcrCandidates
  <2>2. 1 \in all
    <3>1. Len(Match(Connected, 1).runs) > 1
      BY <1>2, <1>4, <1>6 DEF w
    <3> QED BY <3>1, <1>1
  <2>3. all \subseteq Nat \ {0}
    <3>1. \A i \in Starts(4) : i \in Nat \ {0}
      BY <1>1
    <3> QED BY <3>1, <1>1 DEF N
  <2> HIDE DEF all
  <2>4. \A d \in all : ~(d < 1)
    BY <2>3
  <2> QED BY <2>1, <2>2, <2>3, <2>4
<1>17. Size(1) > 3 /\ Size(1) # 4 /\ DigitsOf(Candidate(1).runs) = DigitsOf(runs)
  <2>1. Candidate(1).runs = runs
    BY <1>4, <1>11
  <2>2. \A x \in Nat : x > 4 => x > 3 /\ x # 4
    OBVIOUS
  <2>3. Len(DigitsOf(runs)) > 3 /\ Len(DigitsOf(runs)) # 4
    BY <1>10, <2>2
  <2> QED BY <2>1, <2>3, Zenon
<1> HIDE DEF Value, Size
<1>18. 1 \in found
  BY <1>1, <1>15, <1>16
<1>19. 1 \in good
  BY <1>10, <1>17, <1>18
<1>20. InOcr = IF found = {} THEN Unread ELSE Value(IF good = {} THEN Max(found) ELSE Min(good))
  BY Zenon DEF InOcr, Value, Size
<1>21. good \in SUBSET Int /\ \A i \in good : 1 <= i
  <2>1. good \subseteq OcrCandidates
    OBVIOUS
  <2> HIDE DEF good
  <2> QED BY <2>1, <1>16
<1> HIDE DEF found, good
<1>22. Min(good) = 1
  BY <1>19, <1>21, LeastIsMin
<1> QED BY <1>15, <1>18, <1>19, <1>20, <1>22

-----------------------------------------------------------------------------
(* Rows as printed                                                          *)

\* A row that was printed is one of amounts in one style, and what a reader made
\* of it is what the operator for that reader makes of the row.
RowsAsPrinted ==
    /\ printed # <<>> => \E n : \E s : RowOf(n, s)
    /\ reader = "cells" => printed # <<>> /\ got = FirstCell
    /\ reader = "text" => printed # <<>> /\ SpaceGrouped /\ got = InText
    /\ reader = "ocr" => printed # <<>> /\ SpaceGrouped /\ got = InOcr

\* Init prints rows of that kind.
LEMMA InitRows == Init => RowsAsPrinted
<1> SUFFICES ASSUME Init PROVE RowsAsPrinted
  OBVIOUS
<1>1. reader = "none"
  BY DEF Init
<1>2. ASSUME printed # <<>> PROVE \E n : \E s : RowOf(n, s)
  <2>1. PICK n \in 1 .. MaxColumns : printed \in [1 .. n -> Amounts]
    BY <1>2 DEF Init
  <2>2. PICK s \in Styles : row = [i \in DOMAIN printed |-> Write(printed[i], s)]
    BY <1>2 DEF Init
  <2>3. n \in Nat \ {0} /\ DOMAIN printed = 1 .. n
    BY <2>1, AmountsAssumption
  <2>4. row = [i \in 1 .. n |-> Write(printed[i], s)]
    BY <2>2, <2>3, Zenon
  <2>5. RowOf(n, s)
    BY <2>1, <2>3, <2>4 DEF RowOf
  <2> QED BY <2>5
<1> QED BY <1>1, <1>2 DEF RowsAsPrinted

\* The row decides what every reader makes of it.
LEMMA SameRow ==
    ASSUME row' = row
    PROVE  SpaceGrouped' = SpaceGrouped /\ FirstCell' = FirstCell /\ InText' = InText /\ InOcr' = InOcr
<1>1. SpaceGrouped' = SpaceGrouped
  BY DEF SpaceGrouped
<1>2. FirstCell' = FirstCell
  BY DEF FirstCell
<1>3. Line' = Line
  BY DEF Line, Piece
<1>4. \A lead : Starts(lead)' = Starts(lead)
  BY <1>3 DEF Starts
<1>5. Connected' = Connected
  BY <1>3 DEF Connected
<1>6. \A starts, i : Match(starts, i)' = Match(starts, i)
  BY <1>3 DEF Match
<1>7. InText' = InText
  BY <1>4, <1>6 DEF InText
<1>8. \A c : Candidate(c)' = Candidate(c)
  BY <1>3, <1>4, <1>5, <1>6 DEF Candidate
<1>9. OcrCandidates' = OcrCandidates
  BY <1>3, <1>4, <1>5, <1>6, <1>8 DEF OcrCandidates
<1>10. InOcr' = InOcr
  BY <1>8, <1>9 DEF InOcr
<1> QED BY <1>1, <1>2, <1>7, <1>10

\* A reader changes neither, and gives what it makes of the row.
LEMMA ReadRows == RowsAsPrinted /\ [Next]_vars => RowsAsPrinted'
<1> SUFFICES ASSUME RowsAsPrinted, [Next]_vars PROVE RowsAsPrinted'
  OBVIOUS
<1> DEFINE Rows == printed # <<>> => \E n : \E s : RowOf(n, s)
<1>0. Rows
  BY Zenon DEF RowsAsPrinted
<1>1. printed' = printed /\ row' = row
  BY DEF Next, ReadCells, ReadText, ReadOcr, ReadAnswer, Reads, vars
<1>2. Rows'
  BY <1>0, <1>1 DEF RowOf
<1>3. SpaceGrouped' = SpaceGrouped /\ FirstCell' = FirstCell /\ InText' = InText /\ InOcr' = InOcr
  BY <1>1, SameRow
<1> HIDE DEF Rows
<1>4. RowsAsPrinted <=>
        /\ Rows
        /\ reader = "cells" => printed # <<>> /\ got = FirstCell
        /\ reader = "text" => printed # <<>> /\ SpaceGrouped /\ got = InText
        /\ reader = "ocr" => printed # <<>> /\ SpaceGrouped /\ got = InOcr
  BY Zenon DEF RowsAsPrinted, Rows
<1>5. RowsAsPrinted' <=>
        /\ Rows'
        /\ reader' = "cells" => printed' # <<>> /\ got' = FirstCell'
        /\ reader' = "text" => printed' # <<>> /\ SpaceGrouped' /\ got' = InText'
        /\ reader' = "ocr" => printed' # <<>> /\ SpaceGrouped' /\ got' = InOcr'
  BY Zenon DEF RowsAsPrinted, Rows
<1>6. CASE ReadCells
  BY <1>1, <1>2, <1>3, <1>5, <1>6 DEF ReadCells, Reads
<1>7. CASE ReadText
  BY <1>1, <1>2, <1>3, <1>5, <1>7 DEF ReadText, Reads
<1>8. CASE ReadOcr
  BY <1>1, <1>2, <1>3, <1>5, <1>8 DEF ReadOcr, Reads
<1>9. CASE ReadAnswer
  BY <1>2, <1>5, <1>9 DEF ReadAnswer, Reads
<1>10. CASE UNCHANGED vars
  <2>1. reader' = reader /\ got' = got
    BY <1>10 DEF vars
  <2> QED BY <2>1, <1>1, <1>2, <1>3, <1>4, <1>5
<1> QED BY <1>6, <1>7, <1>8, <1>9, <1>10 DEF Next

\* And so the first period is what was read.
LEMMA RowsAreRead == RowsAsPrinted => FirstPeriodIsRead
<1> SUFFICES ASSUME RowsAsPrinted PROVE FirstPeriodIsRead
  OBVIOUS
<1>1. ASSUME printed # <<>> PROVE \E n : \E s : RowOf(n, s)
  BY <1>1 DEF RowsAsPrinted
<1>2. ASSUME reader = "cells", NEW k \in DOMAIN row, FirstInCells(k)
      PROVE  got = Meaning(printed[k])
  <2>1. printed # <<>> /\ got = FirstCell
    BY <1>2 DEF RowsAsPrinted
  <2>2. PICK n : \E s : RowOf(n, s)
    BY <1>1, <2>1
  <2>3. PICK s : RowOf(n, s)
    BY <2>2
  <2> QED BY <1>2, <2>1, <2>3, CellsAreRead
<1>3. ASSUME printed # <<>>, SpaceGrouped PROVE \E n : \E s : \E off : RowInLine(n, s, off)
  <2>1. PICK n : \E s : RowOf(n, s)
    BY <1>1, <1>3
  <2>2. PICK s : RowOf(n, s)
    BY <2>1
  <2>3. PICK off : LineAt(n, off)
    BY <1>3, <2>2, LineOfRow
  <2>4. RowInLine(n, s, off)
    BY <1>3, <2>2, <2>3 DEF RowInLine
  <2> QED BY <2>4
<1>4. ASSUME reader = "text", NEW k \in DOMAIN row, FirstInText(k)
      PROVE  got = Meaning(printed[k])
  <2>1. printed # <<>> /\ SpaceGrouped /\ got = InText
    BY <1>4 DEF RowsAsPrinted
  <2>2. PICK n : \E s : \E off : RowInLine(n, s, off)
    BY <1>3, <2>1
  <2>3. PICK s : \E off : RowInLine(n, s, off)
    BY <2>2
  <2>4. PICK off : RowInLine(n, s, off)
    BY <2>3
  <2> QED BY <1>4, <2>1, <2>4, TextIsRead
<1>5. ASSUME reader = "ocr", OneSize PROVE got = Meaning(printed[1])
  <2>1. printed # <<>> /\ SpaceGrouped /\ got = InOcr
    BY <1>5 DEF RowsAsPrinted
  <2>2. PICK n : \E s : \E off : RowInLine(n, s, off)
    BY <1>3, <2>1
  <2>3. PICK s : \E off : RowInLine(n, s, off)
    BY <2>2
  <2>4. PICK off : RowInLine(n, s, off)
    BY <2>3
  <2> DEFINE z == Len(row[1].runs)
  <2>5. OneSizeFacts(n, z, off)
    BY <1>5, <2>4, OneSizeLine
  <2>6. Len(row) = n
    <3>1. n \in Nat \ {0} /\ row = [i \in 1 .. n |-> Write(printed[i], s)]
      BY <2>4 DEF RowInLine, RowOf
    <3> QED BY <3>1
  <2>7. \/ n = 1 /\ z \in {1, 2, 3, 5}
        \/ n = 2 /\ z \in 2 .. 4
        \/ n = 3 /\ z \in 3 .. 4
    BY <1>5, <2>6, Zenon DEF OneSize
  <2> HIDE DEF z
  <2>8. CASE n = 1 /\ z \in {1, 2, 3, 5}
    BY <2>1, <2>4, <2>5, <2>8, SingleIsRead
  <2>9. CASE (n = 2 /\ z \in 2 .. 4) \/ (n = 3 /\ z \in 3 .. 4)
    BY <1>5, <2>1, <2>4, <2>5, <2>9, ManyAreRead
  <2> QED BY <2>7, <2>8, <2>9
<1> QED BY <1>2, <1>4, <1>5, Zenon DEF FirstPeriodIsRead

\* The amount taken from a row is the first one printed in it, with its sign and its
\* decimals, for rows of any number of columns: no note, line number or year before it
\* is taken instead, and no digit of the next period is added.  It speaks of what the
\* readers can tell (Legible, FirstInCells, FirstInText, OneSize): at most sixteen
\* digits, no minus behind them, no "$1,234", no three decimals after the only mark; of
\* lines, only those grouped by spaces whose columns and notes do not run together and,
\* of OCR, whose amounts are unsigned and of one size
\* (_extract_first_numeric_cell, _extract_preferred_numeric_match,
\* _extract_preferred_ocr_numeric_match and what they call).
THEOREM FirstAmountIsRead == Spec => []FirstPeriodIsRead
BY InitRows, ReadRows, RowsAreRead, PTL DEF Spec

-----------------------------------------------------------------------------
(* Quoted amounts                                                           *)

\* The model is asked for one amount, and what was read is what it quoted.
AnswersOnly ==
    /\ printed = <<>> => \E q \in Quotes : row = <<q>>
    /\ reader = "answer" => printed = <<>> /\ got = Quoted(row[1])

\* Without a minus behind the digits, the readers take the same separators for
\* points but for a single one with three digits behind it.
LEMMA PointsAgree ==
    ASSUME NEW w, ~SeparatesThousands(w)
    PROVE  QuotedPoints(w) = Points(w)
BY DEF QuotedPoints, Points

LEMMA QuotesAgree ==
    ASSUME NEW w, w.sign \in Signs, Quoted(w) # Unread
    PROVE  \/ Quoted(w) = Normalized(w)
           \/ SeparatesThousands(w)
           \/ Normalized(w) = Unread /\ Len(DigitsOf(w.runs)) > 16
<1> SUFFICES ASSUME ~SeparatesThousands(w)
             PROVE  \/ Quoted(w) = Normalized(w)
                    \/ Normalized(w) = Unread /\ Len(DigitsOf(w.runs)) > 16
  OBVIOUS
<1>1. w.sign \notin {"dash", "parens"}
  BY DEF Quoted
<1>2. w.sign # "trailing"
  BY <1>1 DEF Quoted, Number
<1>3. w.sign \in {"none", "minus"}
  BY <1>1, <1>2 DEF Signs
<1>4. (w.sign = "minus") = (w.sign # "none")
  BY <1>3
<1>5. Quoted(w) = Number(w, Points(w), w.sign # "none")
  BY <1>1, <1>4, PointsAgree, Zenon DEF Quoted
<1>6. CASE Len(DigitsOf(w.runs)) > 16
  BY <1>6 DEF Normalized
<1>7. CASE ~(Len(DigitsOf(w.runs)) > 16)
  BY <1>5, <1>7 DEF Normalized
<1> QED BY <1>6, <1>7

\* What an answer quotes is read as the document would be, whatever its length,
\* its separators and its sign, where both readers make a number of it.
THEOREM ReadersMakeTheSame == Spec => []ReadersAgree
<1>1. Init => AnswersOnly
  <2> SUFFICES ASSUME Init PROVE AnswersOnly
    OBVIOUS
  <2>1. reader = "none" /\ ~(reader = "answer")
    BY DEF Init
  <2>2. ASSUME printed = <<>> PROVE \E q \in Quotes : row = <<q>>
    <3>1. ASSUME NEW n \in 1 .. MaxColumns, printed \in [1 .. n -> Amounts] PROVE FALSE
      <4>1. 1 \in DOMAIN printed
        BY <3>1, AmountsAssumption
      <4>2. DOMAIN <<>> = {}
        OBVIOUS
      <4> QED BY <2>2, <4>1, <4>2
    <3>2. row \in {<<q>> : q \in Quotes}
      BY <3>1 DEF Init
    <3> QED BY <3>2
  <2> QED BY <2>1, <2>2 DEF AnswersOnly
<1>2. AnswersOnly /\ [Next]_vars => AnswersOnly'
  <2> SUFFICES ASSUME AnswersOnly, [Next]_vars PROVE AnswersOnly'
    OBVIOUS
  <2>1. CASE ReadCells
    BY <2>1 DEF AnswersOnly, ReadCells, Reads
  <2>2. CASE ReadText
    BY <2>2 DEF AnswersOnly, ReadText, Reads
  <2>3. CASE ReadOcr
    BY <2>3 DEF AnswersOnly, ReadOcr, Reads
  <2>4. CASE ReadAnswer
    BY <2>4 DEF AnswersOnly, ReadAnswer, Reads
  <2>5. CASE UNCHANGED vars
    BY <2>5 DEF AnswersOnly, vars
  <2> QED BY <2>1, <2>2, <2>3, <2>4, <2>5 DEF Next
<1>3. AnswersOnly => ReadersAgree
  <2> SUFFICES ASSUME AnswersOnly, reader = "answer", got # Unread
               PROVE  \/ got = Normalized(row[1])
                      \/ SeparatesThousands(row[1])
                      \/ Normalized(row[1]) = Unread /\ Len(DigitsOf(row[1].runs)) > 16
    BY DEF ReadersAgree
  <2>1. PICK q \in Quotes : row = <<q>>
    BY DEF AnswersOnly
  <2>2. row[1] = q /\ got = Quoted(q) /\ q.sign \in Signs
    BY <2>1, AmountsAssumption DEF AnswersOnly
  <2> QED BY <2>2, QuotesAgree
<1> QED BY <1>1, <1>2, <1>3, PTL DEF Spec
=============================================================================
