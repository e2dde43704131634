---------------------------- MODULE PrintedAmounts ----------------------------
(***************************************************************************)
(* Reading the amounts of a printed row (src/analysis/extractor/           *)
(* legacy_helpers.py, from the cells of a table, from a line of text and   *)
(* from a line that OCR gave) and an amount that the language model quotes *)
(* (src/analysis/llm_extractor.py).  FigureExtraction starts from what is  *)
(* read here.                                                              *)
(*                                                                         *)
(* Digits come in runs, kept apart by marks.  An amount is written as      *)
(* [sign, currency, runs, marks], where marks[i] stands behind runs[i].    *)
(***************************************************************************)
EXTENDS Integers, FiniteSets, SequencesExt

CONSTANTS
    Unread,     \* None
    Amounts,    \* [negative, groups, decimals]: amounts that reports print
    Styles,     \* [sep, point, sign, currency]: the ways they print them
    MaxColumns, \* bound: amounts in a row
    Quotes      \* amounts as the model may write them

Run   == Seq(0 .. 9)
Marks == {"space", "comma", "dot"}
Signs == {"none", "minus", "dash", "parens", "trailing"}

\* Thousands are grouped by three, nothing but a single digit begins with 0, and
\* the mark of the decimals is not that of the thousands.
ASSUME AmountsAssumption ==
    /\ MaxColumns \in Nat \ {0}
    /\ Unread \notin [negative : BOOLEAN, whole : Run, part : Run]
    /\ \A a \in Amounts :
            /\ a.negative \in BOOLEAN /\ a.decimals \in Run
            /\ a.groups \in Seq(Run) \ {<<>>} /\ a.groups[1] # <<>>
            /\ \A j \in 2 .. Len(a.groups) : Len(a.groups[j]) = 3
            /\ a.groups[1][1] = 0 => Len(a.groups) = 1 /\ Len(a.groups[1]) = 1
    /\ \A s \in Styles :
            /\ s.sep \in Marks \cup {"none"} /\ s.point \in {"comma", "dot"} \ {s.sep}
            /\ s.sign \in Signs \ {"none"} /\ s.currency \in BOOLEAN
    /\ \A q \in Quotes : q.sign \in Signs /\ Len(q.marks) = Len(q.runs) - 1

VARIABLES
    printed,    \* the amounts of the row, <<>> when the model quotes one
    row,        \* how they are written
    reader,     \* who read it, "none" before
    got         \* the number it made of it

vars == <<printed, row, reader, got>>

-----------------------------------------------------------------------------
(* Writing                                                                  *)

Write(a, s) ==
    LET groups == IF s.sep = "none" THEN <<FlattenSeq(a.groups)>> ELSE a.groups
        runs == IF a.decimals = <<>> THEN groups ELSE Append(groups, a.decimals)
    IN  [sign |-> IF a.negative THEN s.sign ELSE "none", currency |-> s.currency, runs |-> runs,
         marks |-> [i \in 1 .. Len(runs) - 1 |-> IF i < Len(groups) THEN s.sep ELSE s.point]]

-----------------------------------------------------------------------------
(* One amount (_normalize_number)                                           *)

DigitsOf(runs) == FlattenSeq(runs)
Marked(w, mark) == {i \in DOMAIN w.marks : w.marks[i] = mark}
Separators(w) == Marked(w, "comma") \cup Marked(w, "dot")
Behind(w, i) == DigitsOf(SubSeq(w.runs, i + 1, Len(w.runs)))
Before(w, i) == DigitsOf(SubSeq(w.runs, 1, i))

\* A single separator with three digits behind it; a currency sign before it or
\* a minus behind it hides that.
SeparatesThousands(w) ==
    /\ \E i \in Separators(w) : Separators(w) = {i} /\ Len(Behind(w, i)) = 3
    /\ ~w.currency /\ w.sign # "trailing"

\* The separators that survive as points: the kind that comes last when there
\* are both, none when one kind is repeated.
LastKind(w) ==
    IF w.marks[CHOOSE i \in Separators(w) : \A j \in Separators(w) : j <= i] = "dot"
    THEN Marked(w, "dot") ELSE Marked(w, "comma")

\* Mutant: a single separator is always a point.
PointsAlways(w) ==
    IF Marked(w, "comma") # {} /\ Marked(w, "dot") # {} THEN LastKind(w)
    ELSE IF Cardinality(Separators(w)) = 1 THEN Separators(w) ELSE {}

\* _normalize_numeric_separators
Points(w) ==
    IF Marked(w, "comma") # {} /\ Marked(w, "dot") # {} THEN LastKind(w)
    ELSE IF Cardinality(Separators(w)) = 1 /\ ~SeparatesThousands(w) THEN Separators(w)
    ELSE {}

\* float(): more than one point, or a minus behind the digits, is no number.
Number(w, points, negative) ==
    IF w.sign = "trailing" \/ Cardinality(points) > 1 THEN Unread
    ELSE IF points = {} THEN [negative |-> negative, whole |-> DigitsOf(w.runs), part |-> <<>>]
    ELSE LET i == CHOOSE i \in points : TRUE
         IN  [negative |-> negative, whole |-> Before(w, i), part |-> Behind(w, i)]

Normalized(w) ==
    IF Len(DigitsOf(w.runs)) > 16 THEN Unread ELSE Number(w, Points(w), w.sign # "none")

\* _is_year
IsYear(n) ==
    /\ ~n.negative /\ ToSet(n.part) \subseteq {0} /\ Len(n.whole) = 4
    /\ \/ n.whole[1] = 1 /\ n.whole[2] = 9
       \/ n.whole[1] = 2 /\ n.whole[2] = 0
       \/ n.whole = <<2, 1, 0, 0>>

Tells(n) == n # Unread /\ ~IsYear(n)

-----------------------------------------------------------------------------
(* A row of cells (_extract_first_numeric_cell)                             *)

\* Up to three digits and nothing else: the number of a line, a note or a page.
SmallCell(w) ==
    /\ w.sign = "none" /\ ~w.currency /\ Separators(w) = {}
    /\ Len(DigitsOf(w.runs)) <= 3

FirstCell ==
    LET usable == {k \in DOMAIN row : ~SmallCell(row[k]) /\ Tells(Normalized(row[k]))}
    IN  IF usable = {} THEN Unread ELSE Normalized(row[Min(usable)])

-----------------------------------------------------------------------------
(* A line of text or of OCR.  Amounts grouped by spaces run into each other *)
(* in a line, unless a sign or a parenthesis stands between them.           *)

\* Lines of other amounts are not modelled.
SpaceGrouped ==
    \A k \in DOMAIN row :
        /\ Separators(row[k]) = {}
        /\ \A j \in DOMAIN row[k].runs : Len(row[k].runs[j]) > 3 => k = 1 /\ j = 1

\* The runs of the line, each with what its amount puts before it, and whether
\* only a space separates it from the run before.  The patterns know no dash.
Piece(k) ==
    [j \in DOMAIN row[k].runs |->
        [digits |-> row[k].runs[j],
         sign |-> IF j = 1 /\ row[k].sign \in {"minus", "parens"} THEN row[k].sign ELSE "none",
         joins |-> \/ j > 1
                   \/ /\ k > 1 /\ row[k].sign \in {"none", "trailing"} /\ ~row[k].currency
                      /\ row[k - 1].sign \notin {"parens", "trailing"},
         currency |-> j = 1 /\ row[k].currency]]
Line == FlattenSeq([k \in DOMAIN row |-> Piece(k)])

\* _NUMBER_PATTERN and _OCR_NUMBER_PATTERN: a run of at most "lead" digits takes
\* all groups of three behind it.  These are the runs that begin a match.
Starts(lead) ==
    {i \in DOMAIN Line :
        \/ i = 1 \/ ~Line[i].joins \/ Len(Line[i].digits) # 3
        \/ i = 2 /\ Len(Line[1].digits) > lead}

\* Whatever spaces connect.
Connected == {i \in DOMAIN Line : i = 1 \/ ~Line[i].joins}

\* The match that begins at run i and ends where the next one begins.
Match(starts, i) ==
    LET part == SubSeq(Line, i, Min({j \in starts \cup {Len(Line) + 1} : j > i}) - 1)
    IN  [sign |-> part[1].sign, currency |-> part[1].currency,
         runs |-> [j \in DOMAIN part |-> part[j].digits],
         marks |-> [j \in 1 .. Len(part) - 1 |-> "space"]]

FirstRuns(w, n) ==
    [w EXCEPT !.runs = SubSeq(@, 1, n), !.marks = SubSeq(@, 1, n - 1), !.currency = FALSE]

\* _split_non_ocr_grouped_period_values; what is split loses its sign.
TwoPeriods(w) ==
    LET L == [i \in DOMAIN w.runs |-> Len(w.runs[i])]
    IN  IF \/ L = <<3, 3, 3, 3>>
           \/ Len(L) = 4 /\ L[2] = 3 /\ L[4] = 3 /\ L[1] <= 2 /\ L[3] <= 2
        THEN [FirstRuns(w, 2) EXCEPT !.sign = "none"] ELSE w

\* Mutant: the smallest amounts that the runs can be divided into.
ManyPeriodsSmall(w) ==
    LET n == Len(w.runs)
        sizes == {n \div p : p \in {q \in {2, 3} : n % q = 0 /\ n \div q \in 2 .. 4}}
    IN  IF n < 4 \/ sizes = {} THEN w
        ELSE FirstRuns(w, CHOOSE s \in sizes : \A t \in sizes : s <= t)

\* _split_grouped_period_values: two or three amounts of equally many groups, the
\* larger ones, or the smaller ones when the line begins with four digits.
ManyPeriods(w) ==
    LET n == Len(w.runs)
        sizes == {n \div p : p \in {q \in {2, 3} : n % q = 0 /\ n \div q \in 2 .. 4}}
        small == Len(w.runs[1]) = 4
    IN  IF n < 4 \/ sizes = {} THEN w
        ELSE FirstRuns(w, CHOOSE s \in sizes : \A t \in sizes : IF small THEN s <= t ELSE t <= s)

\* Numbers that are no amount: a form code (07...), and short ones beside others.
FormCode(digits) == Len(digits) >= 6 /\ digits[1] = 0 /\ digits[2] = 7

\* _extract_preferred_numeric_match
InText ==
    LET W(i) == TwoPeriods(Match(Starts(3), i))
        found == {i \in Starts(3) : Tells(Normalized(W(i)))}
        good == {i \in found : /\ Len(DigitsOf(W(i).runs)) > 3 \/ found = {i}
                               /\ ~FormCode(DigitsOf(W(i).runs))}
    IN  IF found = {} THEN Unread
        ELSE Normalized(W(IF good = {} THEN Max(found) ELSE Min(good)))

\* _extract_ocr_numeric_candidates: two connected runs at least, then the pattern's
\* matches, no text twice.
Candidate(c) ==
    IF c <= Len(Line) THEN Match(Connected, c) ELSE Match(Starts(4), c - Len(Line))
OcrCandidates ==
    LET all == {c \in Connected : Len(Match(Connected, c).runs) > 1}
               \cup {Len(Line) + i : i \in Starts(4)}
    IN  {c \in all : \A d \in all : d < c => Candidate(d) # Candidate(c)}

\* _extract_preferred_ocr_numeric_match
InOcr ==
    LET Value(c) == Normalized(ManyPeriods(Candidate(c)))
        Size(c) == Len(DigitsOf(Candidate(c).runs))
        found == {c \in OcrCandidates : Tells(Value(c))}
        large == \E c \in found : Size(c) >= 6
        good == {c \in found : /\ found = {c} \/ (Size(c) > 3 /\ ~(large /\ Size(c) = 4))
                               /\ ~FormCode(DigitsOf(Candidate(c).runs))}
    IN  IF found = {} THEN Unread
        ELSE Value(IF good = {} THEN Max(found) ELSE Min(good))

-----------------------------------------------------------------------------
(* An amount quoted by the model (_normalize_number_str)                    *)

\* Mutant: repeated commas become points.
QuotedPointsKept(w) ==
    IF Marked(w, "comma") # {} THEN Marked(w, "comma")
    ELSE IF Cardinality(Separators(w)) = 1 THEN Separators(w) ELSE {}

\* A single separator is always a point; three digits behind it do not matter.
QuotedPoints(w) ==
    IF Marked(w, "comma") # {} /\ Marked(w, "dot") # {} THEN LastKind(w)
    ELSE IF Cardinality(Separators(w)) = 1 THEN Separators(w) ELSE {}

\* Parentheses and the dash are no sign to float().
Quoted(w) ==
    IF w.sign \in {"dash", "parens"} THEN Unread
    ELSE Number(w, QuotedPoints(w), w.sign = "minus")

-----------------------------------------------------------------------------
Init ==
    /\ reader = "none" /\ got = Unread
    /\ \/ /\ printed \in UNION {[1 .. n -> Amounts] : n \in 1 .. MaxColumns}
          /\ \E s \in Styles : row = [i \in DOMAIN printed |-> Write(printed[i], s)]
       \/ printed = <<>> /\ row \in {<<q>> : q \in Quotes}

Reads(r, n) ==
    /\ reader = "none"
    /\ reader' = r /\ got' = n
    /\ UNCHANGED <<printed, row>>

ReadCells  == printed # <<>> /\ Reads("cells", FirstCell)
ReadText   == printed # <<>> /\ SpaceGrouped /\ Reads("text", InText)
ReadOcr    == printed # <<>> /\ SpaceGrouped /\ Reads("ocr", InOcr)
ReadAnswer == printed = <<>> /\ Reads("answer", Quoted(row[1]))

Next == ReadCells \/ ReadText \/ ReadOcr \/ ReadAnswer

Spec == Init /\ [][Next]_vars

-----------------------------------------------------------------------------
(* Properties                                                               *)

Meaning(a) ==
    [negative |-> a.negative, whole |-> DigitsOf(a.groups), part |-> a.decimals]

\* What no reader can tell: "$1,234", three decimals behind the only separator, a
\* minus behind the digits, more than sixteen digits.
Legible(k) ==
    LET w == row[k]
    IN  /\ w.sign # "trailing" /\ Len(DigitsOf(w.runs)) <= 16
        /\ Cardinality(Separators(w)) = 1 =>
                IF printed[k].decimals = <<>> THEN ~w.currency ELSE Len(printed[k].decimals) # 3

\* Only a space and three digits more: column k seems to go on.
RunsOn(k) ==
    /\ k < Len(row)
    /\ row[k].sign # "parens" /\ row[k + 1].sign \in {"none", "trailing"} /\ ~row[k + 1].currency
    /\ Len(row[k + 1].runs[1]) = 3

Lengths(k) == [j \in DOMAIN row[k].runs |-> Len(row[k].runs[j])]

\* The first column that is an amount, with notes, line numbers and years before it.
FirstInCells(k) ==
    /\ ~SmallCell(row[k]) /\ ~IsYear(Meaning(printed[k])) /\ Legible(k)
    /\ \A i \in 1 .. k - 1 : SmallCell(row[i]) \/ (IsYear(Meaning(printed[i])) /\ Legible(i))

\* In a line the columns must be told apart: none runs on into the next, but for
\* two of two groups of three.
FirstInText(k) ==
    /\ Len(DigitsOf(row[k].runs)) \in 4 .. 16 /\ ~IsYear(Meaning(printed[k]))
    /\ \A i \in 1 .. k - 1 :
            /\ Len(DigitsOf(row[i].runs)) <= 3 \/ IsYear(Meaning(printed[i]))
            /\ ~RunsOn(i)
    /\ Len(row[k].runs) = 1 \/ Len(row[k].runs[1]) <= 3
    /\ row[k].sign \in {"none", "minus", "parens"}
    /\ \/ ~RunsOn(k) /\ Lengths(k) # <<3, 3, 3, 3>>
       \/ /\ RunsOn(k) /\ ~RunsOn(k + 1) /\ row[k].sign = "none"
          /\ Lengths(k) = <<3, 3>> /\ Lengths(k + 1) = <<3, 3>>

\* Of a line that OCR gave, amounts of one size, which their number divides.
OneSize ==
    LET size == Len(row[1].runs)
        columns == Len(row)
    IN  /\ \A k \in DOMAIN row :
                /\ row[k].sign = "none" /\ ~row[k].currency
                /\ Len(row[k].runs) = size /\ Len(row[k].runs[1]) <= 3
        /\ ~IsYear(Meaning(printed[1]))
        /\ \/ columns = 1 /\ size \in {1, 2, 3, 5}
           \/ columns = 2 /\ size \in 2 .. 4
           \/ columns = 3 /\ size \in 3 .. 4

\* The amount taken from a row is the first one printed in it, with its sign and
\* its decimals: no note, line number or year before it is taken instead, and no
\* digit of the next period is added, where it is legible, its columns can be told
\* apart and, of OCR, they have one size (legacy_helpers 1794-1816, 1974-2110,
\* 2874-2958).
FirstPeriodIsRead ==
    /\ reader = "cells" =>
            \A k \in DOMAIN row : FirstInCells(k) => got = Meaning(printed[k])
    /\ reader = "text" =>
            \A k \in DOMAIN row : FirstInText(k) => got = Meaning(printed[k])
    /\ reader = "ocr" /\ OneSize => got = Meaning(printed[1])

\* Where the reader of the model's answers and the reader of the document both
\* make a number of what is written, they make the same one, however its digits
\* are separated; the exception is one separator with three digits behind it,
\* which only the document's reader takes for one of thousands.  It alone has a
\* limit, of sixteen digits (llm_extractor.py:133, legacy_helpers.py:2897, 2913).
ReadersAgree ==
    reader = "answer" /\ got # Unread =>
        \/ got = Normalized(row[1])
        \/ SeparatesThousands(row[1])
        \/ Normalized(row[1]) = Unread /\ Len(DigitsOf(row[1].runs)) > 16
==============================================================================
