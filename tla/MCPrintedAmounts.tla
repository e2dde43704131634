--------------------------- MODULE MCPrintedAmounts ---------------------------
EXTENDS PrintedAmounts

Amount(groups, decimals) == [negative |-> FALSE, groups |-> groups, decimals |-> decimals]
Loss(groups) == [negative |-> TRUE, groups |-> groups, decimals |-> <<>>]

\* A note, a year, written both ways, amounts of every size with a short and a full
\* first group, one whose first space OCR has lost, losses, decimals.
AmountsVal ==
    { Amount(<<<<2, 4>>>>, <<>>), Amount(<<<<2, 0, 2, 3>>>>, <<>>),
      Amount(<<<<1>>, <<9, 9, 9>>>>, <<>>),
      Amount(<<<<1, 0>>, <<0, 0, 5>>, <<0, 0, 6>>, <<0, 0, 7>>, <<0, 0, 8>>>>, <<>>),
      Amount(<<<<1, 2>>, <<3, 0, 0>>, <<0, 0, 0>>, <<4, 0, 0>>, <<0, 5, 0>>, <<6, 0, 0>>>>, <<>>),
      Amount(<<<<8>>, <<1, 2, 3>>>>, <<>>), Amount(<<<<7, 4, 5>>, <<0, 1, 2>>>>, <<>>),
      Amount(<<<<3, 1>>, <<4, 1, 5>>, <<9, 2, 6>>>>, <<>>),
      Amount(<<<<5, 3, 5>>, <<8, 9, 7>>, <<9, 3, 2>>>>, <<>>),
      Amount(<<<<2>>, <<7, 1, 8>>, <<2, 8, 1>>, <<8, 2, 8>>>>, <<>>),
      Amount(<<<<1, 3, 4, 8>>, <<5, 0, 3>>>>, <<>>),
      Loss(<<<<6>>, <<6, 2, 6>>>>), Loss(<<<<1, 8, 3>>, <<9, 4, 9>>>>),
      Amount(<<<<4>>, <<1, 9, 8>>>>, <<5, 0>>), Amount(<<<<9, 0>>>>, <<1, 2, 5>>) }

Style(sep, point, sign, currency) ==
    [sep |-> sep, point |-> point, sign |-> sign, currency |-> currency]
StylesVal ==
    { Style("space", "comma", "parens", FALSE), Style("space", "dot", "minus", FALSE),
      Style("space", "comma", "dash", FALSE), Style("space", "comma", "trailing", FALSE),
      Style("comma", "dot", "parens", TRUE), Style("comma", "dot", "parens", FALSE),
      Style("dot", "comma", "minus", FALSE), Style("none", "comma", "minus", FALSE) }

\* All ways to quote up to three runs of digits, and an amount of 18 digits.
Runs == {<<1>>, <<5, 6>>, <<2, 3, 4>>}
Long ==
    [sign |-> "none", currency |-> FALSE, runs |-> [i \in 1 .. 6 |-> <<2, 3, 4>>],
     marks |-> [i \in 1 .. 5 |-> "space"]]
QuotesVal ==
    {Long} \cup
    UNION {[sign : Signs, currency : BOOLEAN, runs : [1 .. n -> Runs],
            marks : [1 .. n - 1 -> Marks]] : n \in 1 .. 3}
==============================================================================
