---------------------------- MODULE MCPeriodScores ----------------------------
EXTENDS PeriodScores

Label(c, y) == [class |-> c, year |-> y]
LabelsVal ==
    {Label("FY", 2022), Label("FY", 2023), Label("Q1", 2023), Label("Q2", 2023), Unreadable}

Figures(revenue, profit, assets, equity, current, short, cash) ==
    [revenue |-> revenue, net_profit |-> profit, total_assets |-> assets, equity |-> equity,
     liabilities |-> IF assets = Missing \/ equity = Missing THEN Missing ELSE assets - equity,
     current_assets |-> current, short_term_liabilities |-> short,
     cash_and_equivalents |-> cash, inventory |-> 30, interest_expense |-> -2,
     ebitda |-> 20]

Doc(figures, markers, retail) ==
    [figures |-> figures, markers |-> markers, retail |-> retail, override |-> FALSE,
     leases |-> retail]

\* A sound company; a weak one that names a chain; one whose sales were returned
\* and that owes more than it has; one whose balance sheet was not found; one
\* whose scale was lost.
DocumentsVal ==
    { Doc(Figures(120, 15, 100, 60, 70, 30, 10), {}, FALSE),
      Doc(Figures(90, 2, 110, 30, 40, 38, 2), {"h1"}, TRUE),
      Doc(Figures(-90, -4, 110, -30, 40, 0, 2), {}, FALSE),
      Doc(Figures(50, 1, Missing, Missing, 40, 35, Missing), {}, FALSE),
      Doc(Figures(9000, 900, 100, 0, 70, 30, 10), {"q1"}, FALSE) }
==============================================================================
