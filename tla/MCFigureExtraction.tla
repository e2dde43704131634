--------------------------- MODULE MCFigureExtraction ---------------------------
EXTENDS FigureExtraction

Seen(pass, metric, value, label) ==
    [pass |-> pass, metric |-> metric, value |-> value, label |-> label]

\* Amounts of a small company, in the unit of its report: assets 50 000, equity
\* 20 000, revenue 6 000.  2023 is a year, 500 a number of a page or of a note.
SightingsVal ==
    { Seen("line_code", "total_assets", 50000, "exact"),
      Seen("regular", "total_assets", 40000, "exact"),
      Seen("approximation", "total_assets", 2023, "plain"),
      Seen("garbled", "net_profit", 500, "plain"),
      Seen("ifrs", "net_profit", 6400, "plain"),
      Seen("ocr_table", "equity", 60000, "plain"),
      Seen("regular", "liabilities", 30000, "exact_total"),
      Seen("regular", "liabilities", 6000, "exact_total"),
      Seen("heading", "current_assets", 6000, "plain"),
      Seen("text_code", "cash_and_equivalents", 6400, "plain"),
      Seen("text_code", "revenue", 6400, "plain"),
      Seen("form_code", "revenue", 6000, "code"),
      Seen("form_code", "net_profit", 6400, "code"),
      Seen("keyword", "inventory", 40000, "plain"),
      Seen("broad", "total_assets", 50000, "plain"),
      Seen("broad", "equity", 20000, "plain"),
      Seen("balance", "equity", 20000, "plain"),
      Seen("balance", "long_term_liabilities", 6400, "plain"),
      Seen("balance", "short_term_liabilities", 30000, "plain"),
      Seen("section_total", "long_term_liabilities", 6000, "plain"),
      Seen("profit_section", "net_profit", 6000, "plain"),
      Seen("profit_section", "revenue", 6400, "plain") }

ScrapedVal ==
    { [metric |-> "revenue", value |-> 6000], [metric |-> "net_profit", value |-> 6400],
      [metric |-> "total_assets", value |-> 2023] }

Item(value, confidence) == [value |-> value, confidence |-> confidence]
AnswersVal ==
    { [revenue |-> Item(6000000, 80), total_assets |-> Item(-50000, 90)],
      [revenue |-> Item(6000, 80), net_profit |-> Item(-6400, 120), equity |-> Item(30000, 75)],
      [total_assets |-> Item(2023, 90)] }

IssuerFiguresVal == [net_profit |-> 6000000]
================================================================================
