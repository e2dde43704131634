SPECIFICATION Spec
CONSTANTS
    Unread = Unread
    Amounts <- AmountsVal
    Styles <- StylesVal
    MaxColumns = 3
    Quotes <- QuotesVal
INVARIANTS
    FirstPeriodIsRead
    ReadersAgree
\* A row is read once.
CHECK_DEADLOCK FALSE
