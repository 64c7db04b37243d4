\* Every report, in a time zone ahead of UTC, while two orders go through their lives.
CONSTANTS
    p1 = p1
    Orders = {o1, o2}
    Products = {p1}
    Categories = {c1, c2}
    Sale <- MCSale
    Offset = 1
    Clock <- MCClock
    Dates <- MCDates
    Ranges <- MCRanges
    Types = {"PROCESSING", "CANCELED", "OTHER"}
    DayLength = 2
    MonthDays = 2
    Kinds = {"orderStats", "orderSummary", "revenueSummary", "bestCategories", "purchases"}
CONSTRAINT Narrow
SYMMETRY Alike
SPECIFICATION ReportSpec
CHECK_DEADLOCK FALSE
INVARIANTS
    DaysAddUp
    FiguresAgree
    SalesKept
    RangesDifferAtTheirEnds
