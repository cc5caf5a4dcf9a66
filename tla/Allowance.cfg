SPECIFICATION FairSpec
CONSTANTS
    Browsers = {b1}
    Allowances <- MCBudgets
    None = None
    MaxLease = 2
    Gap = 2
    Grace = 2
    MaxRows = 3
    Cycle = 5
    Length = 4
    Day = 10
    MaxTime = 4
    MaxLeases = 3
    MaxFaults = 2
INVARIANTS NoBrowserOverspends UsageAccounted
PROPERTIES ReportsSettle
CHECK_DEADLOCK FALSE
