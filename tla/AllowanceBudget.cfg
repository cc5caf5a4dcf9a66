SPECIFICATION Spec
CONSTANTS
    Browsers = {b1, b2}
    Allowances <- MCTotal
    None = None
    MaxLease = 2
    Gap = 2
    Grace = 2
    MaxRows = 3
    Cycle = 7
    Length = 6
    Day = 10
    MaxTime = 6
    MaxLeases = 3
    MaxFaults = 0
INVARIANTS BudgetHolds
CHECK_DEADLOCK FALSE
