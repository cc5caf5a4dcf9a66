SPECIFICATION AdapterSpec
CONSTANTS
    Rules <- MCRules
    Policies <- MCPolicies
    NoPolicy = NoPolicy
    NoSite = NoSite
    NotRunning = NotRunning
    MaxQueue = 1
    MaxEdits = 1
    MaxFailures = 1
INVARIANT LeasesDecide
CHECK_DEADLOCK FALSE
