SPECIFICATION AdapterSpec
CONSTANTS
    Rules <- MCRules
    Policies <- MCPolicies
    NoPolicy = NoPolicy
    NoSite = NoSite
    NotRunning = NotRunning
    MaxQueue = 1
    MaxEdits = 1
    MaxFailures = 1
INVARIANTS LeasesDecideAtFirst MatchersFollowRules
PROPERTY BlockedPagesLeave
CHECK_DEADLOCK FALSE
