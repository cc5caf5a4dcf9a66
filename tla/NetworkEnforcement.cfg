CONSTANTS
    Domains = {"site", "search"}
    SearchDomains = {"search"}
    Needs <- MCNeeds
    MaxFaults = 2
    MaxChanges = 5
    NoTable = NoTable
    NoConf = NoConf
    Stopped = Stopped
    Foreign = Foreign
SPECIFICATION Spec
CHECK_DEADLOCK FALSE
INVARIANTS
    NothingLeftBehind
PROPERTIES
    NeverLessBlocked
    HealthyMeansEnforced
    ForeignUntouched
    EnforcementSettles
