CONSTANTS
    Domains = {"site", "search"}
    SearchDomains = {"search"}
    Needs <- MCCombinedNeeds
    MaxFaults = 0
    MaxChanges = 2
    NoTable = NoTable
    NoConf = NoConf
    Stopped = Stopped
    Foreign = Foreign
SPECIFICATION Spec
CHECK_DEADLOCK FALSE
PROPERTIES
    CombinationsSettle
