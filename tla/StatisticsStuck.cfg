SPECIFICATION Spec
CONSTANTS
    p1 = p1
    p2 = p2
    home = home
    opt = opt
    Paths = {p1, p2}
    Mounts = {home, opt}
    MountOf <- MCMountOf
    OwnMounts = {home}
    MaxQueue = 1
    MaxRows = 1
    Nobody = Nobody
    MaxExecs = 2
    MaxEdits = 2
    MaxTrouble = 1
    Rules = {r1, r2}
    StartsAllowed = 2
    MaxEntry = 1
    None = None
    MaxRequests = 3
    MaxRuleEdits = 1
    MaxDays = 1
    MaxLosses = 1
PROPERTIES ExecsAreAlwaysAnswered
CHECK_DEADLOCK FALSE
