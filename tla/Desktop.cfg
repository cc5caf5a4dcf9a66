SPECIFICATION Spec
CONSTANTS
    Domains = {1, 2, 3}
    Excluded = {3}
    PageSize = 2
    MaxStaged = 2
    Tokens = {t1, t2}
    c1 = c1
    c2 = c2
    Imports <- MCImports
    Clients = {c1, c2}
    None = None
    Files <- MCFiles
    MaxUploads = 2
    MaxEdits = 1
    MaxFaults = 1
INVARIANTS AppliedIsOnePolicy UploadsAreWhole
PROPERTIES EverybodyCatchesUp
CHECK_DEADLOCK FALSE
