SPECIFICATION InstallSpec
CONSTANTS
    MaxScripts = 1
    MaxTrouble = 1
INVARIANTS
    MarkerIsThere
CHECK_DEADLOCK FALSE
