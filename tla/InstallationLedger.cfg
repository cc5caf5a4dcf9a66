SPECIFICATION InstallSpec
CONSTANTS
    MaxScripts = 3
    MaxTrouble = 0
INVARIANTS
    InstalledLoads
CHECK_DEADLOCK FALSE
