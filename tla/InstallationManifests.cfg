SPECIFICATION InstallSpec
CONSTANTS
    MaxScripts = 2
    MaxTrouble = 1
INVARIANTS
    RemovedIsAll
CHECK_DEADLOCK FALSE
