SPECIFICATION InstallSpec
CONSTANTS
    MaxScripts = 4
    MaxTrouble = 2
INVARIANTS
    EndsAsReported
    InterruptedRepeats
CHECK_DEADLOCK FALSE
