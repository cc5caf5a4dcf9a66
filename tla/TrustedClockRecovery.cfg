SPECIFICATION ClockSpec
CONSTANTS
    Tolerance = 1
    CheckpointPeriod = 2
    LockTime = 2
    Outcomes = {"saved"}
    WallValues = {}
    MaxTime = 3
    MaxWall = 1
PROPERTIES
    RecoversAfterSync
