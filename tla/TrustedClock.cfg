SPECIFICATION ClockSpec
CONSTANTS
    Tolerance = 1
    CheckpointPeriod = 1
    LockTime = 1
    Outcomes = {"saved", "failed"}
    WallValues = {1, 3}
    MaxTime = 3
    MaxWall = 1
INVARIANTS
    LatchSurvives
    LocksLast
PROPERTIES
    LostTrustIsSaved
