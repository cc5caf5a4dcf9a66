SPECIFICATION Spec
CONSTANTS
    Rules = {r1, r2}
    Delays <- OneDelay
    NoDelay = NoDelay
    MaxTime = 4
    MaxFaults = 1
INVARIANTS
    BreaksAreWaitedFor
PROPERTIES
    RequestsDoNotMoveIt
    DelaysTakeTheirCourse
