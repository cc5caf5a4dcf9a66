SPECIFICATION Spec
CONSTANTS
    DayLength = 8
    None = None
    NoItem = NoItem
    NotSaved = NotSaved
    NotLooking = NotLooking
    Ids = {a1}
    Settings = {banners, lockscreen}
    ActionSchedules <- MCActionSchedules
    ScheduleOf <- MCScheduleOf
    RuleSchedules <- MCRepeatedRows
    Zones <- MCRepeatedZones
    LastView = 35
    Transitions = 6
    MaxTime = 3
    MaxFaults = 1
    MaxEdits = 2
INVARIANT ViewsAgree
CHECK_DEADLOCK FALSE
