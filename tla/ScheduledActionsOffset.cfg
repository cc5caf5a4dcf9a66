SPECIFICATION Spec
CONSTANTS
    DayLength = 4
    None = None
    NoItem = NoItem
    NotSaved = NotSaved
    NotLooking = NotLooking
    Ids = {a1}
    Settings = {banners, lockscreen}
    ActionSchedules = {"back"}
    ScheduleOf <- MCScheduleOf
    RuleSchedules <- MCRuleSchedules
    Zones <- MCZones
    LastView = 35
    Transitions = 12
    MaxTime = 3
    MaxFaults = 0
    MaxEdits = 1
INVARIANT DueRunsOnce
CHECK_DEADLOCK FALSE
