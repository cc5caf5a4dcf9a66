SPECIFICATION Spec
CONSTANTS
    DayLength = 4
    None = None
    NoItem = NoItem
    NotSaved = NotSaved
    NotLooking = NotLooking
    Ids = {a1, a2}
    Settings = {banners, lockscreen}
    ActionSchedules <- MCActionSchedules
    ScheduleOf <- MCScheduleOf
    RuleSchedules <- MCRuleSchedules
    Zones <- MCZones
    LastView = 35
    Transitions = 12
    MaxTime = 3
    MaxFaults = 0
    MaxEdits = 2
PROPERTY BlockedForTheWindow
CHECK_DEADLOCK FALSE
