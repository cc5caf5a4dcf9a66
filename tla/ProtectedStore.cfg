SPECIFICATION Spec
CONSTANTS
    v0 = v0
    v1 = v1
    v2 = v2
    Values <- MCValues
    Empty = v0
    NoValue = NoValue
    Absent = Absent
    Damaged = Damaged
    MaxFaults = 3
PROPERTIES
    RegisterSpec
    ComesUp
