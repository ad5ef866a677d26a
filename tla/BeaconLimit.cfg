SPECIFICATION Spec
CONSTANTS
    Houses = {h1, h2}
    Texts = {t1}
    NoText = noText
    Typing = typing
    Absent = absent
    Null = null
    Allied <- AllAllied
    MaxBeacons = 1
    MaxFrame = 1
    MaxAhead = 1
    MaxInFlight = 1
    MaxResent = 0
INVARIANTS
    LimitKept
CHECK_DEADLOCK FALSE
