SPECIFICATION NoticeSpec
CONSTANTS
    None = None
    Fold <- McFold
    Pages <- McPages
    MaxListed = 1
    FirstDay <- McFirstDay
    FirstYear = 2024
    MinDays = 3
    Retention = 4
    MaxClock = 5
    Retries = 2
    BeatHours = 2
    Week = 2
    MaxSlips = 1
    MaxEdits = 1
INVARIANTS
    OneDigestADay
    MovesAreDigested
PROPERTIES
    MarkerIsEarned
CHECK_DEADLOCK FALSE
