\* A "Check now" succeeds in the middle of an outage.
SPECIFICATION Spec
CONSTANTS
    Manuals = {m1}
    Thresholds = {2}
    Contended = FALSE
    MaxFailures = 4
    MaxInc = 1
    MaxBoots = 0
INVARIANTS
    StreakIsWarned
CHECK_DEADLOCK FALSE
