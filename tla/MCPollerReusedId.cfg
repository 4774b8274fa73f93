\* A watch is deleted and its id handed out again under a check in flight.
SPECIFICATION Spec
CONSTANTS
    Codes = {k1}
    Checkers = {tick, manual}
    Nobody = Nobody
    None = None
    StaleAfter = 2
    ArchiveAfter = 3
    GroupThreshold = 0
    Mutable = {k1}
    ReuseIds = TRUE
    MaxTime = 3
    MaxInc = 2
INVARIANTS
    SilentBaseline
CHECK_DEADLOCK FALSE
