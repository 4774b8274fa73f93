\* A listing of two products whose alerts are grouped.
SPECIFICATION Spec
CONSTANTS
    Codes = {k1, k2}
    Checkers = {tick}
    Nobody = Nobody
    None = None
    StaleAfter = 2
    ArchiveAfter = 1
    GroupThreshold = 2
    Mutable = {k1, k2}
    ReuseIds = FALSE
    MaxTime = 3
    MaxInc = 1
SYMMETRY Symmetry
INVARIANTS
    OneEventPerTransition
    HistoryMatchesRows
    EventsWereTold
    SilentBaseline
CHECK_DEADLOCK FALSE
