\* One product, a tick and a "Check now", an id that may be handed out again.
SPECIFICATION FairSpec
CONSTANTS
    Codes = {k1}
    Checkers = {tick, manual}
    Nobody = Nobody
    None = None
    StaleAfter = 2
    ArchiveAfter = 3
    GroupThreshold = 0
    Mutable = {}
    ReuseIds = TRUE
    MaxTime = 3
    MaxInc = 2
INVARIANTS
    TypeOK
    OneEventPerTransition
    HistoryMatchesRows
    SinceOpensSpell
    DurationSpansSpell
    NoOrphans
PROPERTIES
    EveryCheckEnds
    ImplementsLedger
CHECK_DEADLOCK FALSE
