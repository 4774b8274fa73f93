\* Nothing is checked for a while, then a page lists only some products.
SPECIFICATION Spec
CONSTANTS
    Codes = {k1, k2}
    Checkers = {tick}
    Nobody = Nobody
    None = None
    StaleAfter = 2
    ArchiveAfter = 3
    GroupThreshold = 0
    Mutable = {k1, k2}
    ReuseIds = FALSE
    MaxTime = 3
    MaxInc = 1
SYMMETRY Symmetry
PROPERTIES
    DelistedAfterTwoMisses
CHECK_DEADLOCK FALSE
