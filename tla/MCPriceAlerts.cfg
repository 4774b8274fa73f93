SPECIFICATION Spec
CONSTANTS
    Prices = {0, 4, 6, 8}
    None = None
    MinAbs = 2
    MinPct = 30
INVARIANTS
    TypeOK
    DropIffFarBelowPeak
    FailedIsOwed
    SettledWhenAllTold
    NewLowsDescend
PROPERTIES
    MovesFollowQuotes
