SPECIFICATION OfferSpec
CONSTANTS
    None = None
    Fold <- McFold
    Pages <- McPages
    MaxListed = 2
    FirstDay <- McFirstDay
    FirstYear = 2023
    MinDays = 3
    Retention = 1
    MaxClock = 5
INVARIANTS
    OfferPricesAreReal
    CheapestFirst
    DatesAreRead
PROPERTIES
    LateTextIsOwed
    MergeKeepsHistory
CHECK_DEADLOCK FALSE
