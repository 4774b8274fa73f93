\* One of a poll's pushes fails and another gets through.
SPECIFICATION Spec
CONSTANTS
    Prices = {4, 6, 8}
    None = None
    MinAbs = 2
    MinPct = 30
INVARIANTS
    ToldIsSettled
