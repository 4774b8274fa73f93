SPECIFICATION AccessSpec
CONSTANTS
    None = None
    Clients = {c1, c2}
    Names = {"ann", "Ann", "bob", "eve"}
    Key <- McKey
    Owner = "ann"
    Slots = 1
    SessionAge = 1
    TokenNames = {"cron"}
    MaxTokens = 2
    MaxClock = 3
    MaxRequests = 4
    Mixes <- McMixes
    MaxFailures = 2
    LockoutSeconds = 2
    WindowSeconds = 1
    MaxEntries = 2
INVARIANTS
    OneUser
    AttemptsAreBounded
    LogoutEndsAll
    TokensStayDistinct
PROPERTIES
    LocksHold
    RevokeSticks
    EveryRequestEnds
CHECK_DEADLOCK FALSE
