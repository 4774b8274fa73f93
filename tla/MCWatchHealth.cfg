SPECIFICATION FairSpec
CONSTANTS
    Manuals = {m1}
    Thresholds = {1, 3}
    Contended = TRUE
    MaxFailures = 4
    MaxInc = 2
    MaxBoots = 1
INVARIANTS
    TypeOK
    NoFailureUncounted
    OneWarningUntilRecovery
PROPERTIES
    OutageIsAlerted
CHECK_DEADLOCK FALSE
