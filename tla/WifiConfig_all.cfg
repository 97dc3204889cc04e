SPECIFICATION FairSpec
CONSTANTS
    Glib = glib
    LanReaders = {lan1}
    Attempts = {a1, a2}
    Old = Old
    NoAttempt = NoAttempt
    MaxSkips = 1
INVARIANTS OneAttempt ConnectedIsSaved OutcomeIsShown
PROPERTIES StartedIsReported ImplementsProvisioning
CHECK_DEADLOCK FALSE
