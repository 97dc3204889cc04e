SPECIFICATION FairSpec
CONSTANTS
    Calls = {c1, c2}
    Commands = {squat, dance, reboot}
    Mapped = {squat}
    Topical = {dance}
    HasTrigger = TRUE
    HasPublisher = TRUE
INVARIANT OneOutcome
PROPERTIES AcceptedIsSettled
CHECK_DEADLOCK FALSE
