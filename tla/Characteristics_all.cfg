SPECIFICATION FairSpec
CONSTANTS
    Kinds = {"monitor", "battery", "command", "status", "endpoint"}
    MaxText = 5
    MaxIdle = 3
INVARIANTS SubscriberIsCurrent TornReadIsTold
PROPERTY BatteryCatchesUp
CHECK_DEADLOCK FALSE
