SPECIFICATION FairSpec
CONSTANTS
    Setups = {{"cpu"}, {"memory"}, {"network", "audio"}}
    Threshold = 2
    LanPort = 7
    MaxLevel = 3
    MaxAddress = 1
    MaxPort = 1
    MaxDrifts = 2
    MaxChanges = 1
    MaxIdle = 0
INVARIANTS LanShowsLast BleShowsLast EndpointsCurrent
PROPERTIES WorldIsShown
CHECK_DEADLOCK FALSE
