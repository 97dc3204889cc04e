SPECIFICATION FairSpec
CONSTANTS
    MaxCrashes = 1
    MaxReleases = 1
    MaxRefusals = 1
    MaxSubs = 2
INVARIANT OneRefresh
PROPERTIES NothingAfterShutdown OwnReleaseIgnored ShutdownEnds Heals
CHECK_DEADLOCK FALSE
