SPECIFICATION FairSpec
CONSTANTS
    Localization = localization
    Navigation = navigation
    Tasks = {localization, navigation}
    BleThread = ble
    LanReaders = {lan}
    Procs = {p1, p2}
    NoProc = NoProc
PROPERTIES EndedIsReported SweptEnds StopIsConfirmed
INVARIANTS NoStaleEntry AcceptedStopIsStopped
CHECK_DEADLOCK FALSE
