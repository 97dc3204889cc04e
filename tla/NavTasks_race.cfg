SPECIFICATION Spec
CONSTANTS
    Localization = localization
    Navigation = navigation
    Tasks = {localization, navigation}
    BleThread = ble
    LanReaders = {lan}
    Procs = {p1, p2}
    NoProc = NoProc
INVARIANT OneLaunchPerTask
CHECK_DEADLOCK FALSE
