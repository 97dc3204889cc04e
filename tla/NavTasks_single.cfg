SPECIFICATION Spec
CONSTANTS
    Localization = localization
    Navigation = navigation
    Tasks = {localization, navigation}
    BleThread = ble
    LanReaders = {}
    Procs = {p1, p2, p3}
    NoProc = NoProc
INVARIANTS OneLaunchPerTask ShutdownLeavesNone
PROPERTY ImplementsLifecycle
SYMMETRY LaunchSymmetry
CHECK_DEADLOCK FALSE
