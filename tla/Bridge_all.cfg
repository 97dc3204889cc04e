SPECIFICATION FairSpec
CONSTANTS
    BleThread = ble
    LanReader = lan
    Trees = {t1, t2}
    NoTree = NoTree
INVARIANTS DetachedBeforeNode PollsSpareDeadNode BleOutlived TasksEndWithBridge NothingLeftStarted
PROPERTY BridgeEnds
CHECK_DEADLOCK FALSE
