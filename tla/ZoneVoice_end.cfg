SPECIFICATION FairSpec
CONSTANTS
    Audios = {pool}
    Poller = poller
    Glib = glib
    LanReaders = {lan1}
    NoThread = NoThread
    MaxIdle = 1
    MaxFailures = 1
PROPERTY EndIsTold
CHECK_DEADLOCK FALSE
