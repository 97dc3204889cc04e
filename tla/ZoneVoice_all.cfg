SPECIFICATION FairSpec
CONSTANTS
    Audios = {pool}
    Poller = poller
    Glib = glib
    LanReaders = {lan1}
    NoThread = NoThread
    MaxIdle = 1
    MaxFailures = 1
PROPERTIES RequestsAnswered ChangeIsTold
CHECK_DEADLOCK FALSE
