SPECIFICATION FairSpec
CONSTANTS
    Conns = {c1, c2}
    Storers = {s1}
    Channels = {nav}
    PushChannels = {nav}
    Acceptor = acceptor
    NoConn = NoConn
    MaxValue = 1
    MaxLines = 1
INVARIANTS NoLostUpdate ClientIsServed
PROPERTIES OnlyOwnReaderClears StopReleasesClient TalkingKickedEnds
CHECK_DEADLOCK FALSE
