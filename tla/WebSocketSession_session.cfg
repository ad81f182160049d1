CONSTANTS
    Rooms = {g}
    NewRooms = {h}
    NoRoom = NoRoom
    Responders = {r1}
    MaxSessions = 2
    MaxQueue = 1
    WatcherLags = FALSE
    CanStop = TRUE
SPECIFICATION FairSpec
CHECK_DEADLOCK FALSE
INVARIANTS
    SocketIsReachable
    ReturnsClean
    NoCrashWhileRunning
    SubscribedOnceToKnownRooms
    LoginIsExpected
PROPERTIES
    IsBotLifecycle
    ServesInTheEnd
