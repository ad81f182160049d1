CONSTANTS
    Rooms = {g}
    NewRooms = {}
    NoRoom = NoRoom
    Responders = {r1}
    MaxSessions = 2
    MaxQueue = 1
    WatcherLags = FALSE
    CanStop = TRUE
SPECIFICATION Spec
CHECK_DEADLOCK FALSE
INVARIANTS
    GracefulStop
