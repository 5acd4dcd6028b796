SPECIFICATION RoomLockSpec

CONSTANTS
    v1 = v1
    v2 = v2
    Visitors = {v1, v2}
    Nothing = Nothing
    MaxVisits = 1

PROPERTIES
    LockReachesOtherSide

CHECK_DEADLOCK FALSE
