SPECIFICATION Spec

CONSTANTS
    p1 = p1
    Pcs = {p1}
    n1 = n1
    Npcs = {n1}
    r1 = r1
    r2 = r2
    Rooms = {r1, r2}
    MaxHitPoints = 1
    MaxTicks = 2
    MaxCalls <- TwoAndOne
    Nobody = Nobody
    NoMessage = NoMessage

SYMMETRY Symmetry
VIEW View
INVARIANTS
    TypeOK
    EventsMatchFights
    BroadcastsAreBracketed
    StartIsSeenByQuery
