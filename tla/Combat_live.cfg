SPECIFICATION FairSpec

CONSTANTS
    p1 = p1
    Pcs = {p1}
    n1 = n1
    Npcs = {n1}
    r1 = r1
    Rooms = {r1}
    MaxHitPoints = 1
    MaxTicks = 1
    MaxCalls <- TwoEach
    Nobody = Nobody
    NoMessage = NoMessage

PROPERTIES
    CallsReturn
    NpcsFightBack
