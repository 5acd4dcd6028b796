SPECIFICATION EngineSpec

CONSTANTS
    n1 = n1
    n2 = n2
    n3 = n3
    Npcs = {n1, n2, n3}
    l1 = l1
    l2 = l2
    l3 = l3
    Lairs = {l1, l2, l3}
    Home = {l1, l2}
    Land = Land
    Counts = {1, 2}
    Herd <- OneSpawned
    MaxOrders = 2
    MaxTicks = 1
    MaxRestarts = 1

INVARIANTS
    EngineTypeOK
    

PROPERTIES
    Replenishes

CHECK_DEADLOCK FALSE
