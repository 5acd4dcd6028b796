SPECIFICATION WorldSpec

CONSTANTS
    v1 = v1
    v2 = v2
    Visitors = {v1, v2}
    Nothing = Nothing
    MaxVisits = 2

    w1 = w1
    w2 = w2
    Walkers = {w1, w2}
    Player = w2
    r1 = r1
    r2 = r2
    r3 = r3
    r4 = r4
    RoomIds = {r1, r2, r3, r4}
    z1 = z1
    z2 = z2
    Zones = {z1, z2}
    Places <- RowOfThree
    Nowhere = Nowhere
    MaxCommands = 2

    t1 = t1
    t2 = t2
    Traders = {t1, t2}
    Keeper = t1
    Store = Store
    Hall = Hall
    g1 = g1
    b1 = b1
    b2 = b2
    Items = {g1, b1, b2}
    Boxes = {b1, b2}
    NoBox = NoBox
    Inventory <- OneForSale
    Prices = {1, 2}
    MaxDeals <- KeeperHasTwo

    Phrases <- ClientPhrases
    ReadSize = 3
    BufferSize = 2
    MaxSent = 4

    Spots <- Grid
    Position <- GridPosition
    Mazes <- GridMazes

    Names <- SomeNames
    Filters <- SomeFilters
    Width = 6
    Height = 2
    MaxObjects = 3
    MaxInputs = 2
    MaxChanges = 1

INVARIANTS
    TypesOK
    GridHolds
    NothingSoldTwice
    CashIsConserved
    WeighingEnds
    ClientIsUnderstood
    PathsLead
    MenusHold
PROPERTIES
    RoomCallsReturn
    ImplementsLedger

CHECK_DEADLOCK FALSE
