SPECIFICATION FairSpec

CONSTANTS
    g1 = g1
    g2 = g2
    e1 = e1
    e2 = e2
    Listeners = {g1, g2}
    Receivers = {g1, g2}
    ReceiverOf <- MCReceiverOf
    Events = {e1, e2}
    Shouts = {e1}
    MaxBroadcasts = 2
    NoListener = NoListener
    NoMessage = NoMessage

INVARIANTS
    TypeOK
    HeardAtMostOnce
    TableFollowsListeners

PROPERTIES
    EventsReachListeners
    SlotIsFreed
