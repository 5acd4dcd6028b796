SPECIFICATION Spec
CHECK_DEADLOCK FALSE

CONSTANTS
    c1 = c1
    c2 = c2
    Conns = {c1, c2}
    u1 = u1
    u2 = u2
    Users = {u1, u2}
    p1 = p1
    Chars = {p1}
    None = None
    Stocks <- Stocks2

INVARIANTS
    TypeOK
    OnlineUsersAreHeld
    SoleLoginOwnsInput
    PlayersHearEvents
    OnlineCharactersArePlayed
    SomebodyIsAdmin
    OneAdminIsSafe
PROPERTIES
    UsersAreReleased
