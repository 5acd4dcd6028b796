SPECIFICATION FairSpec

CONSTANTS
    s1 = s1
    s2 = s2
    Sessions = {s1, s2}
    c1 = c1
    c2 = c2
    Commits = {c1, c2}
    o1 = o1
    Objects = {o1}
    i1 = i1
    Ids = {i1}
    u1 = u1
    u2 = u2
    Updates = {u1, u2}
    InitialIds = {i1}
    Ops = {"retrieve", "write", "delete"}
    NoObject = NoObject
    NoId = NoId
    NoProc = NoProc
    NoUpdate = NoUpdate

PROPERTIES
    UpdatesReachDatabase
    CallsReturn
