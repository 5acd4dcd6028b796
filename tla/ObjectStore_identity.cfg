SPECIFICATION Spec

CONSTANTS
    s1 = s1
    s2 = s2
    Sessions = {s1, s2}
    c1 = c1
    c2 = c2
    Commits = {c1, c2}
    o1 = o1
    o2 = o2
    Objects = {o1, o2}
    i1 = i1
    Ids = {i1}
    u1 = u1
    u2 = u2
    Updates = {u1, u2}
    InitialIds = {i1}
    Ops = {"retrieve"}
    NoObject = NoObject
    NoId = NoId
    NoProc = NoProc
    NoUpdate = NoUpdate

SYMMETRY Symmetry
INVARIANTS
    SingleInstance
