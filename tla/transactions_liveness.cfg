SPECIFICATION FairSpec
CONSTANTS
    Users = {u1}
    Ids = {i1, i2}
    Idents = {m1}
    Contents = {c1}
    Cums = {}
    None = None
    Times = {1}
    Requests = {r1}
    Syncs = {s1, s2}
    Syncing = {u1}
    Conns = 2
    Kinds = {"update", "import", "refresh"}
    Records = 2
    Faults = FALSE
PROPERTIES
    EveryOperationEnds
