SPECIFICATION Spec
CONSTANTS
    Users = {u1, u2}
    Ids = {i1, i2}
    Idents = {m1}
    Contents = {c1}
    Cums = {}
    None = None
    Times = {1}
    Requests = {r1}
    Syncs = {s1, s2}
    Syncing = {u1}
    Conns = 2
    Kinds = {"create", "update", "publish", "version", "delete", "get", "view", "list", "versions",
             "synced", "refresh", "remove", "import"}
    Records = 2
    Faults = TRUE
SYMMETRY Symmetry
INVARIANTS
    TransactionsTypeOK
    ConnectionsAccounted
PROPERTIES
    OperationsAreAtomic
    ReadsOwnRows
