SPECIFICATION SyncSpec
CONSTANTS
    Users = {u1, u2}
    Ids = {i1, i2, i3}
    NewIds = {i1}
    Idents = {m1, m2}
    Contents = {c1}
    Cums = {"2"}
    Refused = {}
    None = None
    MaxClock = 3
    Handlers = {h1}
    Faults = TRUE
    MaxLate = 1
    CreatesOverlap = FALSE
    MismatchedBodies = FALSE
    Syncers = {s1}
    Modes = {"fetch", "rpc"}
    ForeignOps = {}
    SyncFaults = {"timeout", "cut", "noinfo"}
    Overlap = TRUE
SYMMETRY Symmetry
INVARIANTS
    SyncTypeOK
    SyncWritesOwnRows
    SameOwnerInMetax
PROPERTIES
    SyncDropsOnlyRemoved
CONSTRAINT LateOfOneUser
