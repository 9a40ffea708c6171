SPECIFICATION FairSyncSpec
CONSTANTS
    Users = {u1}
    Ids = {i1, i2, i3}
    NewIds = {}
    Idents = {m1, m2, m3, m4}
    Contents = {c1, c2}
    Cums = {}
    Refused = {m4}
    None = None
    MaxClock = 4
    Handlers = {}
    Faults = FALSE
    MaxLate = 0
    CreatesOverlap = FALSE
    MismatchedBodies = FALSE
    Syncers = {s1}
    Modes = {"fetchAll"}
    ForeignOps = {"create", "remove"}
    SyncFaults = {}
    Overlap = TRUE
INVARIANTS
    SkipCheckSound
PROPERTIES
    EventuallyMirrored
