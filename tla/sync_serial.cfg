SPECIFICATION SyncSpec
CONSTANTS
    Users = {u1}
    Ids = {i1, i2, i3, i4}
    NewIds = {i1}
    Idents = {m1, m2, m3, m4}
    Contents = {c1, c2}
    Cums = {}
    Refused = {m4}
    None = None
    MaxClock = 4
    Handlers = {h1}
    Faults = FALSE
    MaxLate = 0
    CreatesOverlap = FALSE
    MismatchedBodies = FALSE
    Syncers = {s1}
    Modes = {"fetch", "fetchAll"}
    ForeignOps = {"create", "remove"}
    SyncFaults = {}
    Overlap = FALSE
SYMMETRY Symmetry
INVARIANTS
    WatermarkSound
    UniqueIdentifiers
    PublishedIffIdentified
PROPERTIES
    FetchAllMirrors
