SPECIFICATION SyncSpec
CONSTANTS
    Users = {u1}
    Ids = {i1}
    NewIds = {}
    Idents = {m1}
    Contents = {c1}
    Cums = {}
    Refused = {}
    None = None
    MaxClock = 2
    Handlers = {}
    Faults = FALSE
    MaxLate = 0
    CreatesOverlap = FALSE
    MismatchedBodies = FALSE
    Syncers = {s1}
    Modes = {"fetch"}
    ForeignOps = {"create"}
    SyncFaults = {"timeout"}
    Overlap = FALSE
SYMMETRY Symmetry
INVARIANTS
    WatermarkSound
