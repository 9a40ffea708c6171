SPECIFICATION Spec
CONSTANTS
    Users = {u1}
    Ids = {i1, i2, i3}
    NewIds = {i1}
    Idents = {m1, m2}
    Contents = {c1, c2}
    Cums = {"1", "2"}
    Refused = {}
    None = None
    MaxClock = 4
    Handlers = {h1}
    Faults = FALSE
    MaxLate = 0
    CreatesOverlap = FALSE
    MismatchedBodies = TRUE
SYMMETRY Symmetry
INVARIANTS
    Mirror
PROPERTIES
    IdentifierStable
    CumulativeStateFrozen
    NoListedDatasetDropped
