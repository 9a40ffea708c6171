SPECIFICATION Spec
CONSTANTS
    Users = {u1}
    Ids = {i1, i2}
    NewIds = {i1, i2}
    Idents = {m1, m2}
    Contents = {c1}
    Cums = {}
    Refused = {}
    None = None
    MaxClock = 4
    Handlers = {h1, h2}
    Faults = TRUE
    MaxLate = 1
    CreatesOverlap = TRUE
    MismatchedBodies = FALSE
SYMMETRY Symmetry
INVARIANTS
    TypeOK
    UniqueIdentifiers
    PublishedIffIdentified
    SkipCheckSound
PROPERTIES
    DeletedOnlyUnlisted
    ImplementsLifecycle
