SPECIFICATION Spec
CONSTANTS
    Requests = {r1, r2, r3}
    Schemas = {ida, att}
    AtOnce = 2
    None = None
SYMMETRY Symmetry
INVARIANTS
    DocumentsTypeOK
    FieldsOfOverlapping
    SavedIsValid
