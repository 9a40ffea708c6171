SPECIFICATION Spec
CONSTANTS
    Browsers = {b1, b2}
    Persons = {p1, p2}
    OldProxy = {p2}
    RequireCSCUserName = TRUE
    Projects = {j1, j2}
    States = {s1, s2}
    Uids = {u1, u2}
    Sids = {t1, t2}
    Logins = {h1, h2}
    Requests = {r1}
    Parallel = FALSE
    None = None
SYMMETRY Symmetry
INVARIANTS
    SessionsTypeOK
    SessionsRegistered
    OneUserPerIdentity
    LoginEndsWhereItBegan
    OnlyOwnProjectsShown
