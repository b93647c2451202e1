SPECIFICATION TeamSpec
CONSTANTS
    Users = {u1, u2}
    TeamIds = {t1, t2, t3}
    Names = {n1, n2}
    Scopes = {w1}
    OrgWide = OrgWide
    Requests = {r1, r2}
SYMMETRY Symmetry
INVARIANTS TeamTypeOK ScopedNamesUnique
PROPERTIES DeletionIsFinal
