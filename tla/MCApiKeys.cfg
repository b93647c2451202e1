SPECIFICATION Spec
CONSTANTS
    Orgs = {o1}
    Names = {n1}
    Prefixes = {p1, p2, p3, p4}
    Requests = {r1, r2}
SYMMETRY Symmetry
INVARIANTS TypeOK OneLiveKeyPerLineage
PROPERTIES DisabledAccountsAreRefused DeadKeysStayDead
