SPECIFICATION Spec
CONSTANTS
    Users = {u1, u2}
    Owner = u1
    Slugs = {w1, w2}
    Default = w1
    NoWorkspace = NoWorkspace
    Requests = {r1, r2}
SYMMETRY Symmetry
INVARIANTS TypeOK
PROPERTIES RemovalFromOrgTakesEffect RemovalFromWorkspaceTakesEffect
