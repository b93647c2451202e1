SPECIFICATION Spec
CONSTANTS
    Users = {u1}
    Orgs = {o1}
    Requests = {r1, r2}
    MaxTokens = 3
    NoOne = NoOne
SYMMETRY Symmetry
INVARIANTS TypeOK OneActivePerFamily
PROPERTIES EndedIsForever RevocationEndsFamilies
