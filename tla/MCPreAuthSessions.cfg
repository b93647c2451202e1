SPECIFICATION Spec
CONSTANTS
    Users = {u1, u2}
    Orgs = {o1}
    Requests = {r1, r2, r3}
    PreAuthIds = {p1, p2}
    NoOne = NoOne
INVARIANTS TypeOK ExchangedOnce NoFalseReplay
