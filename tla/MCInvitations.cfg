SPECIFICATION Spec
CONSTANTS
    Users = {u1, u2}
    InvIds = {i1, i2}
    Requests = {r1, r2}
SYMMETRY Symmetry
INVARIANTS TypeOK OneOpenInvitation
PROPERTIES JoinsByOwnInvitation ClosedStaysClosed
