SPECIFICATION FairSpec
CONSTANTS
    Users = {u1, u2, u3}
    Founder = u1
    Requests = {r1, r2}
    MaxJoins = 1
    Ops = {"add", "remove", "change", "transfer"}
INVARIANTS TypeOK ExactlyOneOwner
PROPERTIES OwnerDeposedOnlyBySelf RequestsFinish
