SPECIFICATION FairSpec
CONSTANTS
    Users = {u1}
    Orgs = {o1, o2}
    Requests = {r1, r2}
    MaxTokens = 2
    NoOne = NoOne
PROPERTIES RevocationStaysInTenant RequestsFinish
