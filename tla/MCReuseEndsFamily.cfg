SPECIFICATION FairSpec
CONSTANTS
    Users = {u1}
    Orgs = {o1}
    Requests = {r1, r2}
    MaxTokens = 3
    NoOne = NoOne
PROPERTIES ReuseEndsFamily
