\* Deposits, refunds, migration, prefunding and a changing rent price.
SPECIFICATION Spec
CONSTANTS
    Users = {u1, u2, u3}
    RawHashes = {h1}
    Payloads = {p1}
    Accounts = {}
    Rates = {1, 3}
    Gifts = {40, 900}
    Endowment = 3000
    MaxGeneration = 1
    MaxVoters = 3
    MaxTime = 1
    MaxVersion = 0
    MaxRecords = 2
    MaxMembers = 0
    MaxGifts = 1
INVARIANTS
    Conservation
    ClaimsCovered
    ExitOpen
PROPERTIES
    NobodyLoses
