\* Two voters over records that open, derive from each other, move and close.
SPECIFICATION Spec
CONSTANTS
    Users = {u1, u2}
    RawHashes = {h1}
    Payloads = {p1}
    Accounts = {a1}
    Rates = {1}
    Gifts = {}
    Endowment = 2500
    MaxGeneration = 1
    MaxVoters = 2
    MaxTime = 2
    MaxVersion = 1
    MaxRecords = 3
    MaxMembers = 2
    MaxGifts = 0
INVARIANTS
    TypeOK
    VotersMatchVotes
PROPERTIES
    ImplementsWitnesses
