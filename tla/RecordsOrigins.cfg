\* Derivations of every kind, two deep, over two seconds and four records.
SPECIFICATION Spec
CONSTANTS
    Users = {u1}
    RawHashes = {h1}
    Payloads = {p1, p2}
    Accounts = {a1}
    Rates = {1}
    Gifts = {}
    Endowment = 2500
    MaxGeneration = 2
    MaxVoters = 1
    MaxTime = 2
    MaxVersion = 0
    MaxRecords = 4
    MaxMembers = 2
    MaxGifts = 0
INVARIANTS
    OriginsExisted
    IdDeterminesSource
CHECK_DEADLOCK FALSE
