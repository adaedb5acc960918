\* A user branches from and aggregates records which the same user closes
\* and makes again, by other transactions, while a call is under way.
SPECIFICATION CaptureSpec
CONSTANTS
    Users = {u1}
    Callers = {u1}
    AskKinds = {"Branch", "Batch", "Pack"}
    RawHashes = {h1}
    Payloads = {p1}
    Accounts = {}
    Rates = {1}
    Gifts = {}
    Endowment = 5000
    MaxGeneration = 1
    MaxVoters = 2
    MaxTime = 2
    MaxVersion = 0
    MaxRecords = 3
    MaxMembers = 2
    MaxGifts = 0
    NodeLimit = 1
    GenerationLimit = 1
INVARIANTS
    CapturesGenuine
PROPERTIES
    LandsAsRead
CHECK_DEADLOCK FALSE
