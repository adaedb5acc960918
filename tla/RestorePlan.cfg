\* Plans over packs and chains of records, some of them closed, while their
\* roots are closed and registered again.
SPECIFICATION MCSpec
CONSTANTS
    Planner = u1
    Users = {u1}
    RawHashes = {h1, h3}
    Payloads = {}
    Accounts = {a1}
    Rates = {1}
    Gifts = {}
    Endowment = 1400
    MaxGeneration = 2
    MaxVoters = 1
    MaxTime = 2
    MaxVersion = 0
    MaxRecords = 4
    MaxMembers = 0
    MaxGifts = 0
    NodeLimit = 4
    GenerationLimit = 2
    h1 = h1
    h2 = h2
    a1 = a1
    p1 = p1
    Scenarios = {"roots", "mixed", "chain"}
    Requests <- MCRequests
    Proofs <- MCProofs
INVARIANTS
    ResultAuthenticated
    UndisturbedPlanAccepted
    ResultTellsWhatLanded
PROPERTIES
    OnlyPlannedFunded
    LandedStepRestores
CHECK_DEADLOCK FALSE
