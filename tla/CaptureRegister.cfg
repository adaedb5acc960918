\* One user registers through the SDK while another closes and registers the
\* same hash: what is read back is of the right bank and incarnation.
SPECIFICATION CaptureSpec
CONSTANTS
    Users = {u1, u2}
    Callers = {u1}
    AskKinds = {"Register", "Account"}
    RawHashes = {h1}
    Payloads = {}
    Accounts = {a1}
    Rates = {1}
    Gifts = {}
    Endowment = 5000
    MaxGeneration = 1
    MaxVoters = 2
    MaxTime = 2
    MaxVersion = 1
    MaxRecords = 3
    MaxMembers = 0
    MaxGifts = 0
    NodeLimit = 1
    GenerationLimit = 1
INVARIANTS
    CapturesGenuine
PROPERTIES
    KeptVoteCapturesOwn
CHECK_DEADLOCK FALSE
