\* Two users, one root, one account and the pack of both, all of them closed
\* and restored; a wallet holds less than three records cost.
SPECIFICATION RestoreSpec
CONSTANTS
    Users = {u1, u2}
    RawHashes = {h1}
    Payloads = {}
    Accounts = {a1}
    Rates = {1}
    Gifts = {}
    Endowment = 900
    MaxGeneration = 1
    MaxVoters = 2
    MaxTime = 2
    MaxVersion = 0
    MaxRecords = 3
    MaxMembers = 2
    MaxGifts = 0
    Shapes = {"pack"}
    Proofs <- MCProofs
PROPERTIES
    NothingInvented
    RestoredWhole
CHECK_DEADLOCK FALSE
