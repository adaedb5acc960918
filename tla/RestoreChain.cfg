\* One user, a root, its child and its grandchild, each closed, made again
\* later and restored: proofs of every mix of incarnations.
SPECIFICATION RestoreSpec
CONSTANTS
    Users = {u1}
    RawHashes = {h1}
    Payloads = {p1}
    Accounts = {}
    Rates = {1}
    Gifts = {}
    Endowment = 1500
    MaxGeneration = 2
    MaxVoters = 1
    MaxTime = 3
    MaxVersion = 0
    MaxRecords = 6
    MaxMembers = 0
    MaxGifts = 0
    Shapes = {"branch", "chain"}
    Proofs <- MCProofs
PROPERTIES
    NothingInvented
    RestoredWhole
CHECK_DEADLOCK FALSE
