\* Every proof of up to three links over three ids.
SPECIFICATION Spec
CONSTANTS
    Ids = {a, b, c}
    Proofs <- MCProofs
    MaxLinks = 3
    MaxDeps = 2
INVARIANTS
    TypeOK
    DependenciesFirst
    AcceptsExactlyHistories
PROPERTIES
    EveryTurnAdvances
    Termination
