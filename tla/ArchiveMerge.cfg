\* Two users who hear of four records, of contradictory nodes about them and
\* of true and false proofs.
SPECIFICATION Spec
CONSTANTS
    Shelves = {s1, s2}
    Nodes <- MCMergeNodes
    Proofs <- MCProofs
    NodeLimit = 3
    GenerationLimit = 3
    MaxGeneration = 3
    h1 = h1
    p1 = p1
    a1 = a1
    a2 = a2
INVARIANTS
    TypeOK
    MergeOrderFree
    OneHistory
PROPERTIES
    NeverRewritten
SYMMETRY MCSymmetry
CHECK_DEADLOCK FALSE
