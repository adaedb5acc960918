\* One archive over every node: what can be selected from it and what can be
\* proved with it.
SPECIFICATION Spec
CONSTANTS
    Shelves = {s1}
    Nodes <- MCAll
    Proofs <- MCProofs
    NodeLimit = 5
    GenerationLimit = 3
    MaxGeneration = 3
    h1 = h1
    p1 = p1
    a1 = a1
    a2 = a2
INVARIANTS
    SelectionStands
    BuiltProofsAccepted
    BuiltProofsImport
    AcceptedProofsAgree
CHECK_DEADLOCK FALSE
