\* Every graph of three nodes, there or not, with up to two dependencies each,
\* from one or two roots.
SPECIFICATION Spec
CONSTANTS
    Ids = {a, b, c}
    Requests <- MCRequests
    MaxDeps = 2
    NodeLimit = 3
    GenerationLimit = 1
INVARIANTS
    TypeOK
    DependenciesFirst
    OrdersWhatIsBehind
PROPERTIES
    EveryTurnAdvances
    Termination
