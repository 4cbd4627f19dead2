SPECIFICATION FairSpec
CONSTANTS
    a = a
    b = b
    c = c
    Node = {a, b, c}
    Rank <- SeedOrder
    AdoptedRoots = {}
    Pinned = {}
    Retirable = {c}
    Disposable = {}
    Faults = {"query_lost"}
    MaxEra = 4
    MaxWrites = 1
    MaxStops = 3
    NoNode = NoNode
    NoBase = NoBase
CHECK_DEADLOCK FALSE
INVARIANTS
    ExactlyOneWinner
PROPERTIES
    BootstrapMostAdvanced
    Recovers
