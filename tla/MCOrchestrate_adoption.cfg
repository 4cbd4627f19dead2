SPECIFICATION Spec
CONSTANTS
    a = a
    b = b
    c = c
    Node = {a, b, c}
    Rank <- SeedOrder
    AdoptedRoots = {c}
    Pinned = {}
    Retirable = {}
    Disposable = {}
    Faults = {"flag_unread", "crash", "bootstrap_fails"}
    MaxEra = 2
    MaxWrites = 1
    MaxStops = 2
    NoNode = NoNode
    NoBase = NoBase
CHECK_DEADLOCK FALSE
INVARIANTS
    AtMostOneWinner
    AdoptedDataShared
PROPERTIES
    AdoptedDataLeads
    LineageKept
