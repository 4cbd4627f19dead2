SPECIFICATION Spec
CONSTANTS
    a = a
    b = b
    c = c
    Node = {a, b}
    Rank <- SeedOrderOfTwo
    AdoptedRoots = {}
    Pinned = {}
    Retirable = {a}
    Disposable = {}
    Faults = {"crash", "query_lost", "bootstrap_fails"}
    MaxEra = 3
    MaxWrites = 4
    MaxStops = 5
    NoNode = NoNode
    NoBase = NoBase
CHECK_DEADLOCK FALSE
INVARIANTS
    TypeOK
    WaiverNeedsStanding
PROPERTIES
    ForkShowsFirst
    DiscardsOnlyPastWaiver
