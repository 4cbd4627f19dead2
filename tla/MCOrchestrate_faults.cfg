SPECIFICATION Spec
CONSTANTS
    a = a
    b = b
    c = c
    Node = {a, b}
    Rank <- SeedOrderOfTwo
    AdoptedRoots = {b}
    Pinned = {a}
    Retirable = {a}
    Disposable = {a, b}
    Faults = {"query_lost", "flag_unread", "flag_unwritten", "gtid_unread", "reset_fails", "bootstrap_fails", "clone_drops_markers", "generation_unwritten", "crash", "empty_restart"}
    MaxEra = 2
    MaxWrites = 2
    MaxStops = 3
    NoNode = NoNode
    NoBase = NoBase
CHECK_DEADLOCK FALSE
INVARIANTS
    OneLiveGroup
