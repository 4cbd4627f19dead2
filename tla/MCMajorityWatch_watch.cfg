SPECIFICATION FormedSpec
CONSTANTS
    a = a
    b = b
    c = c
    d = d
    Node = {a, b, c}
    GoneDwell = 1
    ForceDwell = 2
    MaxAttempts = 2
    Troubles = {"leave", "crash", "split", "lag", "marker_torn"}
    MaxTrouble = 2
    MaxWrites = 2
SYMMETRY Symmetry
INVARIANTS
    OneOperatingGroup
    AckedKept
PROPERTIES
    LiftJustified
