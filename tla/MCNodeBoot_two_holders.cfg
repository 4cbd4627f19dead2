SPECIFICATION Spec
CONSTANTS
    b1 = b1
    b2 = b2
    Box = {b1, b2}
    Kinds = {"ha"}
    Threshold = 2
    HealCap = 1
    MaxRestores = 2
    MaxImage = 1
    MaxTrouble = 3
    Troubles = {"kill", "wedge"}
CHECK_DEADLOCK FALSE
INVARIANTS
    OneContainer
