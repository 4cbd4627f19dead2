SPECIFICATION FairSpec
CONSTANTS
    MaxFile = 3
    MaxTrouble = 3
    Troubles = {"role", "crash", "lose", "expire", "request", "due", "set_fails", "set_unclear", "foreign"}
INVARIANTS
    TypeOK
    RecordTrue
    LatchMeansDump
    LossAnchored
CHECK_DEADLOCK FALSE
PROPERTIES
    GapReanchored
    ExpiryHandedBack
    SpoolKept
