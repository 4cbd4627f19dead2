SPECIFICATION FairSpec
CONSTANTS
    b1 = b1
    b2 = b2
    Box = {b1, b2}
    Kinds = {"ha", "fork"}
    Threshold = 2
    HealCap = 1
    MaxRestores = 2
    MaxImage = 2
    MaxTrouble = 3
    Troubles = {"kill", "term", "wedge", "slow", "no_lock", "no_wipe", "ledger_torn", "marker_torn", "marker_unwritten", "ledger_unwritten", "counter_unwritten", "archive", "rollback", "clone_drops", "stuck", "peer", "mode", "image"}
CONSTRAINT Apart
CHECK_DEADLOCK FALSE
INVARIANTS
    TypeOK
    LockSeparates
    BudgetHolds
    AttemptsHonest
    RestoresBounded
    NoHalfRestoreServed
    OwedIsPending
PROPERTIES
    DerivedUnlessTorn
    Settles
