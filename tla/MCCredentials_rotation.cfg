SPECIFICATION FairSpec
CONSTANTS
    a = a
    b = b
    pw1 = pw1
    pw2 = pw2
    pw3 = pw3
    None = None
    Node = {a, b}
    Password = {pw1, pw2, pw3}
    MaxTrouble = 2
    Troubles = {"crash", "power", "clone", "failover", "lost", "cut", "edit", "rollback"}
CHECK_DEADLOCK FALSE
INVARIANTS
    NoLockout
    OldKept
PROPERTIES
    Settles
