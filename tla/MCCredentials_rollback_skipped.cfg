SPECIFICATION Spec
CONSTANTS
    a = a
    b = b
    pw1 = pw1
    pw2 = pw2
    pw3 = pw3
    None = None
    Node = {a, b}
    Password = {pw1, pw2}
    MaxTrouble = 3
    Troubles = {"crash","failover","rollback"}
CHECK_DEADLOCK FALSE
INVARIANTS
 ChangeMade
