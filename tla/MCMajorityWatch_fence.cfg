SPECIFICATION FairSpec
CONSTANTS
    a = a
    b = b
    c = c
    d = d
    Node = {a, b}
    GoneDwell = 1
    ForceDwell = 2
    MaxAttempts = 2
    Troubles = {"leave", "crash", "split", "no_answer", "read_fails", "set_fails", "lift_fails", "stop_fails", "reform_fails", "slow_round"}
    MaxTrouble = 3
    MaxWrites = 1
INVARIANTS
    TypeOK
    MarkerRemembers
PROPERTIES
    WritesReturn
