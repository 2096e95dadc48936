SPECIFICATION Spec
CONSTANTS
    m1 = m1
    m2 = m2
    Markets = {m1}
    Lots <- OneLot
    Holders = {"clone"}
    Others = 0
    Floats = {2}
    Sweepers = {}
    Claimers = {c1}
    Faults = {}
INVARIANTS NeverOutOfPocket
CHECK_DEADLOCK FALSE
