SPECIFICATION Spec
CONSTANTS
    m1 = m1
    m2 = m2
    Markets = {m1}
    Lots <- OneLot
    Holders = {"operator"}
    Others = 1
    Floats = {0}
    Sweepers = {r1, r2}
    Claimers = {}
    Faults = {}
INVARIANTS NeverPaidTwice
CHECK_DEADLOCK FALSE
