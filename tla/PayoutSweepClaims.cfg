SPECIFICATION Spec
CONSTANTS
    m1 = m1
    m2 = m2
    Markets = {m1}
    Lots <- OneLot
    Holders = {"user", "operator"}
    Others = 0
    Floats = {0, 2}
    Sweepers = {r1}
    Claimers = {c1, c2}
    Faults = {}
INVARIANTS NeverPaidTwice
CHECK_DEADLOCK FALSE
