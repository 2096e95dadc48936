SPECIFICATION Spec
CONSTANTS
    m1 = m1
    m2 = m2
    Markets = {m1}
    Lots <- OneLot
    Holders = {"operator"}
    Others = 0
    Floats = {0}
    Sweepers = {r1}
    Claimers = {}
    Faults = {"void"}
INVARIANTS ConfirmedIsPaid PreservedIsPaid
CHECK_DEADLOCK FALSE
