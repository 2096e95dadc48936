SPECIFICATION FairSpec
CONSTANTS
    m1 = m1
    m2 = m2
    Markets = {m1, m2}
    Lots <- OneLot
    Holders = {"clone", "operator"}
    Others = 0
    Floats = {0, 2}
    Sweepers = {r1}
    Claimers = {}
    Faults = {"late"}
INVARIANTS ConfirmedIsPaid NeverOutOfPocket
PROPERTIES EveryWinIsSettled
CHECK_DEADLOCK FALSE
