SPECIFICATION Spec
CONSTANTS
    Keys = {k1}
    Pools = {p1}
    MaxCost = 2
    Grants <- OneCapped
    Unlimited <- Max
    Day = 2
    Fee = 1
    FeeRecipient = TRUE
    Funds = 4
    MaxTime = 4
    MaxTrades = 3
    None = None
INVARIANTS
    RollingDailyCap
