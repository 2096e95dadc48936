SPECIFICATION Spec
CONSTANTS
    Keys = {k1}
    Pools = {p1}
    MaxCost = 2
    Grants <- CappedAndOpen
    Unlimited <- Max
    Day = 2
    Fee = 1
    FeeRecipient = TRUE
    Funds = 3
    MaxTime = 4
    MaxTrades = 3
    None = None
INVARIANTS
    BudgetExact
    TwoBudgetsPerDay
    NoStandingAllowance
    ViewMatchesGate
PROPERTIES
    FundsLeaveOnlyByOrders
