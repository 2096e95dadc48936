SPECIFICATION ReconcileSpec
CONSTANTS
    Execs = {e1, e2}
    MaxCost = 1
    RiskLimits <- OneUnit
    Day = 0
    ReservationTtl = 1
    MaxLatency = 1
    ExpiresAt = 2
    MaxTime = 1
    None = None
    Readers = {r1}
    MaxRestarts = 1
PROPERTIES
    ChangeEventsOnlyTighten
    SpendKeepsBeingCorrected
CHECK_DEADLOCK FALSE
