SPECIFICATION ReconcileSpec
CONSTANTS
    Execs = {e1, e2}
    MaxCost = 2
    RiskLimits <- TwoUnits
    Day = 1
    ReservationTtl = 1
    MaxLatency = 1
    ExpiresAt = 3
    MaxTime = 2
    None = None
    Readers = {r1}
    MaxRestarts = 0
INVARIANT
    NoJointOverspend
CHECK_DEADLOCK FALSE
