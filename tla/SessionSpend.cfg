SPECIFICATION Spec
CONSTANTS
    Execs = {e1, e2, e3}
    MaxCost = 2
    RiskLimits <- Limits
    Day = 1
    ReservationTtl = 1
    MaxLatency = 1
    ExpiresAt = 3
    MaxTime = 3
    None = None
SYMMETRY Symmetry
INVARIANTS
    NoJointOverspend
    HoldSurvivesFlight
    BooksTruthful
PROPERTIES
    ImplementsTradeBudget
CHECK_DEADLOCK FALSE
