SPECIFICATION Spec
CONSTANTS
    Messages = {"m1", "m2", "m3"}
    Requests = {1, 2, 3, 4}
    CacheMax = 1
    CacheCut = 1
    Skew = 1
    MaxRestarts = 1
    Agents = {Volt, Oracle}
    Customs = {mine, other}
    Markets = {BTC, ETH}
    Cooldown = 1
    Stale = 1
    Limit = 2
    MaxOrders = 2
    Calls = {1, 2}
    MaxFills = 2
    MaxSettles = 1
    Dispatches = {1, 2}
    MaxCost = 2
    Caps = {2, 3}
    Day = 0
    MaxDays = 1
    MaxObjects = 3
    MaxTime = 2
SYMMETRY Symmetry
INVARIANTS OnePositionEach ExactUnlessOverlapped CapUnlessDisturbed
PROPERTIES NoncesHold
CHECK_DEADLOCK FALSE
