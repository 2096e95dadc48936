SPECIFICATION Spec
CONSTANTS
    Hashes = {"h1", "h2"}
    Fakes = {"fake"}
    Spellings = {"lower", "mixed"}
    Requests = {1, 2, 3}
    CacheSize = 1
    MaxOthers = 1
    MaxRestarts = 1
    Execs = {1, 2}
    Pools = {"p1", "p2"}
    Threshold = 2
    BreakerTime = 1
    PoolTime = 2
    MaxTime = 2
    Cancels = {1, 2}
    MaxSettles = 2
    Syncs = {1, 2}
    Reconciles = {1, 2}
    Sweeps = {1, 2}
    Loaders = {1, 2, 3}
    PageSize = 1
    RecordCap = 2
    ClaimCap = 1
    MaxStamps = 2
    MaxReboots = 1
INVARIANTS BookedOnce LockedOutOnlyIfBooked BooksMatchChain AgentCreditedOnce PayoutBooksSound
PROPERTIES FailuresHoldBack FinalStatusStays
CHECK_DEADLOCK FALSE
