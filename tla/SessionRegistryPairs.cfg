SPECIFICATION Spec
CONSTANTS
    Ids = {s1, s2}
    Nonces = {1, 2}
    Lookups = {l1}
    WritesMayFail = FALSE
    MaxConcurrent = 2
    MaxRestarts = 0
    None = None
INVARIANTS
    RevocationSticks
    OneActiveSession
    NonceUsedOnce
CHECK_DEADLOCK FALSE
