SPECIFICATION Spec
CONSTANTS
    Ids = {s1, s2, s3}
    Nonces = {1, 2, 3}
    Lookups = {l1}
    WritesMayFail = FALSE
    MaxConcurrent = 1
    MaxRestarts = 0
    None = None
INVARIANTS
    RevocationSticks
    NonceUsedOnce
    OneIndexedSession
CHECK_DEADLOCK FALSE
