SPECIFICATION Spec
CONSTANTS
    Ids = {s1, s2}
    Nonces = {1, 2}
    Lookups = {l1}
    WritesMayFail = TRUE
    MaxConcurrent = 3
    MaxRestarts = 1
    None = None
PROPERTIES
    NothingRevives
CHECK_DEADLOCK FALSE
