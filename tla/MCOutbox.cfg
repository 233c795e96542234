\* Two jobs claimed in one batch or apart by two workers, two attempts each.
CONSTANTS
    j1 = j1  j2 = j2  w1 = w1  w2 = w2
    Jobs = {j1, j2}
    Workers = {w1, w2}
    MaxAttempts = 2
    ClaimLimit = 2
    MaxClaimErrors = 2
    LeaseTime = 1
    Backoff <- MCBackoff
SPECIFICATION Spec
INVARIANTS
    OneBearer
PROPERTIES
    SettledByHolder
    Delivers
    NothingWaitsForEver
