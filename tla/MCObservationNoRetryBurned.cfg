\* One worker that is never late and never fails, and one attempt.
CONSTANTS
    w1 = w1  w2 = w2  x1 = x1  x2 = x2
    Attempts = {x1}
    Workers = {w1}
    Nobody = Nobody
    Nothing = Nothing
    MaxClaims = 3
    ClaimLimit = 1
    LeaseTime = 1
SPECIFICATION SteadySpec
INVARIANT NoRetryBurned
