\* Two actions with one attempt id, through the whole life of their grants.
CONSTANTS
    a1 = a1  a2 = a2  a3 = a3  a4 = a4
    s1 = s1  s2 = s2  p1 = p1  p2 = p2
    h1 = h1  h2 = h2  x1 = x1  x2 = x2
    Actions = {a1, a2}
    Sessions = {s1}
    Policies = {p1}
    Humans = {h1, h2}
    Attempts = {x1}
    Nobody = Nobody
    NoAttempt = NoAttempt
    NoSession = NoSession
    NoLimit = NoLimit
    SessionPolicy <- MCSessionPolicy
    Requester <- MCRequester
    Debit <- MCDebit
    Fee <- MCFee
    DebitSum <- MCDebitSum
    Terms <- MCGrantTerms
    MaxRevision = 2
    MaxGeneration = 2
    RowLimit = 1
    GrantTtl = 1
    MaxTime = 2
SPECIFICATION Spec
SYMMETRY MCSymmetry
INVARIANTS
    RowsAgree
    OneLiveToken
    AttemptKeepsExposure
    ClaimMatchesPayment
    CleanupAvailable
PROPERTIES
    KeepsLedger
    NeverTakenBack
    RevocationFailsClosed
