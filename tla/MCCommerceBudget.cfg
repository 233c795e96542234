\* Four actions of two policies competing for one budget, without the clock.
CONSTANTS
    a1 = a1  a2 = a2  a3 = a3  a4 = a4
    s1 = s1  s2 = s2  p1 = p1  p2 = p2
    h1 = h1  h2 = h2  x1 = x1  x2 = x2
    Actions = {a1, a2, a3, a4}
    Sessions = {s1, s2}
    Policies = {p1, p2}
    Humans = {h1, h2}
    Attempts = {}
    Nobody = Nobody
    NoAttempt = NoAttempt
    NoSession = NoSession
    NoLimit = NoLimit
    SessionPolicy <- MCSessionPolicy
    Requester <- MCRequester
    Debit <- MCDebit
    Fee <- MCFee
    DebitSum <- MCDebitSum
    Terms <- MCBudgetTerms
    MaxRevision = 2
    MaxGeneration = 1
    RowLimit = 2
    GrantTtl = 1
    MaxTime = 0
SPECIFICATION Spec
SYMMETRY MCSymmetry
INVARIANTS
    ExposureCovered
    UnresolvedRowsBounded
    ApprovedBeforeReserved
