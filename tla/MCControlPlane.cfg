\* One action under one session, between two transactions.
CONSTANTS
    r1 = r1  r2 = r2  h1 = h1   c1 = c1  m1 = m1  x1 = x1
    p1 = p1  a1 = a1  i1 = i1
    Requests = {r1, r2}
    MaxAccounts = 1
    Humans = {h1}
    AccountOf <- MCAccountOf
    Credentials = {c1}
    Machines = {m1}
    Commerce = {x1}
    Nobody = Nobody
    Standings = {}
    InitialMember <- MCMember
    InitialHuman = {h1}
    Switched = {"agent"}
    Actions = {a1}
    Policies = {p1}
    Attempts = {i1}
    NoAttempt = NoAttempt
    NoSession = NoSession
    NoLimit = NoLimit
    SessionPolicy <- MCSessionPolicy
    Requester <- MCRequester
    Debit <- MCDebit
    Fee <- MCFee
    DebitSum <- MCDebitSum
    Terms <- MCTerms
    MaxRevision = 1
    MaxGeneration = 1
    RowLimit = 1
    GrantTtl = 1
    MaxTime = 0
CHECK_DEADLOCK FALSE
SYMMETRY Symmetry
SPECIFICATION ControlSpec
PROPERTIES
    ChainIsOneFact
    SpendsInForce
    EndedForGood
