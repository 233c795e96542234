\* Two members, one agent with one credential and one machine session, one handoff.
CONSTANTS
    r1 = r1  r2 = r2  h1 = h1  h2 = h2  c1 = c1  m1 = m1  x1 = x1
    Requests = {r1, r2}
    MaxAccounts = 2
    Humans = {h1, h2}
    AccountOf <- MCAccountOf
    Credentials = {c1}
    Machines = {m1}
    Commerce = {x1}
    Nobody = Nobody
    Standings <- MCStandings
    InitialMember <- MCMember
    InitialHuman = {h1}
    Switched = {"agent"}
CHECK_DEADLOCK FALSE
SYMMETRY Symmetry
SPECIFICATION Spec
INVARIANTS
    NoneOutlivesItsCredential
    AuthorityAtCommit
    OwnersRemain
    OneTokenPerHandoff
    OneKindOfCircle
PROPERTIES
    TakesEffectAtOnce
