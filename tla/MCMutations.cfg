SPECIFICATION Spec
CONSTANTS
    m1 = m1
    m2 = m2
    a1 = a1
    a2 = a2
    b1 = b1
    ann = ann
    bob = bob
    Mutations = {m1, m2}
    Sessions <- MCSessions
    Accounts = {ann, bob}
    Nobody = Nobody
    AccountOf <- MCAccountOf
    Operators = {ann}
    Operations = {"create", "revoke"}
INVARIANTS
    AppliedOnce
    RefusedNeverApplied
    ActsForItsAccount
    OutcomeIsOfTheView
SYMMETRY Twins
