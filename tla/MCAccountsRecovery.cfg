\* Two requests change the settings of one account, or recover it.
CONSTANTS
    r1 = r1  r2 = r2  p1 = p1  p2 = p2  p3 = p3  w1 = w1
    Requests = {r1, r2}
    Passkeys = {p1, p2, p3}
    Wallets = {w1}
    Nobody = Nobody
    InitialOwner <- OneOwner
    InitialSession <- OneSession
    InitialCode <- Codes
    PasskeyLimit = 2
    WalletLimit = 1
    CodeCount = 1
    Asked = {"login", "add", "link", "codes", "redeem"}
    MaxAccounts = 1
    MaxTokens = 3
    MaxFlows = 2
    MaxCodes = 3
    MaxCounter = 1
\* Tokens, flows and codes run out. That requests do not wait for each other for
\* ever is NoWaitingCircle.
CHECK_DEADLOCK FALSE
SYMMETRY FreeSymmetry
SPECIFICATION Spec
INVARIANTS
    WithinLimits
    OneSessionPerProof
    ChangesNeedTheirSession
PROPERTIES
    DisabledStaysShut
