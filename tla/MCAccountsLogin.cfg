\* Two requests register, log in and link a wallet, for accounts that may share
\* a browser.
CONSTANTS
    r1 = r1  r2 = r2  p1 = p1  p2 = p2  p3 = p3  w1 = w1
    Requests = {r1, r2}
    Passkeys = {p1, p2, p3}
    Wallets = {w1}
    Nobody = Nobody
    InitialOwner <- Owners
    InitialSession <- Sessions
    InitialCode <- NoCodes
    PasskeyLimit = 1
    WalletLimit = 1
    CodeCount = 1
    Asked = {"register", "login", "wallet", "link"}
    MaxAccounts = 3
    MaxTokens = 4
    MaxFlows = 2
    MaxCodes = 1
    MaxCounter = 1
\* Tokens, flows and codes run out. That requests do not wait for each other for
\* ever is NoWaitingCircle.
CHECK_DEADLOCK FALSE
SYMMETRY Symmetry
SPECIFICATION Spec
INVARIANTS
    NoWaitingCircle
PROPERTIES
    LoginRotates
