------------------------------ MODULE Accounts ------------------------------
(***************************************************************************)
(* Accounts, the passkeys, wallets and recovery codes that open them, and  *)
(* browser sessions: the requests of the account service and the           *)
(* transactions of its store, at READ COMMITTED.                           *)
(*                                                                         *)
(* A request first consumes a one-time challenge (a flow here), waits for  *)
(* its proof to be verified, and then runs one transaction: it looks up    *)
(* the accounts it is about without a lock, locks them in order, reads     *)
(* again, and writes.  Between any two of these, others commit.            *)
(*                                                                         *)
(* Accounts, session tokens, flows and codes are numbers, 0 for none;      *)
(* tokens, flows and codes are drawn from counters in place of random      *)
(* values.  Operators whose name starts with Bug belong to no              *)
(* specification.                                                          *)
(***************************************************************************)
EXTENDS Integers, FiniteSets

CONSTANTS
    Requests,       \* requests served at one time
    Passkeys,       \* credentials of authenticators
    Wallets,        \* addresses
    Nobody,         \* holder of a free lock, and the subject of no request
    InitialOwner,   \* the account each passkey was registered for, or 0
    InitialSession, \* the account of each token granted before
    InitialCode,    \* the account of each recovery code made before
    PasskeyLimit,   \* MAX_CREDENTIALS_PER_ACCOUNT
    WalletLimit,    \* MAX_WALLETS_PER_ACCOUNT
    CodeCount,      \* recovery codes of one set
    Asked,          \* the kinds of requests made
    MaxAccounts, MaxTokens, MaxFlows, MaxCodes, MaxCounter    \* bounds

Account == 1 .. MaxAccounts
Token   == 1 .. MaxTokens
Flow    == 1 .. MaxFlows
Code    == 1 .. MaxCodes
Counter == 0 .. MaxCounter

Registered == {a \in Account : \E p \in Passkeys : InitialOwner[p] = a}

ASSUME AccountsAssumption ==
    /\ PasskeyLimit \in Nat \ {0} /\ WalletLimit \in Nat \ {0} /\ CodeCount \in Nat
    /\ MaxAccounts \in Nat /\ MaxTokens \in Nat /\ MaxFlows \in Nat
    /\ MaxCodes \in Nat /\ MaxCounter \in Nat
    /\ InitialOwner \in [Passkeys -> 0 .. MaxAccounts]
    /\ \E n \in 0 .. MaxTokens : InitialSession \in [1 .. n -> Registered]
    /\ \E n \in 0 .. MaxCodes : InitialCode \in [1 .. n -> Registered]
    /\ IsFiniteSet(Passkeys) /\ IsFiniteSet(Wallets)
    /\ Nobody \notin Requests
    /\ \A a \in Account :
          Cardinality({p \in Passkeys : InitialOwner[p] = a}) <= PasskeyLimit

VARIABLES
    status,         \* accounts: status
    owner,          \* passkeys: account, 0 if not registered
    counter,        \* passkeys: signature counter
    holder,         \* wallets: account, 0 if not linked
    codes,          \* recovery codes: account, 0 if used or replaced
    session,        \* sessions by token
    flow,           \* challenges by flow
    tokens, flows, drawn,   \* tokens, flows and codes drawn so far
    accountLock,    \* row locks on accounts
    walletLock,     \* advisory locks on addresses
    req,            \* the requests under way
    granted         \* what each token was granted for

accounts == <<status, owner, counter, holder, codes, drawn>>
locks    == <<accountLock, walletLock>>
vars == <<accounts, session, flow, tokens, flows, locks, req, granted>>

NoSession == [account |-> 0, method |-> "none", age |-> "none"]
NoFlow    == [kind |-> "none", session |-> 0, account |-> 0, wallet |-> Nobody]
NoProof   == [flow |-> 0, code |-> 0, passkey |-> Nobody, counter |-> 0]
Idle      == [kind |-> "none", step |-> "none", session |-> 0, flow |-> 0,
              passkey |-> Nobody, wallet |-> Nobody, code |-> 0, account |-> 0,
              prev |-> 0, counter |-> 0, next |-> 0]

Logins   == {"register", "login", "wallet"}
Settings == {"add", "link", "codes"}

(* Accounts registered with a passkey, sessions of some, and their codes.  *)
Init ==
    /\ status  = [a \in Account |-> IF a \in Registered THEN "active" ELSE "none"]
    /\ owner   = InitialOwner
    /\ counter = [p \in Passkeys |-> 0]
    /\ holder  = [w \in Wallets |-> 0]
    /\ codes   = [k \in Code |-> IF k \in DOMAIN InitialCode THEN InitialCode[k] ELSE 0]
    /\ session = [s \in Token |-> IF s \in DOMAIN InitialSession
            THEN [account |-> InitialSession[s], method |-> "passkey", age |-> "fresh"]
            ELSE NoSession]
    /\ flow    = [c \in Flow |-> NoFlow]
    /\ tokens = Cardinality(DOMAIN InitialSession) /\ flows = 0
    /\ drawn = Cardinality(DOMAIN InitialCode)
    /\ accountLock = [a \in Account |-> Nobody]
    /\ walletLock  = [w \in Wallets |-> Nobody]
    /\ req     = [r \in Requests |-> Idle]
    /\ granted = [s \in Token |-> NoProof]

-----------------------------------------------------------------------------
(* Reading.                                                                *)

Active(a) == a # 0 /\ status[a] = "active"

AccountOf(s) == IF s = 0 THEN 0 ELSE session[s].account

(* getSession.                                                             *)
Live(s) == Active(AccountOf(s))

(* requireFreshSession, and lockFreshSession once the account is locked.   *)
Fresh(s) == Live(s) /\ session[s].age = "fresh"

Unlocked(a) == a = 0 \/ accountLock[a] = Nobody

PasskeysOf(a) == {p \in Passkeys : owner[p] = a}
WalletsOf(a)  == {w \in Wallets : holder[w] = a}

BugRowLocked(s) == FALSE

(* A transaction that read a session FOR UPDATE, or deleted it.            *)
RowLocked(s) == \E r \in Requests : req[r].step = "write" /\ req[r].session = s

-----------------------------------------------------------------------------
(* Challenges.                                                             *)

(* A flow is bound to the session presented or to none; a session that has *)
(* ended by now is as good as none.  To add a passkey or link a wallet it  *)
(* takes a fresh session.  The binding cookie narrows further who may      *)
(* answer, and is left out.  A flow that expires is never answered.        *)
Issue(kind, s, w) ==
    /\ flows < MaxFlows /\ (s # 0 => session[s] # NoSession)
    /\ kind \in {"add", "link"} => Fresh(s) /\ Unlocked(AccountOf(s))
    /\ (w = Nobody) <=> (kind \notin {"wallet", "link"})
    /\ kind \in Asked
    /\ flows' = flows + 1
    /\ flow' = [flow EXCEPT ![flows + 1] =
            [kind |-> kind, session |-> s, wallet |-> w,
             account |-> IF kind \in Settings THEN AccountOf(s) ELSE 0]]
    /\ UNCHANGED <<accounts, session, tokens, locks, req, granted>>

(* consumeChallenge: the answer presents the session of the flow.          *)
Answer(r, c) ==
    /\ req[r] = Idle /\ flow[c] # NoFlow
    /\ flow[c].kind \in Settings =>
          /\ Fresh(flow[c].session)
          /\ AccountOf(flow[c].session) = flow[c].account
          /\ Unlocked(flow[c].account)
    /\ flow' = [flow EXCEPT ![c] = NoFlow]
    /\ req'  = [req EXCEPT ![r] =
            [Idle EXCEPT !.kind = flow[c].kind, !.flow = c,
                !.step = IF flow[c].kind = "login" THEN "find" ELSE "prove",
                !.session = flow[c].session, !.wallet = flow[c].wallet]]
    /\ UNCHANGED <<accounts, session, tokens, flows, locks, granted>>

(* New codes, and redeeming one, need no challenge.                        *)
AskForCodes(r, s) ==
    /\ req[r] = Idle /\ "codes" \in Asked /\ Fresh(s) /\ session[s].method # "recovery"
    /\ req' = [req EXCEPT ![r] =
            [Idle EXCEPT !.kind = "codes", !.step = "lookup", !.session = s]]
    /\ UNCHANGED <<accounts, session, flow, tokens, flows, locks, granted>>

PresentCode(r, k) ==
    /\ req[r] = Idle /\ "redeem" \in Asked /\ k <= drawn
    /\ req' = [req EXCEPT ![r] =
            [Idle EXCEPT !.kind = "redeem", !.step = "lookup", !.code = k]]
    /\ UNCHANGED <<accounts, session, flow, tokens, flows, locks, granted>>

-----------------------------------------------------------------------------
(* Proofs.                                                                 *)

(* findPasskey: the snapshot the assertion is verified against.            *)
Find(r, p) ==
    /\ req[r].step = "find" /\ Active(owner[p])
    /\ req' = [req EXCEPT ![r] = [@ EXCEPT !.step = "prove", !.passkey = p,
                    !.account = owner[p], !.counter = counter[p]]]
    /\ UNCHANGED <<accounts, session, flow, tokens, flows, locks, granted>>

(* A counter is zero for ever, or grows with every assertion.              *)
Grows(old, new) == new > old \/ (new = 0 /\ old = 0)

(* The proof is verified, and the presented session read again: a login    *)
(* goes on without it if it ended, a setting does not.                     *)
Prove(r, p, n) ==
    /\ req[r].step = "prove"
    /\ CASE req[r].kind = "login"  -> p = req[r].passkey /\ Grows(req[r].counter, n)
         [] req[r].kind \in {"register", "add"} -> p \in Passkeys
         [] OTHER -> p = Nobody /\ n = 0
    /\ req[r].kind \in Settings => Fresh(req[r].session)
    /\ req' = [req EXCEPT ![r] = [@ EXCEPT !.step = "lookup",
                    !.passkey = p, !.next = n,
                    !.session = IF Live(req[r].session) THEN req[r].session ELSE 0]]
    /\ UNCHANGED <<accounts, session, flow, tokens, flows, locks, granted>>

-----------------------------------------------------------------------------
(* Transactions.                                                           *)

(* The account a transaction is about, as it finds it without a lock.      *)
Target(q) ==
    CASE q.kind = "login"      -> owner[q.passkey]
      [] q.kind = "wallet"     -> holder[q.wallet]
      [] q.kind = "redeem"     -> codes[q.code]
      [] q.kind \in Settings   -> AccountOf(q.session)
      [] OTHER                -> 0

Found(q) ==
    /\ q.kind = "login" => owner[q.passkey] = q.account
    /\ q.kind \notin {"wallet", "register"} => Target(q) # 0

(* The locks on the hash of the new token meet no other request's.         *)
Lookup(r) ==
    /\ req[r].step = "lookup" /\ Found(req[r])
    /\ IF req[r].wallet = Nobody THEN UNCHANGED walletLock
       ELSE /\ walletLock[req[r].wallet] = Nobody
            /\ walletLock' = [walletLock EXCEPT ![req[r].wallet] = r]
    /\ req' = [req EXCEPT ![r] = [@ EXCEPT !.step = "lock",
                    !.account = Target(req[r]),
                    !.prev = IF req[r].kind \in Logins
                             THEN AccountOf(req[r].session) ELSE 0]]
    /\ UNCHANGED <<accounts, session, flow, tokens, flows, accountLock, granted>>

Held(r) == {a \in Account : accountLock[a] = r}

Needed(r) == {req[r].account, req[r].prev} \ (Held(r) \cup {0})

BugNextLock(r, a) == req[r].account \in Needed(r) => a = req[r].account

(* lockAccountsSorted.                                                     *)
NextLock(r, a) == \A b \in Needed(r) : a <= b

Acquire(r, a) ==
    /\ req[r].step = "lock"
    /\ a \in Needed(r) /\ NextLock(r, a) /\ accountLock[a] = Nobody
    /\ accountLock' = [accountLock EXCEPT ![a] = r]
    /\ UNCHANGED <<accounts, session, flow, tokens, flows, walletLock, req, granted>>

(* An account is read again under its lock.  The account of the session    *)
(* that is replaced may be disabled, but for a wallet's first login.       *)
BugStillActive(q) == TRUE
StillActive(q) ==
    CASE q.kind = "register"                 -> TRUE
      [] q.kind = "wallet" /\ q.account = 0  -> q.prev # 0 => Active(q.prev)
      [] OTHER                               -> Active(q.account)

BugUnchanged(q) == TRUE

(* So is what the request is about.                                        *)
Unchanged(q) ==
    CASE q.kind = "login"    -> /\ owner[q.passkey] = q.account
                                /\ counter[q.passkey] = q.counter
      [] q.kind = "register" -> owner[q.passkey] = 0
      [] q.kind = "wallet"   -> holder[q.wallet] = q.account
      [] q.kind = "redeem"   -> codes[q.code] = q.account
      [] q.kind = "add"      -> /\ Fresh(q.session) /\ owner[q.passkey] = 0
                                /\ Cardinality(PasskeysOf(q.account)) < PasskeyLimit
      [] q.kind = "link"     -> /\ Fresh(q.session) /\ holder[q.wallet] = 0
                                /\ Cardinality(WalletsOf(q.account)) < WalletLimit
      [] q.kind = "codes"    -> Fresh(q.session) /\ session[q.session].method # "recovery"

Check(r) ==
    /\ req[r].step = "lock" /\ Needed(r) = {}
    /\ StillActive(req[r]) /\ Unchanged(req[r])
    /\ req' = [req EXCEPT ![r].step = "write"]
    /\ UNCHANGED <<accounts, session, flow, tokens, flows, locks, granted>>

Release(r) ==
    /\ accountLock' = [a \in Account |-> IF accountLock[a] = r THEN Nobody
                                         ELSE accountLock[a]]
    /\ walletLock'  = [w \in Wallets |-> IF walletLock[w] = r THEN Nobody
                                         ELSE walletLock[w]]
    /\ req' = [req EXCEPT ![r] = Idle]

BugEnded(q) == IF q.prev = q.account THEN {q.session} ELSE {}

(* The session a login replaces, whichever account it is of.               *)
Ended(q) == {q.session}

(* The sessions a recovery ends.                                           *)
Revoked(q) == {s \in Token : session[s].account = q.account}

NewSession(q, a, method, ended) ==
    /\ tokens < MaxTokens
    /\ tokens' = tokens + 1
    /\ session' = [s \in Token |->
            IF s = tokens + 1 THEN [account |-> a, method |-> method, age |-> "fresh"]
            ELSE IF s \in ended THEN NoSession ELSE session[s]]
    /\ granted' = [granted EXCEPT ![tokens + 1] =
            [flow |-> q.flow, code |-> q.code,
             passkey |-> q.passkey, counter |-> q.next]]

NewAccount(a) == status[a] = "none" /\ status' = [status EXCEPT ![a] = "active"]

Writing(r, kind) == req[r].step = "write" /\ req[r].kind = kind /\ Release(r)

(* createPasskeyAccount.                                                   *)
WriteRegister(r) ==
    /\ Writing(r, "register") /\ owner[req[r].passkey] = 0
    /\ \E a \in Account :
          /\ NewAccount(a)
          /\ owner' = [owner EXCEPT ![req[r].passkey] = a]
          /\ NewSession(req[r], a, "passkey", Ended(req[r]))
    /\ counter' = [counter EXCEPT ![req[r].passkey] = req[r].next]
    /\ UNCHANGED <<holder, codes, drawn, flow, flows>>

(* loginPasskey.                                                           *)
WriteLogin(r) ==
    /\ Writing(r, "login")
    /\ counter' = [counter EXCEPT ![req[r].passkey] = req[r].next]
    /\ NewSession(req[r], req[r].account, "passkey", Ended(req[r]))
    /\ UNCHANGED <<status, owner, holder, codes, drawn, flow, flows>>

(* loginWallet.                                                            *)
WriteWallet(r) ==
    /\ Writing(r, "wallet")
    /\ \/ /\ req[r].account # 0
          /\ NewSession(req[r], req[r].account, "wallet", Ended(req[r]))
          /\ UNCHANGED <<status, holder>>
       \/ /\ req[r].account = 0
          /\ \E a \in Account :
                /\ NewAccount(a)
                /\ holder' = [holder EXCEPT ![req[r].wallet] = a]
                /\ NewSession(req[r], a, "wallet", Ended(req[r]))
    /\ UNCHANGED <<owner, counter, codes, drawn, flow, flows>>

(* addPasskey.                                                             *)
WriteAdd(r) ==
    /\ Writing(r, "add") /\ owner[req[r].passkey] = 0
    /\ owner' = [owner EXCEPT ![req[r].passkey] = req[r].account]
    /\ counter' = [counter EXCEPT ![req[r].passkey] = req[r].next]
    /\ UNCHANGED <<status, holder, codes, drawn, session, flow, tokens, flows, granted>>

(* linkWallet.                                                             *)
WriteLink(r) ==
    /\ Writing(r, "link")
    /\ holder' = [holder EXCEPT ![req[r].wallet] = req[r].account]
    /\ UNCHANGED <<status, owner, counter, codes, drawn, session, flow, tokens,
                   flows, granted>>

(* replaceRecoveryCodes.                                                   *)
WriteCodes(r) ==
    /\ Writing(r, "codes") /\ drawn + CodeCount <= MaxCodes
    /\ drawn' = drawn + CodeCount
    /\ codes' = [k \in Code |->
            IF k \in drawn + 1 .. drawn + CodeCount THEN req[r].account
            ELSE IF codes[k] = req[r].account THEN 0 ELSE codes[k]]
    /\ UNCHANGED <<status, owner, counter, holder, session, flow, tokens, flows,
                   granted>>

(* redeemRecoveryCode.                                                     *)
WriteRedeem(r) ==
    /\ Writing(r, "redeem")
    /\ codes' = [codes EXCEPT ![req[r].code] = 0]
    /\ NewSession(req[r], req[r].account, "recovery", Revoked(req[r]))
    /\ flow' = [c \in Flow |-> IF flow[c].account = req[r].account THEN NoFlow
                               ELSE flow[c]]
    /\ UNCHANGED <<status, owner, counter, holder, drawn, flows>>

Write(r) ==
    \/ WriteRegister(r) \/ WriteLogin(r) \/ WriteWallet(r)
    \/ WriteAdd(r) \/ WriteLink(r) \/ WriteCodes(r) \/ WriteRedeem(r)

(* A refusal, a lost connection or a crash: the transaction rolls back.    *)
GiveUp(r) ==
    /\ req[r] # Idle /\ Release(r)
    /\ UNCHANGED <<accounts, session, flow, tokens, flows, granted>>

-----------------------------------------------------------------------------
(* What takes no account lock.                                             *)

(* logout, or the session's 24 hours are over; purgeExpired deletes the row *)
(* of one that nobody can use any more.                                    *)
EndSession(s) ==
    /\ session[s] # NoSession /\ ~RowLocked(s)
    /\ session' = [session EXCEPT ![s] = NoSession]
    /\ UNCHANGED <<accounts, flow, tokens, flows, locks, req, granted>>

(* Five minutes pass.                                                      *)
Ages(s) ==
    /\ session[s].age = "fresh"
    /\ session' = [session EXCEPT ![s].age = "old"]
    /\ UNCHANGED <<accounts, flow, tokens, flows, locks, req, granted>>

(* An operator disables an account in the database.                        *)
Disable(a) ==
    /\ status[a] = "active" /\ accountLock[a] = Nobody
    /\ status' = [status EXCEPT ![a] = "disabled"]
    /\ UNCHANGED <<owner, counter, holder, codes, drawn, session, flow, tokens,
                   flows, locks, req, granted>>

-----------------------------------------------------------------------------
Serve(r) ==
    \/ \E c \in Flow : Answer(r, c)
    \/ \E s \in Token : AskForCodes(r, s)
    \/ \E k \in Code : PresentCode(r, k)
    \/ \E p \in Passkeys : Find(r, p)
    \/ \E p \in Passkeys \cup {Nobody}, n \in Counter : Prove(r, p, n)
    \/ Lookup(r) \/ (\E a \in Account : Acquire(r, a)) \/ Check(r)
    \/ Write(r) \/ GiveUp(r)

Next ==
    \/ \E kind \in Logins \cup {"add", "link"}, s \in 0 .. tokens,
          w \in Wallets \cup {Nobody} : Issue(kind, s, w)
    \/ \E r \in Requests : Serve(r)
    \/ \E s \in Token : EndSession(s) \/ Ages(s)
    \/ \E a \in Account : Disable(a)

Spec == Init /\ [][Next]_vars

-----------------------------------------------------------------------------
(* Properties.                                                             *)

SessionType ==
    [account : 0 .. MaxAccounts, method : {"none", "passkey", "wallet", "recovery"},
     age : {"none", "fresh", "old"}]
Steps == {"none", "find", "prove", "lookup", "lock", "write"}
Kinds == {"none", "redeem"} \cup Logins \cup Settings
FlowType ==
    [kind : Kinds, session : 0 .. MaxTokens, account : 0 .. MaxAccounts,
     wallet : Wallets \cup {Nobody}]
ReqType ==
    [kind : Kinds, step : Steps,
     session : 0 .. MaxTokens, flow : 0 .. MaxFlows,
     passkey : Passkeys \cup {Nobody}, wallet : Wallets \cup {Nobody},
     code : 0 .. MaxCodes, account : 0 .. MaxAccounts, prev : 0 .. MaxAccounts,
     counter : Counter, next : Counter]

(* Types of the rows and of the requests under way.                        *)
TypeOK ==
    /\ status \in [Account -> {"none", "active", "disabled"}]
    /\ owner \in [Passkeys -> 0 .. MaxAccounts]
    /\ counter \in [Passkeys -> Counter]
    /\ holder \in [Wallets -> 0 .. MaxAccounts]
    /\ codes \in [Code -> 0 .. MaxAccounts]
    /\ session \in [Token -> SessionType] /\ flow \in [Flow -> FlowType]
    /\ tokens \in 0 .. MaxTokens /\ flows \in 0 .. MaxFlows
    /\ drawn \in 0 .. MaxCodes
    /\ accountLock \in [Account -> Requests \cup {Nobody}]
    /\ walletLock \in [Wallets -> Requests \cup {Nobody}]
    /\ req \in [Requests -> ReqType]
    /\ granted \in [Token -> [flow : 0 .. MaxFlows, code : 0 .. MaxCodes,
                              passkey : Passkeys \cup {Nobody}, counter : Counter]]

(* No account has more passkeys or wallets than its limits, though each    *)
(* request counts them long before it inserts one.                         *)
WithinLimits ==
    \A a \in Account : /\ Cardinality(PasskeysOf(a)) <= PasskeyLimit
                       /\ Cardinality(WalletsOf(a)) <= WalletLimit

(* One proof opens one session: no challenge, recovery code or assertion   *)
(* of a counting authenticator ever granted two tokens, whichever requests *)
(* answered it at the same time, and though codes and counters are looked  *)
(* up without a lock.                                                      *)
OneSessionPerProof ==
    \A s, u \in 1 .. tokens : s # u =>
        LET p == granted[s]  q == granted[u] IN
            /\ p.flow # 0 => p.flow # q.flow
            /\ p.code # 0 => p.code # q.code
            /\ p.counter # 0 => p.passkey # q.passkey \/ p.counter # q.counter

(* What a session may change of its account commits only while that        *)
(* session is still there: neither a logout nor a recovery that revoked it *)
(* is overtaken by a request that was under way.                           *)
ChangesNeedTheirSession ==
    \A r \in Requests :
        req[r].step = "write" /\ req[r].kind \in Settings =>
            AccountOf(req[r].session) = req[r].account

(* Requests never wait for each other in a circle: those that wait for the *)
(* lock on an account hold only locks on lesser ones.                      *)
WaitsFor(r) ==
    {q \in Requests :
        \/ req[r].step = "lock" /\ \E a \in Needed(r) : NextLock(r, a) /\ accountLock[a] = q
        \/ /\ req[r].step = "lookup" /\ req[r].wallet # Nobody
           /\ walletLock[req[r].wallet] = q}
NoWaitingCircle ==
    \A S \in SUBSET Requests :
        S # {} => \E r \in S : WaitsFor(r) \cap S = {}

(* A disabled account gets no session, and nothing that would open it      *)
(* later, from requests that found it active.                              *)
DisabledStaysShut ==
    [][\A a \in Account : status[a] = "disabled" =>
        /\ \A s \in Token : session'[s].account = a => session[s].account = a
        /\ PasskeysOf(a)' = PasskeysOf(a) /\ WalletsOf(a)' = WalletsOf(a)
        /\ \A k \in Code : codes'[k] = a => codes[k] = a]_vars

(* A login ends the session it was made under, also one of another         *)
(* account, and a recovery every session of its account: afterwards the    *)
(* account service knows no older token of that browser, or that account.  *)
LoginRotates ==
    [][\A r \in Requests : tokens' # tokens /\ req[r] # Idle /\ req'[r] = Idle =>
        \A s \in 1 .. tokens :
            \/ s = req[r].session
            \/ req[r].kind = "redeem" /\ session[s].account = req[r].account
            => session'[s] = NoSession]_vars

=============================================================================
