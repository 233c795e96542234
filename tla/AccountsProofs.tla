--------------------------- MODULE AccountsProofs ---------------------------
(***************************************************************************)
(* Proofs about Accounts, for any number of requests, accounts, passkeys   *)
(* and wallets.                                                            *)
(*                                                                         *)
(* The inductive invariant says what a request may rely on at each step:   *)
(* Shaped, of its own fields; Locked, of the locks it holds; Ready, of     *)
(* what it read under those locks and nobody else can have changed since.  *)
(* Spent says which challenges, codes and counters are used up.            *)
(***************************************************************************)
EXTENDS Accounts, FiniteSetTheorems, WellFoundedInduction, TLAPS

USE DEF Account, Token, Flow, Code, Counter

Read == {"lock", "write"}

(* The fields of a request as far as it got: t tokens and d codes are      *)
(* drawn, and a is the account of its session.                             *)
Shape(q, t, d, a) ==
    /\ q.step # "none" => q.kind # "none"
    /\ q.kind \in {"wallet", "link"} <=> q.wallet # Nobody
    /\ q.kind \in Settings => q.session # 0
    /\ q.kind = "redeem" => q.code \in 1 .. d /\ q.session = 0 /\ q.flow = 0
    /\ q.kind # "redeem" => q.code = 0
    /\ q.kind = "login" => q.step = "find" \/ q.passkey \in Passkeys
    /\ q.kind \in {"register", "add"} => q.step = "prove" \/ q.passkey \in Passkeys
    /\ q.step = "find" => q.kind = "login"
    /\ q.step \in {"find", "prove"} => q.next = 0
    /\ q.kind = "login" /\ q.step \in {"lookup"} \cup Read => Grows(q.counter, q.next)
    /\ q.kind \notin {"login", "register", "add"} => q.next = 0
    /\ q.session <= t
    /\ q.step \in Read =>
          /\ q.kind \in Settings \cup {"redeem", "login"} => q.account # 0
          /\ q.kind = "register" => q.account = 0
          /\ q.kind \notin Logins => q.prev = 0
          /\ q.kind \in Logins => a \in {0, q.prev}

FlowShape(f, t) ==
    /\ f.session <= t
    /\ f # NoFlow => /\ f.kind \in Logins \cup {"add", "link"}
                     /\ f.kind \in {"wallet", "link"} <=> f.wallet # Nobody
                     /\ f.kind \in Settings => f.session # 0

(* What has not been drawn yet is not in use.                              *)
ShapedRows ==
    /\ \A c \in Flow : FlowShape(flow[c], tokens)
    /\ \A c \in Flow : c > flows => flow[c] = NoFlow
    /\ \A s \in Token : s > tokens => session[s] = NoSession
    /\ \A k \in Code : k > drawn => codes[k] = 0

Subjects(q) == {q.account, q.prev} \ {0}

(* Locks are held by the requests that need them, and are taken in order.  *)
Holders ==
    /\ \A r \in Requests, a \in Account :
          accountLock[a] = r => req[r].step \in Read /\ a \in Subjects(req[r])
    /\ \A r \in Requests, w \in Wallets :
          walletLock[w] = r => req[r].step \in Read /\ req[r].wallet = w
    /\ \A r \in Requests : req[r].step \in Read /\ req[r].wallet # Nobody =>
          walletLock[req[r].wallet] = r
    /\ \A r \in Requests : req[r].step = "write" =>
          \A a \in Subjects(req[r]) : accountLock[a] = r
InOrder ==
    \A r \in Requests, a, b \in Account :
        accountLock[a] = r /\ b \in Needed(r) => a < b
Locked == Holders /\ InOrder

(* What a request has read under its locks is still so when it writes.     *)
ReadyFor(r) ==
    /\ req[r].step \in Read /\ req[r].kind \in Settings =>
          AccountOf(req[r].session) \in {0, req[r].account}
    /\ req[r].step = "write" =>
          /\ req[r].account # 0 => Active(req[r].account)
          /\ req[r].kind = "login" => /\ owner[req[r].passkey] = req[r].account
                                     /\ counter[req[r].passkey] = req[r].counter
          /\ req[r].kind = "wallet" => holder[req[r].wallet] = req[r].account
          /\ req[r].kind = "link"   => /\ holder[req[r].wallet] = 0
                                      /\ Cardinality(WalletsOf(req[r].account)) < WalletLimit
          /\ req[r].kind = "add"    => Cardinality(PasskeysOf(req[r].account)) < PasskeyLimit
          /\ req[r].kind = "redeem" => codes[req[r].code] = req[r].account
          /\ req[r].kind \in Settings => AccountOf(req[r].session) = req[r].account
Ready == \A r \in Requests : ReadyFor(r)

(* No row of account a changes, but for its sessions.                      *)
Steady(a) ==
    /\ status'[a] = status[a]
    /\ \A p \in Passkeys : /\ owner'[p] = a <=> owner[p] = a
                           /\ owner[p] = a => counter'[p] = counter[p]
    /\ \A w \in Wallets : holder'[w] = a <=> holder[w] = a
    /\ \A k \in Code : codes'[k] = a <=> codes[k] = a

Shaped ==
    /\ \A r \in Requests : Shape(req[r], tokens, drawn, AccountOf(req[r].session))
    /\ ShapedRows

-----------------------------------------------------------------------------
(* Types.                                                                  *)

LEMMA Bounds ==
    /\ MaxAccounts \in Nat /\ MaxTokens \in Nat /\ MaxFlows \in Nat
    /\ MaxCodes \in Nat /\ MaxCounter \in Nat /\ CodeCount \in Nat
    /\ PasskeyLimit \in Nat \ {0} /\ WalletLimit \in Nat \ {0} /\ Nobody \notin Requests
BY AccountsAssumption DEF AccountsAssumption

LEMMA InitialDomains ==
    /\ DOMAIN InitialSession \subseteq Token /\ DOMAIN InitialCode \subseteq Code
    /\ Cardinality(DOMAIN InitialSession) \in 0 .. MaxTokens
    /\ Cardinality(DOMAIN InitialCode) \in 0 .. MaxCodes
    /\ \A s \in Token : s > Cardinality(DOMAIN InitialSession) => s \notin DOMAIN InitialSession
    /\ \A k \in Code : k > Cardinality(DOMAIN InitialCode) => k \notin DOMAIN InitialCode
    /\ \A s \in DOMAIN InitialSession : InitialSession[s] \in Registered
    /\ \A k \in DOMAIN InitialCode : InitialCode[k] \in Registered
<1>1. PICK n \in 0 .. MaxTokens : InitialSession \in [1 .. n -> Registered]
      BY AccountsAssumption DEF AccountsAssumption
<1>2. PICK m \in 0 .. MaxCodes : InitialCode \in [1 .. m -> Registered]
      BY AccountsAssumption DEF AccountsAssumption
<1>3. n \in Nat /\ m \in Nat
      BY AccountsAssumption DEF AccountsAssumption
<1>4. Cardinality(1 .. n) = n
  <2>1. Cardinality(1 .. n) = IF 1 > n THEN 0 ELSE n - 1 + 1 BY <1>3, FS_Interval
  <2> QED BY <2>1, <1>3
<1>5. Cardinality(1 .. m) = m
  <2>1. Cardinality(1 .. m) = IF 1 > m THEN 0 ELSE m - 1 + 1 BY <1>3, FS_Interval
  <2> QED BY <2>1, <1>3
<1> QED BY <1>1, <1>2, <1>3, <1>4, <1>5, AccountsAssumption DEF AccountsAssumption

LEMMA ConstantsTyped ==
    /\ Idle \in ReqType /\ NoFlow \in FlowType /\ NoSession \in SessionType
    /\ 0 \in 0 .. MaxAccounts /\ 0 \in 0 .. MaxTokens /\ 0 \in Counter
    /\ \A s \in Token : s \in 0 .. MaxTokens
    /\ \A c \in Flow : c \in 0 .. MaxFlows
    /\ \A k \in Code : k \in 0 .. MaxCodes
    /\ \A a \in Account : a \in 0 .. MaxAccounts
    /\ Nobody \in Passkeys \cup {Nobody} /\ Passkeys \subseteq Passkeys \cup {Nobody}
BY Bounds DEF Idle, ReqType, NoFlow, FlowType, NoSession, SessionType, Kinds, Steps,
              Logins, Settings

LEMMA FieldsTyped ==
    ASSUME NEW q \in ReqType
    PROVE  /\ q.kind \in Kinds /\ q.step \in Steps
           /\ q.session \in 0 .. MaxTokens /\ q.flow \in 0 .. MaxFlows
           /\ q.passkey \in Passkeys \cup {Nobody} /\ q.wallet \in Wallets \cup {Nobody}
           /\ q.code \in 0 .. MaxCodes /\ q.account \in 0 .. MaxAccounts
           /\ q.prev \in 0 .. MaxAccounts /\ q.counter \in Counter /\ q.next \in Counter
BY Zenon DEF ReqType

LEMMA AccountOfTyped ==
    ASSUME TypeOK, NEW s \in 0 .. MaxTokens
    PROVE  AccountOf(s) \in 0 .. MaxAccounts
<1>1. CASE s = 0 BY <1>1, Bounds DEF AccountOf
<1>2. CASE s # 0
  <2>1. s \in Token BY <1>2, Bounds
  <2>2. session[s] \in SessionType BY <2>1 DEF TypeOK
  <2> QED BY <1>2, <2>2 DEF AccountOf, SessionType
<1> QED BY <1>1, <1>2

LEMMA TypeInit == Init => TypeOK
<1> SUFFICES ASSUME Init PROVE TypeOK OBVIOUS
<1> USE InitialDomains, ConstantsTyped, Bounds
<1>1. Registered \subseteq Account BY DEF Registered
<1>2. session \in [Token -> SessionType]
  <2>1. \A a \in Account : [account |-> a, method |-> "passkey", age |-> "fresh"] \in SessionType
        BY DEF SessionType
  <2> QED BY <1>1, <2>1 DEF Init
<1>3. codes \in [Code -> 0 .. MaxAccounts] BY <1>1 DEF Init
<1>4. req \in [Requests -> ReqType] /\ flow \in [Flow -> FlowType] BY DEF Init
<1>5. granted \in [Token -> [flow : 0 .. MaxFlows, code : 0 .. MaxCodes,
                             passkey : Passkeys \cup {Nobody}, counter : Counter]]
      BY DEF Init, NoProof
<1>6. owner \in [Passkeys -> 0 .. MaxAccounts]
      BY AccountsAssumption DEF Init, AccountsAssumption
<1>7. /\ status \in [Account -> {"none", "active", "disabled"}]
      /\ tokens \in 0 .. MaxTokens /\ flows \in 0 .. MaxFlows /\ drawn \in 0 .. MaxCodes
      BY DEF Init
<1>8. /\ counter \in [Passkeys -> Counter] /\ holder \in [Wallets -> 0 .. MaxAccounts]
      /\ accountLock \in [Account -> Requests \cup {Nobody}]
      /\ walletLock \in [Wallets -> Requests \cup {Nobody}]
      BY DEF Init
<1> QED BY <1>2, <1>3, <1>4, <1>5, <1>6, <1>7, <1>8 DEF TypeOK

LEMMA ReleaseTyped ==
    ASSUME TypeOK, NEW r \in Requests, Release(r)
    PROVE  /\ accountLock' \in [Account -> Requests \cup {Nobody}]
           /\ walletLock' \in [Wallets -> Requests \cup {Nobody}]
           /\ req' \in [Requests -> ReqType]
BY ConstantsTyped DEF TypeOK, Release

LEMMA SessionTyped ==
    ASSUME TypeOK, NEW r \in Requests, NEW a \in 0 .. MaxAccounts, NEW ended,
           NEW method \in {"passkey", "wallet", "recovery"},
           NewSession(req[r], a, method, ended)
    PROVE  /\ session' \in [Token -> SessionType] /\ tokens' \in 0 .. MaxTokens
           /\ granted' \in [Token -> [flow : 0 .. MaxFlows, code : 0 .. MaxCodes,
                                      passkey : Passkeys \cup {Nobody}, counter : Counter]]
<1>1. req[r] \in ReqType BY DEF TypeOK
<1>2. tokens + 1 \in Token BY Bounds DEF TypeOK, NewSession
<1>3. session' \in [Token -> SessionType]
  <2> DEFINE new == [account |-> a, method |-> method, age |-> "fresh"]
  <2>1. new \in SessionType BY DEF SessionType
  <2>2. session' = [s \in Token |-> IF s = tokens + 1 THEN new
                                   ELSE IF s \in ended THEN NoSession ELSE session[s]]
        BY DEF NewSession
  <2> HIDE DEF new
  <2> QED BY <2>1, <2>2, ConstantsTyped DEF TypeOK
<1>4. [flow |-> req[r].flow, code |-> req[r].code,
       passkey |-> req[r].passkey, counter |-> req[r].next]
          \in [flow : 0 .. MaxFlows, code : 0 .. MaxCodes,
               passkey : Passkeys \cup {Nobody}, counter : Counter]
      BY <1>1 DEF ReqType
<1>5. granted' \in [Token -> [flow : 0 .. MaxFlows, code : 0 .. MaxCodes,
                              passkey : Passkeys \cup {Nobody}, counter : Counter]]
      BY <1>4 DEF TypeOK, NewSession
<1> QED BY <1>2, <1>3, <1>5, Bounds DEF TypeOK, NewSession

LEMMA TypeStep == TypeOK /\ Shaped /\ [Next]_vars => TypeOK'
<1> SUFFICES ASSUME TypeOK, Shaped, [Next]_vars PROVE TypeOK' OBVIOUS
<1> USE Bounds
<1>1. ASSUME NEW kind \in Logins \cup {"add", "link"}, NEW s \in 0 .. tokens,
             NEW w \in Wallets \cup {Nobody}, Issue(kind, s, w)
      PROVE  TypeOK'
  <2> DEFINE a == IF kind \in Settings THEN AccountOf(s) ELSE 0
             f == [kind |-> kind, session |-> s, wallet |-> w, account |-> a]
  <2>1. kind \in Kinds /\ s \in 0 .. MaxTokens
        BY DEF TypeOK, Kinds, Logins, Settings
  <2>2. a \in 0 .. MaxAccounts
        BY <2>1 DEF TypeOK, AccountOf, SessionType
  <2> HIDE DEF a
  <2>3. f \in FlowType BY <2>1, <2>2, Zenon DEF FlowType
  <2>4. flow' = [flow EXCEPT ![flows + 1] = f] /\ flows' = flows + 1 /\ flows < MaxFlows
        BY <1>1 DEF Issue, a
  <2> HIDE DEF f
  <2>5. flow' \in [Flow -> FlowType] /\ flows' \in 0 .. MaxFlows
        BY <2>3, <2>4 DEF TypeOK
  <2> QED BY <2>5, <1>1 DEF Issue, TypeOK, accounts, locks
<1>2. ASSUME NEW r \in Requests, NEW c \in Flow, Answer(r, c) PROVE TypeOK'
  <2> DEFINE step == IF flow[c].kind = "login" THEN "find" ELSE "prove"
             q == [Idle EXCEPT !.kind = flow[c].kind, !.flow = c, !.step = step,
                               !.session = flow[c].session, !.wallet = flow[c].wallet]
  <2>1. flow[c] \in FlowType BY DEF TypeOK
  <2>2. /\ flow[c].kind \in Kinds /\ flow[c].session \in 0 .. MaxTokens
        /\ flow[c].wallet \in Wallets \cup {Nobody}
        BY <2>1 DEF FlowType
  <2>3. step \in Steps BY DEF Steps
  <2> HIDE DEF step
  <2>4. q \in ReqType BY <2>2, <2>3, ConstantsTyped, Zenon DEF ReqType
  <2>5. req' = [req EXCEPT ![r] = q] BY <1>2 DEF Answer, step
  <2> HIDE DEF q
  <2>6. req' \in [Requests -> ReqType] BY <2>4, <2>5 DEF TypeOK
  <2>7. flow' \in [Flow -> FlowType] BY <1>2, ConstantsTyped DEF Answer, TypeOK
  <2> QED BY <2>6, <2>7, <1>2 DEF Answer, TypeOK, accounts, locks
<1>3. ASSUME NEW r \in Requests, NEW s \in Token, AskForCodes(r, s) PROVE TypeOK'
  <2> DEFINE q == [Idle EXCEPT !.kind = "codes", !.step = "lookup", !.session = s]
  <2>1. "codes" \in Kinds /\ "lookup" \in Steps BY DEF Kinds, Settings, Steps
  <2>2. q \in ReqType BY <2>1, ConstantsTyped, Zenon DEF ReqType
  <2>3. req' = [req EXCEPT ![r] = q] BY <1>3 DEF AskForCodes
  <2> HIDE DEF q
  <2> QED BY <2>2, <2>3, <1>3 DEF AskForCodes, TypeOK, accounts, locks
<1>4. ASSUME NEW r \in Requests, NEW k \in Code, PresentCode(r, k) PROVE TypeOK'
  <2> DEFINE q == [Idle EXCEPT !.kind = "redeem", !.step = "lookup", !.code = k]
  <2>1. "redeem" \in Kinds /\ "lookup" \in Steps BY DEF Kinds, Steps
  <2>2. q \in ReqType BY <2>1, ConstantsTyped, Zenon DEF ReqType
  <2>3. req' = [req EXCEPT ![r] = q] BY <1>4 DEF PresentCode
  <2> HIDE DEF q
  <2> QED BY <2>2, <2>3, <1>4 DEF PresentCode, TypeOK, accounts, locks
<1>5. ASSUME NEW r \in Requests, NEW p \in Passkeys, Find(r, p) PROVE TypeOK'
  <2> DEFINE q == [req[r] EXCEPT !.step = "prove", !.passkey = p,
                                 !.account = owner[p], !.counter = counter[p]]
  <2>1. /\ req[r] \in ReqType /\ owner[p] \in 0 .. MaxAccounts /\ counter[p] \in Counter
        /\ "prove" \in Steps
        BY DEF TypeOK, Steps
  <2>2. q \in ReqType BY <2>1, ConstantsTyped, Zenon DEF ReqType
  <2>3. req' = [req EXCEPT ![r] = q] BY <1>5 DEF Find
  <2> HIDE DEF q
  <2> QED BY <2>2, <2>3, <1>5 DEF Find, TypeOK, accounts, locks
<1>6. ASSUME NEW r \in Requests, NEW p \in Passkeys \cup {Nobody}, NEW n \in Counter,
             Prove(r, p, n)
      PROVE  TypeOK'
  <2> DEFINE s == IF Live(req[r].session) THEN req[r].session ELSE 0
             q == [req[r] EXCEPT !.step = "lookup", !.passkey = p, !.next = n, !.session = s]
  <2>1. req[r] \in ReqType /\ "lookup" \in Steps BY DEF TypeOK, Steps
  <2>2. s \in 0 .. MaxTokens BY <2>1, FieldsTyped, ConstantsTyped
  <2> HIDE DEF s
  <2>3. q \in ReqType BY <2>1, <2>2, ConstantsTyped, Zenon DEF ReqType
  <2>4. req' = [req EXCEPT ![r] = q]
    <3>1. req' = [req EXCEPT ![r] = [@ EXCEPT !.step = "lookup", !.passkey = p, !.next = n,
                                              !.session = IF Live(req[r].session) THEN req[r].session ELSE 0]]
          BY <1>6 DEF Prove
    <3>2. CASE Live(req[r].session) BY <3>1, <3>2 DEF s
    <3>3. CASE ~Live(req[r].session) BY <3>1, <3>3 DEF s
    <3> QED BY <3>2, <3>3
  <2> HIDE DEF q
  <2> QED BY <2>3, <2>4, <1>6 DEF Prove, TypeOK, accounts, locks
<1>7. ASSUME NEW r \in Requests, Lookup(r) PROVE TypeOK'
  <2> DEFINE b == IF req[r].kind \in Logins THEN AccountOf(req[r].session) ELSE 0
             q == [req[r] EXCEPT !.step = "lock", !.account = Target(req[r]), !.prev = b]
  <2>1. req[r] \in ReqType /\ req[r].step = "lookup"
        /\ Shape(req[r], tokens, drawn, AccountOf(req[r].session))
        BY <1>7 DEF TypeOK, Lookup, Shaped
  <2>2. AccountOf(req[r].session) \in 0 .. MaxAccounts
        BY <2>1, FieldsTyped, AccountOfTyped
  <2>3. Target(req[r]) \in 0 .. MaxAccounts
    <3>1. CASE req[r].kind \in Settings BY <3>1, <2>2 DEF Target, Settings
    <3>2. CASE req[r].kind = "login"
          BY <3>2, <2>1 DEF Target, Settings, Shape, TypeOK
    <3>3. CASE req[r].kind = "wallet"
          BY <3>3, <2>1, FieldsTyped DEF Target, Settings, Shape, TypeOK
    <3>4. CASE req[r].kind = "redeem"
          BY <3>4, <2>1 DEF Target, Settings, Shape, TypeOK
    <3>5. CASE req[r].kind \notin Settings \cup {"login", "wallet", "redeem"}
          BY <3>5, ConstantsTyped DEF Target
    <3> QED BY <3>1, <3>2, <3>3, <3>4, <3>5
  <2>4. b \in 0 .. MaxAccounts /\ "lock" \in Steps BY <2>2, ConstantsTyped DEF Steps
  <2> HIDE DEF b
  <2>5. q \in ReqType BY <2>1, <2>3, <2>4, ConstantsTyped, Zenon DEF ReqType
  <2>6. req' = [req EXCEPT ![r] = q] BY <1>7 DEF Lookup, b
  <2> HIDE DEF q
  <2>7. walletLock' \in [Wallets -> Requests \cup {Nobody}]
        BY <1>7, <2>1, FieldsTyped DEF Lookup, TypeOK
  <2> QED BY <2>5, <2>6, <2>7, <1>7 DEF Lookup, TypeOK, accounts
<1>8. ASSUME NEW r \in Requests, NEW a \in Account, Acquire(r, a) PROVE TypeOK'
      BY <1>8 DEF Acquire, TypeOK, accounts
<1>9. ASSUME NEW r \in Requests, Check(r) PROVE TypeOK'
  <2> DEFINE q == [req[r] EXCEPT !.step = "write"]
  <2>1. req[r] \in ReqType /\ "write" \in Steps BY DEF TypeOK, Steps
  <2>2. q \in ReqType BY <2>1, ConstantsTyped, Zenon DEF ReqType
  <2>3. req' = [req EXCEPT ![r] = q] BY <1>9 DEF Check
  <2> HIDE DEF q
  <2> QED BY <2>2, <2>3, <1>9 DEF Check, TypeOK, accounts, locks
<1>10. ASSUME NEW r \in Requests, GiveUp(r) PROVE TypeOK'
       BY <1>10, ReleaseTyped DEF GiveUp, TypeOK, accounts
<1>11. ASSUME NEW r \in Requests, Write(r) PROVE TypeOK'
  <2>0. /\ req[r].passkey \in Passkeys \cup {Nobody} /\ req[r].account \in 0 .. MaxAccounts
       /\ req[r].next \in Counter
       BY FieldsTyped DEF TypeOK
  <2>. /\ Release(r) /\ accountLock' \in [Account -> Requests \cup {Nobody}]
       /\ walletLock' \in [Wallets -> Requests \cup {Nobody}]
       /\ req' \in [Requests -> ReqType]
       BY <1>11, ReleaseTyped DEF Write, Writing, WriteRegister, WriteLogin, WriteWallet, WriteAdd,
          WriteLink, WriteCodes, WriteRedeem
  <2>1. CASE WriteRegister(r)
    <3>1. PICK a \in Account : /\ NewAccount(a)
              /\ owner' = [owner EXCEPT ![req[r].passkey] = a]
              /\ NewSession(req[r], a, "passkey", Ended(req[r]))
          BY <2>1 DEF WriteRegister
    <3>2. status' \in [Account -> {"none", "active", "disabled"}]
          BY <3>1 DEF NewAccount, TypeOK
    <3> QED BY <2>0, <2>1, <3>1, <3>2, ConstantsTyped, SessionTyped DEF WriteRegister, TypeOK
  <2>2. CASE WriteLogin(r)
        BY <2>0, <2>2, SessionTyped DEF WriteLogin, TypeOK
  <2>3. CASE WriteWallet(r)
    <3>1. CASE \E a \in Account :
                  /\ NewAccount(a) /\ holder' = [holder EXCEPT ![req[r].wallet] = a]
                  /\ NewSession(req[r], a, "wallet", Ended(req[r]))
      <4>1. PICK a \in Account :
                  /\ NewAccount(a) /\ holder' = [holder EXCEPT ![req[r].wallet] = a]
                  /\ NewSession(req[r], a, "wallet", Ended(req[r]))
            BY <3>1
      <4>2. status' \in [Account -> {"none", "active", "disabled"}]
            BY <4>1 DEF NewAccount, TypeOK
      <4> QED BY <2>0, <2>3, <4>1, <4>2, ConstantsTyped, SessionTyped DEF WriteWallet, TypeOK
    <3>2. CASE /\ NewSession(req[r], req[r].account, "wallet", Ended(req[r]))
               /\ UNCHANGED <<status, holder>>
          BY <2>0, <2>3, <3>2, SessionTyped DEF WriteWallet, TypeOK
    <3> QED BY <2>3, <3>1, <3>2 DEF WriteWallet
  <2>4. CASE WriteAdd(r)
        BY <2>0, <2>4 DEF WriteAdd, TypeOK
  <2>5. CASE WriteLink(r)
        BY <2>0, <2>5 DEF WriteLink, TypeOK
  <2>6. CASE WriteCodes(r)
    <3>1. codes' \in [Code -> 0 .. MaxAccounts] /\ drawn' \in 0 .. MaxCodes
          BY <2>0, <2>6 DEF WriteCodes, TypeOK
    <3> QED BY <2>6, <3>1 DEF WriteCodes, TypeOK
  <2>7. CASE WriteRedeem(r)
    <3>1. flow' \in [Flow -> FlowType]
          BY <2>7, ConstantsTyped DEF WriteRedeem, TypeOK
    <3>2. codes' \in [Code -> 0 .. MaxAccounts]
          BY <2>7, ConstantsTyped DEF WriteRedeem, TypeOK
    <3>3. NewSession(req[r], req[r].account, "recovery", Revoked(req[r]))
          BY <2>7 DEF WriteRedeem
    <3>4. UNCHANGED <<status, owner, counter, holder, drawn, flows>>
          BY <2>7 DEF WriteRedeem
    <3> QED BY <2>0, <3>1, <3>2, <3>3, <3>4, SessionTyped DEF TypeOK
  <2> QED BY <1>11, <2>1, <2>2, <2>3, <2>4, <2>5, <2>6, <2>7 DEF Write
<1>12. ASSUME NEW s \in Token, EndSession(s) PROVE TypeOK'
       BY <1>12, ConstantsTyped DEF EndSession, TypeOK, accounts, locks
<1>13. ASSUME NEW s \in Token, Ages(s) PROVE TypeOK'
       BY <1>13 DEF Ages, TypeOK, SessionType, accounts, locks
<1>14. ASSUME NEW a \in Account, Disable(a) PROVE TypeOK'
       BY <1>14 DEF Disable, TypeOK, locks
<1>15. CASE UNCHANGED vars
       BY <1>15 DEF vars, accounts, locks, TypeOK
<1> QED BY <1>1, <1>2, <1>3, <1>4, <1>5, <1>6, <1>7, <1>8, <1>9, <1>10, <1>11, <1>12,
           <1>13, <1>14, <1>15 DEF Next, Serve

-----------------------------------------------------------------------------
(* The shape of requests.                                                  *)

LEMMA ShapeKept ==
    ASSUME NEW q \in ReqType, NEW t, NEW d, NEW a, NEW t2 \in Nat, NEW d2 \in Nat, NEW a2,
           t \in 0 .. t2, d \in 0 .. d2, a2 \in {0, a}, Shape(q, t, d, a)
    PROVE  Shape(q, t2, d2, a2)
<1>1. q.session \in 0 .. MaxTokens /\ q.code \in 0 .. MaxCodes BY FieldsTyped
<1>2. q.session <= t2 BY <1>1, Bounds DEF Shape
<1>3. q.kind = "redeem" => q.code \in 1 .. d2 BY <1>1, Bounds DEF Shape
<1> QED BY <1>2, <1>3 DEF Shape

LEMMA IdleShape ==
    \A t \in Nat : \A d : Shape(Idle, t, d, 0)
BY DEF Shape, Idle, Settings, Read, Logins

(* Only counters grow, and a session keeps its account until it ends.      *)
Grown ==
    /\ tokens' \in tokens .. MaxTokens /\ flows' \in flows .. MaxFlows
    /\ drawn' \in drawn .. MaxCodes
    /\ \A s \in 0 .. tokens : AccountOf(s)' \in {0, AccountOf(s)}

LEMMA GrownStep == TypeOK /\ [Next]_vars => Grown
<1> SUFFICES ASSUME TypeOK, [Next]_vars PROVE Grown OBVIOUS
<1> USE Bounds
<1>1. tokens \in 0 .. MaxTokens /\ flows \in 0 .. MaxFlows /\ drawn \in 0 .. MaxCodes
      BY DEF TypeOK
<1>2. CASE UNCHANGED <<session, tokens, drawn>> /\ flows' \in flows .. MaxFlows
      BY <1>1, <1>2 DEF Grown, AccountOf
<1>3. ASSUME NEW r \in Requests, NEW a, NEW method, NEW ended,
             NewSession(req[r], a, method, ended), UNCHANGED <<flows, drawn>>
      PROVE  Grown
  <2>1. tokens' = tokens + 1 /\ tokens' \in tokens .. MaxTokens
        BY <1>1, <1>3 DEF NewSession
  <2>2. ASSUME NEW s \in 0 .. tokens PROVE AccountOf(s)' \in {0, AccountOf(s)}
    <3>1. CASE s = 0 BY <3>1 DEF AccountOf
    <3>2. CASE s # 0
      <4>1. s \in Token /\ s # tokens + 1 BY <1>1, <3>2
      <4> QED BY <3>2, <4>1, <1>3 DEF NewSession, AccountOf, NoSession
    <3> QED BY <3>1, <3>2
  <2> QED BY <1>1, <1>3, <2>1, <2>2 DEF Grown
<1>4. ASSUME NEW r \in Requests, Write(r) PROVE Grown
  <2>1. CASE WriteRegister(r) BY <2>1, <1>3 DEF WriteRegister
  <2>2. CASE WriteLogin(r) BY <2>2, <1>3 DEF WriteLogin
  <2>3. CASE WriteWallet(r) BY <2>3, <1>3 DEF WriteWallet
  <2>4. CASE WriteRedeem(r) BY <2>4, <1>3 DEF WriteRedeem
  <2>5. CASE WriteAdd(r) \/ WriteLink(r) BY <2>5, <1>1, <1>2 DEF WriteAdd, WriteLink
  <2>6. CASE WriteCodes(r)
    <3>1. drawn' \in drawn .. MaxCodes BY <1>1, <2>6 DEF WriteCodes
    <3> QED BY <2>6, <3>1, <1>1 DEF WriteCodes, Grown, AccountOf
  <2> QED BY <1>4, <2>1, <2>2, <2>3, <2>4, <2>5, <2>6 DEF Write
<1>5. ASSUME NEW s \in Token, EndSession(s) \/ Ages(s) PROVE Grown
  <2>1. \A u \in Token : session'[u].account \in {0, session[u].account}
    <3>1. CASE EndSession(s) BY <3>1 DEF EndSession, NoSession, TypeOK
    <3>2. CASE Ages(s) BY <3>2 DEF Ages, TypeOK, SessionType
    <3> QED BY <1>5, <3>1, <3>2
  <2>2. UNCHANGED <<tokens, flows, drawn>> BY <1>5 DEF EndSession, Ages, accounts
  <2> QED BY <1>1, <2>1, <2>2 DEF Grown, AccountOf
<1>6. ASSUME NEW r \in Requests, Serve(r) PROVE Grown
  <2>1. ASSUME NEW c \in Flow, Answer(r, c) PROVE Grown
        BY <1>1, <1>2, <2>1 DEF Answer, accounts
  <2>2. ASSUME NEW s \in Token, AskForCodes(r, s) PROVE Grown
        BY <1>1, <1>2, <2>2 DEF AskForCodes, accounts
  <2>3. ASSUME NEW k \in Code, PresentCode(r, k) PROVE Grown
        BY <1>1, <1>2, <2>3 DEF PresentCode, accounts
  <2>4. ASSUME NEW p, Find(r, p) PROVE Grown
        BY <1>1, <1>2, <2>4 DEF Find, accounts
  <2>5. ASSUME NEW p, NEW n, Prove(r, p, n) PROVE Grown
        BY <1>1, <1>2, <2>5 DEF Prove, accounts
  <2>6. CASE Lookup(r) BY <1>1, <1>2, <2>6 DEF Lookup, accounts
  <2>7. ASSUME NEW a \in Account, Acquire(r, a) PROVE Grown
        BY <1>1, <1>2, <2>7 DEF Acquire, accounts
  <2>8. CASE Check(r) \/ GiveUp(r) BY <1>1, <1>2, <2>8 DEF Check, GiveUp, accounts
  <2> QED BY <1>4, <1>6, <2>1, <2>2, <2>3, <2>4, <2>5, <2>6, <2>7, <2>8 DEF Serve
<1>7. ASSUME NEW kind, NEW s, NEW w, Issue(kind, s, w) PROVE Grown
      BY <1>1, <1>2, <1>7 DEF Issue, accounts
<1>8. ASSUME NEW a \in Account, Disable(a) PROVE Grown
      BY <1>1, <1>2, <1>8 DEF Disable
<1>9. CASE UNCHANGED vars BY <1>1, <1>2, <1>9 DEF vars, accounts
<1> QED BY <1>5, <1>6, <1>7, <1>8, <1>9 DEF Next

LEMMA OthersShaped ==
    ASSUME TypeOK, Shaped, Grown, NEW r \in Requests,
           \A x \in Requests \ {r} : req'[x] = req[x],
           Shape(req'[r], tokens', drawn', AccountOf(req[r].session)')
    PROVE  \A x \in Requests : Shape(req[x], tokens, drawn, AccountOf(req[x].session))'
<1> SUFFICES ASSUME NEW x \in Requests, x # r
             PROVE  Shape(req'[x], tokens', drawn', AccountOf(req[x].session)')
    OBVIOUS
<1>1. req[x] \in ReqType /\ Shape(req[x], tokens, drawn, AccountOf(req[x].session))
      BY DEF TypeOK, Shaped
<1>2. /\ tokens' \in Nat /\ drawn' \in Nat /\ tokens \in 0 .. tokens' /\ drawn \in 0 .. drawn'
      /\ tokens \in Nat
      BY Bounds DEF Grown, TypeOK
<1>3. req[x].session \in 0 .. tokens
      BY <1>1, <1>2, FieldsTyped DEF Shape
<1>4. AccountOf(req[x].session)' \in {0, AccountOf(req[x].session)}
      BY <1>3 DEF Grown, AccountOf
<1>5. Shape(req[x], tokens', drawn', AccountOf(req[x].session)')
      BY <1>1, <1>2, <1>4, ShapeKept
<1> QED BY <1>5

(* A request that goes on as it is keeps its shape.                        *)
LEMMA SameShaped ==
    ASSUME TypeOK, Shaped, Grown, UNCHANGED req
    PROVE  \A x \in Requests : Shape(req[x], tokens, drawn, AccountOf(req[x].session))'
<1> SUFFICES ASSUME NEW x \in Requests
             PROVE  Shape(req'[x], tokens', drawn', AccountOf(req[x].session)')
    OBVIOUS
<1>1. req[x] \in ReqType /\ Shape(req[x], tokens, drawn, AccountOf(req[x].session))
      BY DEF TypeOK, Shaped
<1>2. /\ tokens' \in Nat /\ drawn' \in Nat /\ tokens \in 0 .. tokens' /\ drawn \in 0 .. drawn'
      /\ tokens \in Nat
      BY Bounds DEF Grown, TypeOK
<1>3. req[x].session \in 0 .. tokens
      BY <1>1, <1>2, FieldsTyped DEF Shape
<1>4. AccountOf(req[x].session)' \in {0, AccountOf(req[x].session)}
      BY <1>3 DEF Grown, AccountOf
<1>5. Shape(req[x], tokens', drawn', AccountOf(req[x].session)')
      BY <1>1, <1>2, <1>4, ShapeKept
<1> QED BY <1>5

LEMMA ReleasedShaped ==
    ASSUME TypeOK, Shaped, Grown, NEW r \in Requests, Release(r)
    PROVE  \A x \in Requests : Shape(req[x], tokens, drawn, AccountOf(req[x].session))'
<1>1. req'[r] = Idle /\ \A x \in Requests \ {r} : req'[x] = req[x]
      BY DEF TypeOK, Release
<1>2. AccountOf(req[r].session)' = 0 BY <1>1 DEF Idle, AccountOf
<1>3. tokens' \in Nat BY Bounds DEF Grown, TypeOK
<1>4. Shape(req'[r], tokens', drawn', AccountOf(req[r].session)')
      BY <1>1, <1>2, <1>3, IdleShape
<1> QED BY <1>1, <1>4, OthersShaped

LEMMA ShapeInit == Init => Shaped
<1> SUFFICES ASSUME Init PROVE Shaped OBVIOUS
<1>1. tokens \in Nat /\ drawn \in Nat BY TypeInit, Bounds DEF TypeOK
<1>2. \A r \in Requests : req[r] = Idle /\ AccountOf(req[r].session) = 0
      BY DEF Init, Idle, AccountOf
<1>3. \A r \in Requests : Shape(req[r], tokens, drawn, AccountOf(req[r].session))
      BY <1>1, <1>2, IdleShape
<1>4. ShapedRows
  <2>1. /\ \A s \in Token : s > tokens => session[s] = NoSession
        /\ \A k \in Code : k > drawn => codes[k] = 0
        BY InitialDomains DEF Init
  <2>2. \A c \in Flow : flow[c] = NoFlow /\ FlowShape(flow[c], tokens)
        BY <1>1 DEF Init, FlowShape, NoFlow
  <2> QED BY <2>1, <2>2 DEF ShapedRows
<1> QED BY <1>3, <1>4 DEF Shaped


(* The steps by which a request goes on.                                   *)
LEMMA ShapeServe ==
    ASSUME TypeOK, Shaped, Grown, NEW r \in Requests
    PROVE  \/ \E c \in Flow : Answer(r, c)
           \/ \E s \in Token : AskForCodes(r, s)
           \/ \E k \in Code : PresentCode(r, k)
           \/ \E p \in Passkeys : Find(r, p)
           \/ \E p \in Passkeys \cup {Nobody}, n \in Counter : Prove(r, p, n)
           \/ Lookup(r) \/ Check(r)
           => \A x \in Requests : Shape(req[x], tokens, drawn, AccountOf(req[x].session))'
<1> USE Bounds
<1>0. /\ req[r] \in ReqType /\ Shape(req[r], tokens, drawn, AccountOf(req[r].session))
      /\ tokens \in 0 .. MaxTokens /\ drawn \in 0 .. MaxCodes
      BY DEF TypeOK, Shaped
<1>1. ASSUME NEW c \in Flow, Answer(r, c)
      PROVE  /\ Shape(req'[r], tokens', drawn', AccountOf(req[r].session)')
             /\ \A x \in Requests \ {r} : req'[x] = req[x]
  <2> DEFINE step == IF flow[c].kind = "login" THEN "find" ELSE "prove"
  <2>1. flow[c] # NoFlow /\ FlowShape(flow[c], tokens)
        BY <1>1 DEF Answer, Shaped, ShapedRows
  <2>2. req' = [req EXCEPT ![r] = [Idle EXCEPT !.kind = flow[c].kind, !.flow = c,
                    !.step = step, !.session = flow[c].session, !.wallet = flow[c].wallet]]
        BY <1>1 DEF Answer
  <2>3. step \in {"find", "prove"} /\ (step = "find" <=> flow[c].kind = "login") OBVIOUS
  <2> HIDE DEF step
  <2>4. Shape(req'[r], tokens, drawn, AccountOf(req[r].session)')
        BY <2>1, <2>2, <2>3, <1>0 DEF TypeOK, Shape, FlowShape, Idle, Logins, Settings, Read
  <2> QED BY <2>2, <2>4, <1>1 DEF Answer, accounts, TypeOK
<1>2. ASSUME NEW s \in Token, AskForCodes(r, s)
      PROVE  /\ Shape(req'[r], tokens', drawn', AccountOf(req[r].session)')
             /\ \A x \in Requests \ {r} : req'[x] = req[x]
  <2>1. req' = [req EXCEPT ![r] = [Idle EXCEPT !.kind = "codes", !.step = "lookup",
                                               !.session = s]]
        BY <1>2 DEF AskForCodes
  <2>2. s <= tokens
        BY <1>2, <1>0 DEF AskForCodes, Fresh, NoSession, Shaped, ShapedRows
  <2>3. Shape(req'[r], tokens, drawn, AccountOf(req[r].session)')
        BY <2>1, <2>2, <1>0 DEF TypeOK, Shape, Idle, Logins, Settings, Read
  <2> QED BY <2>1, <2>3, <1>2 DEF AskForCodes, accounts, TypeOK
<1>3. ASSUME NEW k \in Code, PresentCode(r, k)
      PROVE  /\ Shape(req'[r], tokens', drawn', AccountOf(req[r].session)')
             /\ \A x \in Requests \ {r} : req'[x] = req[x]
  <2>1. req' = [req EXCEPT ![r] = [Idle EXCEPT !.kind = "redeem", !.step = "lookup",
                                               !.code = k]]
        BY <1>3 DEF PresentCode
  <2>2. k \in 1 .. drawn
        BY <1>3, <1>0 DEF PresentCode
  <2>3. Shape(req'[r], tokens, drawn, AccountOf(req[r].session)')
        BY <2>1, <2>2, <1>0 DEF TypeOK, Shape, Idle, Logins, Settings, Read
  <2> QED BY <2>1, <2>3, <1>3 DEF PresentCode, accounts, TypeOK
<1>4. ASSUME NEW p \in Passkeys, Find(r, p)
      PROVE  /\ Shape(req'[r], tokens', drawn', AccountOf(req[r].session)')
             /\ \A x \in Requests \ {r} : req'[x] = req[x]
  <2>1. req' = [req EXCEPT ![r] = [req[r] EXCEPT !.step = "prove", !.passkey = p,
                    !.account = owner[p], !.counter = counter[p]]] /\ req[r].step = "find"
        BY <1>4 DEF Find
  <2>2. req[r].next = 0 \/ req[r].step # "find" \/ TRUE OBVIOUS
  <2>3. Shape(req'[r], tokens, drawn, AccountOf(req[r].session)')
        BY <2>1, <1>0 DEF TypeOK, Shape, ReqType, Logins, Settings, Read
  <2> QED BY <2>1, <2>3, <1>4 DEF Find, accounts, TypeOK
<1>5. ASSUME NEW p \in Passkeys \cup {Nobody}, NEW n \in Counter, Prove(r, p, n)
      PROVE  /\ Shape(req'[r], tokens', drawn', AccountOf(req[r].session)')
             /\ \A x \in Requests \ {r} : req'[x] = req[x]
  <2> DEFINE s == IF Live(req[r].session) THEN req[r].session ELSE 0
  <2>1. req' = [req EXCEPT ![r] = [req[r] EXCEPT !.step = "lookup", !.passkey = p,
                                    !.next = n, !.session = s]]
        BY <1>5 DEF Prove, s
  <2>2. s \in {0, req[r].session} /\ (req[r].kind \in Settings => s = req[r].session)
        BY <1>5 DEF Prove, Fresh
  <2>3. /\ req[r].step = "prove"
        /\ req[r].kind = "login" => p = req[r].passkey /\ Grows(req[r].counter, n)
        /\ req[r].kind \in {"register", "add"} => p \in Passkeys
        /\ req[r].kind \notin {"login", "register", "add"} => n = 0
        BY <1>5 DEF Prove
  <2>4. req[r].session \in 0 .. MaxTokens BY <1>0, FieldsTyped
  <2> HIDE DEF s
  <2> DEFINE q == req[r]
             x == [q EXCEPT !.step = "lookup", !.passkey = p, !.next = n, !.session = s]
  <2>a. /\ x.step = "lookup" /\ x.passkey = p /\ x.next = n /\ x.session = s
        /\ x.kind = q.kind /\ x.wallet = q.wallet /\ x.code = q.code
        /\ x.flow = q.flow /\ x.counter = q.counter
        BY <1>0 DEF ReqType
  <2>b. req'[r] = x BY <2>1 DEF TypeOK
  <2>c. \A b : Shape(x, tokens, drawn, b)
    <3> HIDE DEF x
    <3> QED BY <2>2, <2>3, <2>4, <2>a, <1>0 DEF Shape, Settings, Read
  <2>5. Shape(req'[r], tokens, drawn, AccountOf(req[r].session)')
        BY <2>b, <2>c
  <2> QED BY <2>1, <2>5, <1>5 DEF Prove, accounts, TypeOK
<1>6. ASSUME Lookup(r)
      PROVE  /\ Shape(req'[r], tokens', drawn', AccountOf(req[r].session)')
             /\ \A x \in Requests \ {r} : req'[x] = req[x]
  <2> DEFINE t == Target(req[r])
             b == IF req[r].kind \in Logins THEN AccountOf(req[r].session) ELSE 0
  <2>1. req' = [req EXCEPT ![r] = [req[r] EXCEPT !.step = "lock", !.account = t, !.prev = b]]
        /\ req[r].step = "lookup"
        BY <1>6 DEF Lookup
  <2>2. /\ req[r].kind \in Settings \cup {"redeem", "login"} => t # 0
        /\ req[r].kind = "register" => t = 0
        BY <1>6 DEF Lookup, Found, Target, Settings
  <2>3. b = IF req[r].kind \in Logins THEN AccountOf(req[r].session) ELSE 0 OBVIOUS
  <2> HIDE DEF t, b
  <2>4. UNCHANGED <<tokens, drawn, session>> BY <1>6 DEF Lookup, accounts
  <2>5. AccountOf(req[r].session)' = AccountOf(req[r].session)
        BY <2>1, <2>4, <1>0 DEF AccountOf, TypeOK, ReqType
  <2>6. Shape(req'[r], tokens, drawn, AccountOf(req[r].session))
        BY <2>1, <2>2, <2>3, <1>0 DEF TypeOK, Shape, ReqType, Logins, Settings, Read
  <2> QED BY <2>1, <2>4, <2>5, <2>6 DEF TypeOK
<1>7. ASSUME Check(r)
      PROVE  /\ Shape(req'[r], tokens', drawn', AccountOf(req[r].session)')
             /\ \A x \in Requests \ {r} : req'[x] = req[x]
  <2>1. req' = [req EXCEPT ![r] = [req[r] EXCEPT !.step = "write"]] /\ req[r].step = "lock"
        BY <1>7 DEF Check
  <2>2. UNCHANGED <<tokens, drawn, session>> BY <1>7 DEF Check, accounts
  <2>3. AccountOf(req[r].session)' = AccountOf(req[r].session)
        BY <2>1, <2>2, <1>0 DEF AccountOf, TypeOK, ReqType
  <2>4. Shape(req'[r], tokens, drawn, AccountOf(req[r].session))
        BY <2>1, <1>0 DEF TypeOK, Shape, ReqType, Logins, Settings, Read
  <2> QED BY <2>1, <2>2, <2>3, <2>4 DEF TypeOK
<1> QED BY <1>1, <1>2, <1>3, <1>4, <1>5, <1>6, <1>7, OthersShaped

LEMMA FlowShapeKept ==
    ASSUME NEW f \in FlowType, NEW t, NEW t2 \in Nat, t \in 0 .. t2, FlowShape(f, t)
    PROVE  FlowShape(f, t2)
<1>1. f.session \in 0 .. MaxTokens BY DEF FlowType
<1> QED BY <1>1, Bounds DEF FlowShape

LEMMA RowsKept ==
    ASSUME TypeOK, Shaped, Grown,
           \A c \in Flow : flow'[c] \in {NoFlow, flow[c]},
           \A s \in Token : s > tokens' => session'[s] \in {NoSession, session[s]},
           \A k \in Code : k > drawn' => codes'[k] \in {0, codes[k]}
    PROVE  ShapedRows'
<1> USE Bounds
<1>1. /\ tokens \in 0 .. tokens' /\ tokens \in Nat /\ tokens' \in Nat
      /\ drawn \in 0 .. drawn' /\ drawn \in Nat /\ drawn' \in Nat
      /\ flows \in 0 .. flows' /\ flows \in Nat /\ flows' \in Nat
      BY DEF Grown, TypeOK
<1>2. FlowShape(NoFlow, tokens')
      BY <1>1 DEF FlowShape, NoFlow
<1>3. \A c \in Flow : FlowShape(flow'[c], tokens')
  <2> TAKE c \in Flow
  <2>1. flow[c] \in FlowType /\ FlowShape(flow[c], tokens) BY DEF TypeOK, Shaped, ShapedRows
  <2> QED BY <1>1, <1>2, <2>1, FlowShapeKept
<1>4. \A c \in Flow : c > flows' => flow'[c] = NoFlow
      BY <1>1 DEF Shaped, ShapedRows
<1>5. \A s \in Token : s > tokens' => session'[s] = NoSession
      BY <1>1 DEF Shaped, ShapedRows
<1>6. \A k \in Code : k > drawn' => codes'[k] = 0
      BY <1>1 DEF Shaped, ShapedRows
<1> QED BY <1>3, <1>4, <1>5, <1>6 DEF ShapedRows

LEMMA RowsWrite ==
    ASSUME TypeOK, Shaped, Grown, NEW r \in Requests, Write(r)
    PROVE  ShapedRows'
<1> USE Bounds
<1>1. ASSUME NEW a, NEW method, NEW ended, NewSession(req[r], a, method, ended)
      PROVE  \A s \in Token : s > tokens' => session'[s] \in {NoSession, session[s]}
      BY <1>1 DEF NewSession, TypeOK
<1>2. CASE WriteRegister(r) \/ WriteLogin(r) \/ WriteWallet(r)
  <2>1. UNCHANGED <<flow, codes>> BY <1>2 DEF WriteRegister, WriteLogin, WriteWallet
  <2>2. \A s \in Token : s > tokens' => session'[s] \in {NoSession, session[s]}
        BY <1>1, <1>2 DEF WriteRegister, WriteLogin, WriteWallet
  <2> QED BY <2>1, <2>2, RowsKept
<1>3. CASE WriteAdd(r) \/ WriteLink(r)
      BY <1>3, RowsKept DEF WriteAdd, WriteLink
<1>4. CASE WriteCodes(r)
  <2>1. \A k \in Code : k > drawn' => codes'[k] \in {0, codes[k]}
        BY <1>4 DEF WriteCodes, TypeOK
  <2> QED BY <1>4, <2>1, RowsKept DEF WriteCodes
<1>5. CASE WriteRedeem(r)
  <2>1. \A c \in Flow : flow'[c] \in {NoFlow, flow[c]}
        BY <1>5 DEF WriteRedeem
  <2>2. \A k \in Code : codes'[k] \in {0, codes[k]}
        BY <1>5 DEF WriteRedeem, TypeOK
  <2>3. \A s \in Token : s > tokens' => session'[s] \in {NoSession, session[s]}
        BY <1>1, <1>5 DEF WriteRedeem
  <2> QED BY <2>1, <2>2, <2>3, RowsKept
<1> QED BY <1>2, <1>3, <1>4, <1>5 DEF Write

LEMMA RowsIssue ==
    ASSUME TypeOK, Shaped, Grown, NEW kind \in Logins \cup {"add", "link"},
           NEW s \in 0 .. tokens, NEW w \in Wallets \cup {Nobody}, Issue(kind, s, w)
    PROVE  ShapedRows'
<1> USE Bounds
<1> DEFINE f == [kind |-> kind, session |-> s, wallet |-> w,
                 account |-> IF kind \in Settings THEN AccountOf(s) ELSE 0]
<1>1. /\ flow' = [flow EXCEPT ![flows + 1] = f] /\ flows' = flows + 1
      /\ UNCHANGED <<session, tokens, codes, drawn>>
      BY DEF Issue, accounts
<1>2. tokens \in Nat /\ flows \in Nat BY DEF TypeOK
<1>3. FlowShape(f, tokens)
  <2>1. kind \in {"wallet", "link"} <=> w # Nobody BY DEF Issue
  <2>2. kind \in Settings => s # 0
        BY DEF Issue, Fresh, Live, Active, AccountOf, Logins, Settings
  <2> QED BY <1>2, <2>1, <2>2 DEF FlowShape
<1> HIDE DEF f
<1>4. \A c \in Flow : FlowShape(flow'[c], tokens')
      BY <1>1, <1>3 DEF TypeOK, Shaped, ShapedRows
<1>5. \A c \in Flow : c > flows' => flow'[c] = NoFlow
      BY <1>1, <1>2 DEF TypeOK, Shaped, ShapedRows
<1> QED BY <1>1, <1>4, <1>5 DEF Shaped, ShapedRows

LEMMA ShapeStep == TypeOK /\ Shaped /\ [Next]_vars => Shaped'
<1> SUFFICES ASSUME TypeOK, Shaped, [Next]_vars PROVE Shaped' OBVIOUS
<1>0. Grown BY GrownStep
<1>1. ASSUME NEW kind \in Logins \cup {"add", "link"}, NEW s \in 0 .. tokens,
             NEW w \in Wallets \cup {Nobody}, Issue(kind, s, w)
      PROVE  Shaped'
      BY <1>0, <1>1, SameShaped, RowsIssue DEF Issue, Shaped
<1>2. ASSUME NEW r \in Requests, Serve(r) PROVE Shaped'
  <2>1. ASSUME NEW c \in Flow, Answer(r, c) PROVE ShapedRows'
    <3>1. \A x \in Flow : flow'[x] \in {NoFlow, flow[x]} BY <2>1 DEF Answer, TypeOK
    <3> QED BY <1>0, <2>1, <3>1, RowsKept DEF Answer, accounts
  <2>2. CASE /\ UNCHANGED <<flow, session, codes>>
             /\ \/ \E s \in Token : AskForCodes(r, s)
                \/ \E k \in Code : PresentCode(r, k)
                \/ \E p \in Passkeys : Find(r, p)
                \/ \E p \in Passkeys \cup {Nobody}, n \in Counter : Prove(r, p, n)
                \/ Lookup(r) \/ Check(r)
        BY <1>0, <2>2, RowsKept, ShapeServe DEF Shaped
  <2>3. ASSUME NEW c \in Flow, Answer(r, c) PROVE Shaped'
        BY <1>0, <2>1, <2>3, ShapeServe DEF Shaped
  <2>4. ASSUME NEW s \in Token, AskForCodes(r, s) PROVE Shaped'
        BY <2>2, <2>4 DEF AskForCodes, accounts
  <2>5. ASSUME NEW k \in Code, PresentCode(r, k) PROVE Shaped'
        BY <2>2, <2>5 DEF PresentCode, accounts
  <2>6. ASSUME NEW p \in Passkeys, Find(r, p) PROVE Shaped'
        BY <2>2, <2>6 DEF Find, accounts
  <2>7. ASSUME NEW p \in Passkeys \cup {Nobody}, NEW n \in Counter, Prove(r, p, n)
        PROVE Shaped'
        BY <2>2, <2>7 DEF Prove, accounts
  <2>8. CASE Lookup(r) BY <2>2, <2>8 DEF Lookup, accounts
  <2>9. CASE Check(r) BY <2>2, <2>9 DEF Check, accounts
  <2>10. ASSUME NEW a \in Account, Acquire(r, a) PROVE Shaped'
         BY <1>0, <2>10, SameShaped, RowsKept DEF Acquire, accounts, Shaped
  <2>11. CASE Write(r)
    <3>1. Release(r)
          BY <2>11 DEF Write, Writing, WriteRegister, WriteLogin, WriteWallet, WriteAdd,
                      WriteLink, WriteCodes, WriteRedeem
    <3> QED BY <1>0, <2>11, <3>1, ReleasedShaped, RowsWrite DEF Shaped
  <2>12. CASE GiveUp(r)
         BY <1>0, <2>12, ReleasedShaped, RowsKept DEF GiveUp, accounts, Shaped
  <2> QED BY <1>2, <2>3, <2>4, <2>5, <2>6, <2>7, <2>8, <2>9, <2>10, <2>11, <2>12 DEF Serve
<1>3. ASSUME NEW s \in Token, EndSession(s) \/ Ages(s) PROVE Shaped'
  <2>1. UNCHANGED <<req, flow, codes, tokens, flows, drawn>>
        BY <1>3 DEF EndSession, Ages, accounts
  <2>2. \A u \in Token : u > tokens => session'[u] \in {NoSession, session[u]}
    <3>1. CASE EndSession(s) BY <3>1 DEF EndSession, TypeOK
    <3>2. CASE Ages(s)
      <4>1. session[s] # NoSession BY <3>2 DEF Ages, NoSession
      <4> QED BY <3>2, <4>1 DEF Ages, TypeOK, Shaped, ShapedRows
    <3> QED BY <1>3, <3>1, <3>2
  <2> QED BY <1>0, <2>1, <2>2, SameShaped, RowsKept DEF Shaped
<1>4. ASSUME NEW a \in Account, Disable(a) PROVE Shaped'
      BY <1>0, <1>4, SameShaped, RowsKept DEF Disable, Shaped
<1>5. CASE UNCHANGED vars
      BY <1>0, <1>5, SameShaped, RowsKept DEF vars, accounts, Shaped
<1> QED BY <1>1, <1>2, <1>3, <1>4, <1>5 DEF Next

(* Types: no row or request under way ever leaves the values it may take.  *)
THEOREM AccountsTyped == Spec => []TypeOK
<1>1. Init => TypeOK /\ Shaped BY TypeInit, ShapeInit
<1>2. TypeOK /\ Shaped /\ [Next]_vars => (TypeOK /\ Shaped)' BY TypeStep, ShapeStep
<1> QED BY <1>1, <1>2, PTL DEF Spec

-----------------------------------------------------------------------------
(* Locks.                                                                  *)

LEMMA SubjectsTyped ==
    ASSUME TypeOK, NEW r \in Requests
    PROVE  Subjects(req[r]) \subseteq Account
BY FieldsTyped, Bounds DEF Subjects, TypeOK

LEMMA LockedInit == Init => Locked
BY Bounds DEF Init, Locked, Holders, InOrder, Idle, Read

(* A request that keeps its locks, what they are on and whether it is in   *)
(* its transaction.                                                        *)
LEMMA LocksKept ==
    ASSUME TypeOK, Locked, UNCHANGED <<accountLock, walletLock>>,
           \A x \in Requests :
               \/ req'[x] = req[x]
               \/ req[x].step \notin Read /\ req'[x].step \notin Read
    PROVE  Locked'
<1>1. \A x \in Requests, a \in Account : accountLock[a] = x => req'[x] = req[x]
      BY DEF Locked, Holders
<1>2. Holders'
  <2>1. \A r \in Requests, a \in Account :
          accountLock'[a] = r => req'[r].step \in Read /\ a \in Subjects(req'[r])
        BY <1>1 DEF Locked, Holders
  <2>2. \A r \in Requests, w \in Wallets :
          walletLock'[w] = r => req'[r].step \in Read /\ req'[r].wallet = w
        BY DEF Locked, Holders
  <2>3. \A r \in Requests : req'[r].step \in Read /\ req'[r].wallet # Nobody =>
          walletLock'[req'[r].wallet] = r
        BY DEF Locked, Holders
  <2>4. \A r \in Requests : req'[r].step = "write" =>
          \A a \in Subjects(req'[r]) : accountLock'[a] = r
        BY DEF Locked, Holders, Read
  <2> QED BY <2>1, <2>2, <2>3, <2>4 DEF Holders, Subjects
<1>3. InOrder'
      BY <1>1 DEF Locked, InOrder, Needed, Held
<1> QED BY <1>2, <1>3 DEF Locked

LEMMA LocksReleased ==
    ASSUME TypeOK, Locked, NEW r \in Requests, Release(r)
    PROVE  Locked'
<1> USE Bounds
<1>1. req'[r] = Idle /\ \A x \in Requests \ {r} : req'[x] = req[x]
      BY DEF TypeOK, Release
<1>2. /\ \A a \in Account : accountLock'[a] # r
      /\ \A a \in Account, x \in Requests \ {r} : accountLock'[a] = x <=> accountLock[a] = x
      /\ \A w \in Wallets : walletLock'[w] # r
      /\ \A w \in Wallets, x \in Requests \ {r} : walletLock'[w] = x <=> walletLock[w] = x
      BY DEF Release
<1>3. \A x \in Requests \ {r} : Subjects(req'[x]) = Subjects(req[x])
                                /\ Subjects(req[x]) \subseteq Account
      BY <1>1, SubjectsTyped
<1>4. Holders'
  <2>1. \A x \in Requests, a \in Account :
          accountLock'[a] = x => req'[x].step \in Read /\ a \in Subjects(req'[x])
        BY <1>1, <1>2 DEF Locked, Holders
  <2>2. \A x \in Requests, w \in Wallets :
          walletLock'[w] = x => req'[x].step \in Read /\ req'[x].wallet = w
        BY <1>1, <1>2 DEF Locked, Holders
  <2>3. \A x \in Requests : req'[x].step \in Read /\ req'[x].wallet # Nobody =>
          walletLock'[req'[x].wallet] = x
    <3> TAKE x \in Requests
    <3>1. CASE x = r BY <3>1, <1>1 DEF Idle
    <3>2. CASE x # r
      <4>1. req[x].wallet \in Wallets \cup {Nobody} BY FieldsTyped DEF TypeOK
      <4> QED BY <3>2, <4>1, <1>1, <1>2 DEF Locked, Holders
    <3> QED BY <3>1, <3>2
  <2>4. \A x \in Requests : req'[x].step = "write" =>
          \A a \in Subjects(req'[x]) : accountLock'[a] = x
    <3> TAKE x \in Requests
    <3>1. CASE x = r BY <3>1, <1>1 DEF Idle
    <3>2. CASE x # r BY <3>2, <1>1, <1>2, <1>3 DEF Locked, Holders
    <3> QED BY <3>1, <3>2
  <2> QED BY <2>1, <2>2, <2>3, <2>4 DEF Holders, Subjects
<1>5. InOrder'
  <2> SUFFICES ASSUME NEW x \in Requests, NEW a \in Account, NEW b \in Account,
                      accountLock'[a] = x, b \in Needed(x)'
               PROVE  a < b
      BY DEF InOrder
  <2>1. x # r /\ accountLock[a] = x BY <1>2
  <2>2. b \in Needed(x)
        BY <2>1, <1>1, <1>2 DEF Needed, Held
  <2> QED BY <2>1, <2>2 DEF Locked, InOrder
<1> QED BY <1>4, <1>5 DEF Locked

LEMMA LookupLocks ==
    ASSUME TypeOK, Locked, NEW r \in Requests, Lookup(r)
    PROVE  Locked'
<1> USE Bounds
<1>1. /\ req[r].step = "lookup" /\ req'[r].step = "lock" /\ req'[r].wallet = req[r].wallet
      /\ \A x \in Requests \ {r} : req'[x] = req[x]
      /\ UNCHANGED accountLock
      BY DEF Lookup, TypeOK, ReqType
<1>2. /\ \A a \in Account : accountLock[a] # r
      /\ \A w \in Wallets : walletLock[w] # r
      BY <1>1 DEF Locked, Holders, Read
<1>3. req[r].wallet \in Wallets \cup {Nobody} BY FieldsTyped DEF TypeOK
<1>4. /\ req[r].wallet # Nobody => walletLock'[req[r].wallet] = r
      /\ \A w \in Wallets : walletLock'[w] = r => w = req[r].wallet
      /\ \A w \in Wallets, x \in Requests \ {r} : walletLock'[w] = x <=> walletLock[w] = x
      BY <1>2, <1>3 DEF Lookup, TypeOK
<1>5. Holders'
  <2>1. \A x \in Requests, a \in Account :
          accountLock'[a] = x => req'[x].step \in Read /\ a \in Subjects(req'[x])
        BY <1>1, <1>2 DEF Locked, Holders
  <2>2. \A x \in Requests, w \in Wallets :
          walletLock'[w] = x => req'[x].step \in Read /\ req'[x].wallet = w
        BY <1>1, <1>4 DEF Locked, Holders, Read
  <2>3. \A x \in Requests : req'[x].step \in Read /\ req'[x].wallet # Nobody =>
          walletLock'[req'[x].wallet] = x
    <3> TAKE x \in Requests
    <3>1. CASE x = r BY <3>1, <1>1, <1>4
    <3>2. CASE x # r
      <4>1. req[x].wallet \in Wallets \cup {Nobody} BY FieldsTyped DEF TypeOK
      <4> QED BY <3>2, <4>1, <1>1, <1>4 DEF Locked, Holders
    <3> QED BY <3>1, <3>2
  <2>4. \A x \in Requests : req'[x].step = "write" =>
          \A a \in Subjects(req'[x]) : accountLock'[a] = x
        BY <1>1 DEF Locked, Holders
  <2> QED BY <2>1, <2>2, <2>3, <2>4 DEF Holders, Subjects
<1>6. InOrder'
  <2> SUFFICES ASSUME NEW x \in Requests, NEW a \in Account, NEW b \in Account,
                      accountLock[a] = x, b \in Needed(x)'
               PROVE  a < b
      BY <1>1 DEF InOrder
  <2>1. b \in Needed(x) /\ x # r BY <1>1, <1>2 DEF Needed, Held
  <2> QED BY <2>1 DEF Locked, InOrder
<1> QED BY <1>5, <1>6 DEF Locked

LEMMA AcquireLocks ==
    ASSUME TypeOK, Locked, NEW r \in Requests, NEW c \in Account, Acquire(r, c)
    PROVE  Locked'
<1> USE Bounds
<1>1. /\ req[r].step = "lock" /\ c \in Needed(r) /\ accountLock[c] = Nobody
      /\ \A b \in Needed(r) : c <= b
      /\ accountLock' = [accountLock EXCEPT ![c] = r]
      /\ UNCHANGED <<req, walletLock>>
      BY DEF Acquire, NextLock
<1>2. c \in Subjects(req[r]) BY <1>1 DEF Needed, Subjects
<1>3. Holders'
  <2>1. \A x \in Requests, a \in Account :
          accountLock'[a] = x => req'[x].step \in Read /\ a \in Subjects(req'[x])
        BY <1>1, <1>2 DEF Locked, Holders, Read, TypeOK
  <2>2. \A x \in Requests : req'[x].step = "write" =>
          \A a \in Subjects(req'[x]) : accountLock'[a] = x
        BY <1>1 DEF Locked, Holders, TypeOK
  <2> QED BY <2>1, <2>2, <1>1 DEF Locked, Holders, Subjects
<1>4. InOrder'
  <2> SUFFICES ASSUME NEW x \in Requests, NEW a \in Account, NEW b \in Account,
                      accountLock'[a] = x, b \in Needed(x)'
               PROVE  a < b
      BY DEF InOrder
  <2>1. b \in Needed(x) /\ b \notin Held(x)' BY <1>1 DEF Needed, Held, TypeOK
  <2>2. CASE a = c
    <3>1. x = r BY <1>1, <2>2 DEF TypeOK
    <3>2. c <= b /\ b # c BY <3>1, <2>1, <2>2, <1>1 DEF Held
    <3> QED BY <3>2, <2>2
  <2>3. CASE a # c
    <3>1. accountLock[a] = x BY <2>3, <1>1 DEF TypeOK
    <3> QED BY <3>1, <2>1 DEF Locked, InOrder
  <2> QED BY <2>2, <2>3
<1> QED BY <1>3, <1>4 DEF Locked

LEMMA CheckLocks ==
    ASSUME TypeOK, Locked, NEW r \in Requests, Check(r)
    PROVE  Locked'
<1> USE Bounds
<1>1. /\ req[r].step = "lock" /\ Needed(r) = {} /\ req'[r].step = "write"
      /\ req'[r].wallet = req[r].wallet /\ req'[r].account = req[r].account
      /\ req'[r].prev = req[r].prev
      /\ \A x \in Requests \ {r} : req'[x] = req[x]
      /\ UNCHANGED <<accountLock, walletLock>>
      BY DEF Check, TypeOK, ReqType, locks
<1>2. \A x \in Requests : Subjects(req'[x]) = Subjects(req[x]) /\ Needed(x)' = Needed(x)
      BY <1>1 DEF Subjects, Needed, Held
<1>3. \A a \in Subjects(req[r]) : accountLock[a] = r
      BY <1>1, SubjectsTyped DEF Subjects, Needed, Held
<1>4. Holders'
  <2>1. \A x \in Requests, a \in Account :
          accountLock'[a] = x => req'[x].step \in Read /\ a \in Subjects(req'[x])
        BY <1>1, <1>2 DEF Locked, Holders, Read
  <2>2. \A x \in Requests, w \in Wallets :
          walletLock'[w] = x => req'[x].step \in Read /\ req'[x].wallet = w
        BY <1>1 DEF Locked, Holders, Read
  <2>3. \A x \in Requests : req'[x].step \in Read /\ req'[x].wallet # Nobody =>
          walletLock'[req'[x].wallet] = x
        BY <1>1 DEF Locked, Holders, Read
  <2>4. \A x \in Requests : req'[x].step = "write" =>
          \A a \in Subjects(req'[x]) : accountLock'[a] = x
        BY <1>1, <1>2, <1>3 DEF Locked, Holders
  <2> QED BY <2>1, <2>2, <2>3, <2>4 DEF Holders, Subjects
<1>5. InOrder' BY <1>1, <1>2 DEF Locked, InOrder
<1> QED BY <1>4, <1>5 DEF Locked

LEMMA LockedStep == TypeOK /\ Locked /\ [Next]_vars => Locked'
<1> SUFFICES ASSUME TypeOK, Locked, [Next]_vars PROVE Locked' OBVIOUS
<1>1. ASSUME NEW r \in Requests, Serve(r) PROVE Locked'
  <2>1. ASSUME NEW c \in Flow, Answer(r, c) PROVE Locked'
    <3>1. req[r].step \notin Read /\ req'[r].step \notin Read
          BY <2>1 DEF Answer, Idle, Read, TypeOK
    <3> QED BY <2>1, <3>1, LocksKept DEF Answer, locks, TypeOK
  <2>2. ASSUME NEW s \in Token, AskForCodes(r, s) PROVE Locked'
    <3>1. req[r].step \notin Read /\ req'[r].step \notin Read
          BY <2>2 DEF AskForCodes, Idle, Read, TypeOK
    <3> QED BY <2>2, <3>1, LocksKept DEF AskForCodes, locks, TypeOK
  <2>3. ASSUME NEW k \in Code, PresentCode(r, k) PROVE Locked'
    <3>1. req[r].step \notin Read /\ req'[r].step \notin Read
          BY <2>3 DEF PresentCode, Idle, Read, TypeOK
    <3> QED BY <2>3, <3>1, LocksKept DEF PresentCode, locks, TypeOK
  <2>4. ASSUME NEW p \in Passkeys, Find(r, p) PROVE Locked'
    <3>1. req[r].step \notin Read /\ req'[r].step \notin Read
          BY <2>4 DEF Find, Read, TypeOK, ReqType
    <3> QED BY <2>4, <3>1, LocksKept DEF Find, locks, TypeOK
  <2>5. ASSUME NEW p, NEW n, Prove(r, p, n) PROVE Locked'
    <3>1. req[r].step \notin Read /\ req'[r].step \notin Read
          BY <2>5 DEF Prove, Read, TypeOK, ReqType
    <3> QED BY <2>5, <3>1, LocksKept DEF Prove, locks, TypeOK
  <2>6. CASE GiveUp(r) BY <2>6, LocksReleased DEF GiveUp
  <2>7. CASE Write(r)
        BY <2>7, LocksReleased DEF Write, Writing, WriteRegister, WriteLogin, WriteWallet,
                               WriteAdd, WriteLink, WriteCodes, WriteRedeem
  <2> QED BY <1>1, <2>1, <2>2, <2>3, <2>4, <2>5, <2>6, <2>7, LookupLocks, AcquireLocks,
             CheckLocks DEF Serve
<1>2. ASSUME NEW kind, NEW s, NEW w, Issue(kind, s, w) PROVE Locked'
      BY <1>2, LocksKept DEF Issue, locks
<1>3. ASSUME NEW s \in Token, EndSession(s) \/ Ages(s) PROVE Locked'
      BY <1>3, LocksKept DEF EndSession, Ages, locks
<1>4. ASSUME NEW a \in Account, Disable(a) PROVE Locked'
      BY <1>4, LocksKept DEF Disable, locks
<1>5. CASE UNCHANGED vars BY <1>5, LocksKept DEF vars, locks
<1> QED BY <1>1, <1>2, <1>3, <1>4, <1>5 DEF Next

-----------------------------------------------------------------------------
(* What a request relies on when it writes.                                *)

(* The write of one request leaves the rows of every other account alone.  *)
LEMMA WriteFrame ==
    ASSUME TypeOK, Shaped, Ready, NEW r \in Requests, Write(r),
           NEW a \in Account, status[a] # "none", a # req[r].account
    PROVE  /\ Steady(a)
           /\ \A s \in Token : session'[s].account = a => session[s].account = a
           /\ a # req[r].prev =>
                 \A s \in Token : session[s].account = a => session'[s] = session[s]
<1> USE Bounds
<1> DEFINE q == req[r]
<1>0. /\ q \in ReqType /\ Shape(q, tokens, drawn, AccountOf(q.session)) /\ ReadyFor(r)
      /\ tokens \in 0 .. MaxTokens /\ drawn \in 0 .. MaxCodes /\ a # 0
      BY DEF TypeOK, Shaped, Ready
<1>1. q.passkey \in Passkeys \cup {Nobody} /\ q.wallet \in Wallets \cup {Nobody}
      BY <1>0, FieldsTyped
<1>2. ASSUME NEW b, b # a, NEW method, NEW ended, NewSession(q, b, method, ended),
             a # q.prev => \A s \in ended \cap Token : session[s].account # a
      PROVE  /\ \A s \in Token : session'[s].account = a => session[s].account = a
             /\ a # q.prev =>
                   \A s \in Token : session[s].account = a => session'[s] = session[s]
  <2>1. \A s \in Token : s = tokens + 1 => session[s].account # a
        BY <1>0 DEF Shaped, ShapedRows, NoSession
  <2> QED BY <1>0, <1>2, <2>1 DEF NewSession, NoSession
<1>3. /\ q.step = "write"
      BY DEF Write, Writing, WriteRegister, WriteLogin, WriteWallet, WriteAdd,
             WriteLink, WriteCodes, WriteRedeem
<1>4. q.kind \in Logins /\ a # q.prev => \A s \in Ended(q) \cap Token : session[s].account # a
      BY <1>0, <1>3 DEF Shape, Ended, AccountOf, Read
<1>5. CASE WriteRegister(r)
  <2>1. PICK b \in Account : /\ NewAccount(b)
            /\ owner' = [owner EXCEPT ![q.passkey] = b]
            /\ NewSession(q, b, "passkey", Ended(q))
        BY <1>5 DEF WriteRegister
  <2>2. b # a /\ q.kind \in Logins BY <1>5, <2>1 DEF NewAccount, WriteRegister, Writing, Logins
  <2>3. Steady(a)
        BY <1>0, <1>5, <2>1, <2>2 DEF WriteRegister, Steady, NewAccount, TypeOK
  <2> QED BY <1>2, <1>4, <2>1, <2>2, <2>3
<1>6. CASE WriteLogin(r)
  <2>1. q.kind \in Logins /\ q.account # a /\ q.kind = "login"
        BY <1>6 DEF WriteLogin, Writing, Logins
  <2>2. Steady(a)
        BY <1>0, <1>3, <1>6, <2>1 DEF WriteLogin, Steady, TypeOK, ReadyFor
  <2>3. NewSession(q, q.account, "passkey", Ended(q)) BY <1>6 DEF WriteLogin
  <2> QED BY <1>2, <1>4, <2>1, <2>2, <2>3
<1>7. CASE WriteWallet(r)
  <2>1. q.kind \in Logins /\ q.kind = "wallet" BY <1>7 DEF WriteWallet, Writing, Logins
  <2>2. CASE /\ NewSession(q, q.account, "wallet", Ended(q)) /\ UNCHANGED <<status, holder>>
    <3>1. Steady(a) BY <1>7, <2>2 DEF WriteWallet, Steady
    <3> QED BY <1>2, <1>4, <2>1, <2>2, <3>1
  <2>3. ASSUME NEW b \in Account, NewAccount(b), q.account = 0,
               holder' = [holder EXCEPT ![q.wallet] = b],
               NewSession(q, b, "wallet", Ended(q))
        PROVE  /\ Steady(a)
               /\ \A s \in Token : session'[s].account = a => session[s].account = a
               /\ a # q.prev =>
                     \A s \in Token : session[s].account = a => session'[s] = session[s]
    <3>1. b # a BY <2>3 DEF NewAccount
    <3>2. Steady(a)
          BY <1>0, <1>3, <1>7, <2>1, <2>3, <3>1
             DEF WriteWallet, Steady, NewAccount, TypeOK, ReadyFor
    <3> QED BY <1>2, <1>4, <2>1, <2>3, <3>1, <3>2
  <2> QED BY <1>7, <2>2, <2>3 DEF WriteWallet
<1>8. CASE WriteAdd(r)
      BY <1>0, <1>8 DEF WriteAdd, Steady, TypeOK
<1>9. CASE WriteLink(r)
      BY <1>0, <1>3, <1>9 DEF WriteLink, Writing, Steady, TypeOK, ReadyFor
<1>10. CASE WriteCodes(r)
  <2>1. \A k \in Code : codes'[k] = a <=> codes[k] = a
        BY <1>0, <1>10 DEF WriteCodes, TypeOK, Shaped, ShapedRows
  <2> QED BY <2>1, <1>10 DEF WriteCodes, Steady
<1>11. CASE WriteRedeem(r)
  <2>1. NewSession(q, q.account, "recovery", Revoked(q)) /\ q.kind = "redeem"
        BY <1>11 DEF WriteRedeem, Writing
  <2>2. \A s \in Revoked(q) : session[s].account # a BY DEF Revoked
  <2>3. Steady(a)
        BY <1>0, <1>3, <1>11, <2>1 DEF WriteRedeem, Steady, TypeOK, ReadyFor
  <2> QED BY <1>2, <2>1, <2>2, <2>3
<1> QED BY <1>5, <1>6, <1>7, <1>8, <1>9, <1>10, <1>11 DEF Write

LEMMA ReadyKept ==
    ASSUME TypeOK, Shaped, Ready, Grown, NEW x \in Requests, req'[x] = req[x],
           req[x].step = "write" =>
               /\ req[x].account # 0 => Steady(req[x].account)
               /\ req[x].kind \in Settings =>
                     AccountOf(req[x].session)' = AccountOf(req[x].session)
               /\ req[x].wallet # Nobody => holder'[req[x].wallet] = holder[req[x].wallet]
    PROVE  ReadyFor(x)'
<1> USE Bounds
<1> PICK q : q = req[x] /\ q = req'[x] OBVIOUS
<1>0. q \in ReqType /\ Shape(q, tokens, drawn, AccountOf(q.session)) /\ ReadyFor(x)
      BY DEF TypeOK, Shaped, Ready
<1>1. q.step \in Read /\ q.kind \in Settings => AccountOf(q.session)' \in {0, q.account}
  <2>1. q.session \in 0 .. tokens BY <1>0, FieldsTyped DEF Shape, TypeOK
  <2>2. AccountOf(q.session)' \in {0, AccountOf(q.session)} BY <2>1 DEF Grown, AccountOf
  <2> QED BY <1>0, <2>2 DEF ReadyFor
<1>2. ASSUME q.step = "write", q.account # 0
      PROVE  /\ Active(q.account)'
             /\ PasskeysOf(q.account)' = PasskeysOf(q.account)
             /\ WalletsOf(q.account)' = WalletsOf(q.account)
             /\ q.kind = "login" => /\ owner'[q.passkey] = q.account
                                    /\ counter'[q.passkey] = q.counter
             /\ q.kind = "redeem" => codes'[q.code] = q.account
  <2>1. Steady(q.account) BY <1>2
  <2>2. q.kind = "login" => q.passkey \in Passkeys BY <1>0, <1>2 DEF Shape
  <2>3. q.kind = "redeem" => q.code \in Code BY <1>0, FieldsTyped DEF Shape, TypeOK
  <2>4. PasskeysOf(q.account)' = PasskeysOf(q.account) BY <2>1 DEF Steady, PasskeysOf
  <2>5. WalletsOf(q.account)' = WalletsOf(q.account) BY <2>1 DEF Steady, WalletsOf
  <2> QED BY <1>0, <1>2, <2>1, <2>2, <2>3, <2>4, <2>5 DEF Steady, Active, ReadyFor
<1>3. q.step = "write" /\ q.kind \in Settings \cup {"redeem", "login"} => q.account # 0
      BY <1>0 DEF Shape, Read
<1>4. q.kind \in {"wallet", "link"} => q.wallet # Nobody BY <1>0 DEF Shape
<1>5. q.step = "write" =>
          /\ q.account # 0 => Active(q.account)'
          /\ q.kind = "login" => owner'[q.passkey] = q.account
                                 /\ counter'[q.passkey] = q.counter
          /\ q.kind = "wallet" => holder'[q.wallet] = q.account
          /\ q.kind = "link" => holder'[q.wallet] = 0
                                /\ Cardinality(WalletsOf(q.account)') < WalletLimit
          /\ q.kind = "add" => Cardinality(PasskeysOf(q.account)') < PasskeyLimit
          /\ q.kind = "redeem" => codes'[q.code] = q.account
          /\ q.kind \in Settings => AccountOf(q.session)' = q.account
      BY <1>0, <1>2, <1>3, <1>4 DEF ReadyFor, Settings
<1> QED BY <1>1, <1>5 DEF ReadyFor

(* A step that changes no row but, at most, sessions that no transaction   *)
(* has locked, and at most one request, that is then outside of any.       *)
LEMMA ReadySame ==
    ASSUME TypeOK, Shaped, Ready, Grown, UNCHANGED <<status, owner, counter, holder, codes>>,
           \A s \in Token : RowLocked(s) => session'[s].account = session[s].account,
           \A x \in Requests : req'[x] = req[x] \/ req'[x].step \notin Read
    PROVE  Ready'
<1> USE Bounds
<1> SUFFICES ASSUME NEW x \in Requests PROVE ReadyFor(x)' BY DEF Ready
<1>1. CASE req'[x].step \notin Read BY <1>1 DEF ReadyFor, Read
<1>2. CASE req'[x] = req[x]
  <2>1. \A a : Steady(a) BY DEF Steady
  <2>2. ASSUME req[x].step = "write", req[x].kind \in Settings
        PROVE  AccountOf(req[x].session)' = AccountOf(req[x].session)
    <3>1. req[x].session \in Token
          BY <2>2, FieldsTyped DEF TypeOK, Shaped, Shape
    <3>2. RowLocked(req[x].session) BY <2>2 DEF RowLocked
    <3> QED BY <1>2, <3>1, <3>2 DEF AccountOf
  <2> QED BY <1>2, <2>1, <2>2, ReadyKept
<1> QED BY <1>1, <1>2

LEMMA ReadyWrite ==
    ASSUME TypeOK, Shaped, Locked, Ready, Grown, NEW r \in Requests, Write(r)
    PROVE  Ready'
<1> USE Bounds
<1> SUFFICES ASSUME NEW x \in Requests PROVE ReadyFor(x)' BY DEF Ready
<1>1. /\ req[r].step = "write" /\ req'[r] = Idle
      /\ \A y \in Requests \ {r} : req'[y] = req[y]
      BY DEF Write, Writing, WriteRegister, WriteLogin, WriteWallet, WriteAdd,
             WriteLink, WriteCodes, WriteRedeem, Release, TypeOK
<1>2. CASE x = r BY <1>1, <1>2 DEF ReadyFor, Idle, Read
<1>3. CASE x # r
  <2>0. req[x] \in ReqType /\ Shape(req[x], tokens, drawn, AccountOf(req[x].session))
        /\ Shape(req[r], tokens, drawn, AccountOf(req[r].session))
        BY DEF TypeOK, Shaped
  <2>1. ASSUME req[x].step = "write", req[x].account # 0
        PROVE  /\ req[x].account \in Account /\ status[req[x].account] = "active"
               /\ req[x].account \notin Subjects(req[r])
    <3>1. req[x].account \in Subjects(req[x]) BY <2>1 DEF Subjects
    <3>2. req[x].account \in Account BY <3>1, SubjectsTyped
    <3>3. accountLock[req[x].account] = x BY <2>1, <3>1 DEF Locked, Holders
    <3>4. req[x].account \notin Subjects(req[r])
          BY <1>1, <1>3, <3>3 DEF Locked, Holders
    <3> QED BY <2>1, <3>2, <3>4 DEF Ready, ReadyFor, Active
  <2>2. ASSUME req[x].step = "write", req[x].account # 0
        PROVE  /\ Steady(req[x].account)
               /\ \A s \in Token : session[s].account = req[x].account =>
                      session'[s] = session[s]
        BY <2>1, <2>2, WriteFrame DEF Subjects
  <2>3. ASSUME req[x].step = "write", req[x].kind \in Settings
        PROVE  AccountOf(req[x].session)' = AccountOf(req[x].session)
    <3>1. req[x].account # 0 BY <2>0, <2>3 DEF Shape, Read
    <3>2. req[x].session \in Token
          BY <2>3, FieldsTyped DEF TypeOK, Shaped, Shape
    <3>3. session[req[x].session].account = req[x].account
          BY <2>3, <3>2 DEF Ready, ReadyFor, AccountOf
    <3> QED BY <1>1, <1>3, <2>2, <2>3, <3>1, <3>2, <3>3 DEF AccountOf
  <2>4. ASSUME req[x].step = "write", req[x].wallet # Nobody
        PROVE  holder'[req[x].wallet] = holder[req[x].wallet]
    <3>1. req[x].wallet \in Wallets BY <2>0, <2>4, FieldsTyped
    <3>2. walletLock[req[x].wallet] = x BY <2>4 DEF Locked, Holders, Read
    <3>3. req[r].wallet # Nobody => req[r].wallet # req[x].wallet
          BY <1>1, <1>3, <3>2 DEF Locked, Holders, Read
    <3>4. req[r].kind \in {"wallet", "link"} => req[r].wallet # Nobody BY <2>0 DEF Shape
    <3>5. CASE WriteWallet(r) \/ WriteLink(r)
          BY <3>1, <3>3, <3>4, <3>5 DEF WriteWallet, WriteLink, Writing, TypeOK
    <3>6. CASE ~(WriteWallet(r) \/ WriteLink(r))
          BY <3>6 DEF Write, WriteRegister, WriteLogin, WriteAdd, WriteCodes, WriteRedeem
    <3> QED BY <3>5, <3>6
  <2> QED BY <1>1, <1>3, <2>2, <2>3, <2>4, ReadyKept
<1> QED BY <1>2, <1>3

LEMMA ReadyStep == TypeOK /\ Shaped /\ Locked /\ Ready /\ [Next]_vars => Ready'
<1> SUFFICES ASSUME TypeOK, Shaped, Locked, Ready, [Next]_vars PROVE Ready' OBVIOUS
<1> USE Bounds
<1>0. Grown BY GrownStep
<1>1. ASSUME NEW r \in Requests, Serve(r) PROVE Ready'
  <2>1. ASSUME NEW c \in Flow, Answer(r, c) PROVE Ready'
    <3>1. req'[r].step \notin Read BY <2>1 DEF Answer, Idle, Read, TypeOK
    <3> QED BY <1>0, <2>1, <3>1, ReadySame DEF Answer, accounts, TypeOK
  <2>2. ASSUME NEW s \in Token, AskForCodes(r, s) PROVE Ready'
    <3>1. req'[r].step \notin Read BY <2>2 DEF AskForCodes, Idle, Read, TypeOK
    <3> QED BY <1>0, <2>2, <3>1, ReadySame DEF AskForCodes, accounts, TypeOK
  <2>3. ASSUME NEW k \in Code, PresentCode(r, k) PROVE Ready'
    <3>1. req'[r].step \notin Read BY <2>3 DEF PresentCode, Idle, Read, TypeOK
    <3> QED BY <1>0, <2>3, <3>1, ReadySame DEF PresentCode, accounts, TypeOK
  <2>4. ASSUME NEW p \in Passkeys, Find(r, p) PROVE Ready'
    <3>1. req'[r].step \notin Read BY <2>4 DEF Find, Read, TypeOK, ReqType
    <3> QED BY <1>0, <2>4, <3>1, ReadySame DEF Find, accounts, TypeOK
  <2>5. ASSUME NEW p, NEW n, Prove(r, p, n) PROVE Ready'
    <3>1. req'[r].step \notin Read BY <2>5 DEF Prove, Read, TypeOK, ReqType
    <3> QED BY <1>0, <2>5, <3>1, ReadySame DEF Prove, accounts, TypeOK
  <2>6. CASE Lookup(r)
    <3>1. /\ UNCHANGED <<status, owner, counter, holder, codes, session>>
          /\ \A x \in Requests \ {r} : req'[x] = req[x]
          /\ req'[r].step = "lock" /\ req'[r].account = Target(req[r])
          /\ req'[r].kind = req[r].kind /\ req'[r].session = req[r].session
          BY <2>6 DEF Lookup, accounts, TypeOK, ReqType
    <3>2. ReadyFor(r)' BY <3>1 DEF ReadyFor, Target, AccountOf, Settings
    <3>3. ASSUME NEW x \in Requests \ {r} PROVE ReadyFor(x)'
      <4>1. \A a : Steady(a) BY <3>1 DEF Steady
      <4>2. AccountOf(req[x].session)' = AccountOf(req[x].session) BY <3>1, <3>3 DEF AccountOf
      <4> QED BY <1>0, <3>1, <4>1, <4>2, ReadyKept
    <3> QED BY <3>2, <3>3 DEF Ready
  <2>7. ASSUME NEW a \in Account, Acquire(r, a) PROVE Ready'
        BY <1>0, <2>7, ReadySame DEF Acquire, accounts
  <2>8. CASE Check(r)
    <3>1. /\ UNCHANGED <<status, owner, counter, holder, codes, session>>
          /\ \A x \in Requests \ {r} : req'[x] = req[x]
          /\ req[r].step = "lock"
          /\ req' = [req EXCEPT ![r].step = "write"]
          BY <2>8 DEF Check, accounts, TypeOK
    <3>2. PICK q : q = req'[r] OBVIOUS
    <3>3. /\ q.kind = req[r].kind /\ q.account = req[r].account /\ q.session = req[r].session
          /\ q.passkey = req[r].passkey /\ q.wallet = req[r].wallet /\ q.code = req[r].code
          /\ q.counter = req[r].counter /\ q.prev = req[r].prev
          BY <3>1, <3>2 DEF TypeOK, ReqType
    <3>4. q.account # 0 => Active(q.account)
          BY <2>8, <3>1, <3>3 DEF Check, StillActive, Shaped, Shape, Read
    <3>5. q.kind \in Settings => AccountOf(q.session) = q.account
      <4>1. q.kind \in Settings => AccountOf(q.session) \in {0, q.account}
            BY <3>1, <3>3 DEF Ready, ReadyFor, Read
      <4>2. q.kind \in Settings => Fresh(q.session)
            BY <2>8, <3>3 DEF Check, Unchanged, Settings
      <4> QED BY <4>1, <4>2 DEF Fresh, Live, Active
    <3>6. /\ q.kind = "login" => owner[q.passkey] = q.account /\ counter[q.passkey] = q.counter
          /\ q.kind = "wallet" => holder[q.wallet] = q.account
          /\ q.kind = "link" => holder[q.wallet] = 0
                                /\ Cardinality(WalletsOf(q.account)) < WalletLimit
          /\ q.kind = "add" => Cardinality(PasskeysOf(q.account)) < PasskeyLimit
          /\ q.kind = "redeem" => codes[q.code] = q.account
          BY <2>8, <3>3 DEF Check, Unchanged
    <3>7. ReadyFor(r)'
          BY <3>1, <3>2, <3>4, <3>5, <3>6 DEF ReadyFor, Active, AccountOf, WalletsOf, PasskeysOf
    <3>8. ASSUME NEW x \in Requests \ {r} PROVE ReadyFor(x)'
      <4>1. \A a : Steady(a) BY <3>1 DEF Steady
      <4>2. AccountOf(req[x].session)' = AccountOf(req[x].session) BY <3>1, <3>8 DEF AccountOf
      <4> QED BY <1>0, <3>1, <4>1, <4>2, ReadyKept
    <3> QED BY <3>7, <3>8 DEF Ready
  <2>9. CASE Write(r) BY <1>0, <2>9, ReadyWrite
  <2>10. CASE GiveUp(r)
    <3>1. req'[r].step \notin Read BY <2>10 DEF GiveUp, Release, Idle, Read, TypeOK
    <3> QED BY <1>0, <2>10, <3>1, ReadySame DEF GiveUp, Release, accounts, TypeOK
  <2> QED BY <1>1, <2>1, <2>2, <2>3, <2>4, <2>5, <2>6, <2>7, <2>8, <2>9, <2>10 DEF Serve
<1>2. ASSUME NEW kind, NEW s, NEW w, Issue(kind, s, w) PROVE Ready'
      BY <1>0, <1>2, ReadySame DEF Issue, accounts
<1>3. ASSUME NEW s \in Token, EndSession(s) \/ Ages(s) PROVE Ready'
  <2>1. \A u \in Token : RowLocked(u) => session'[u].account = session[u].account
    <3>1. CASE EndSession(s) BY <3>1 DEF EndSession, TypeOK
    <3>2. CASE Ages(s) BY <3>2 DEF Ages, TypeOK, SessionType
    <3> QED BY <1>3, <3>1, <3>2
  <2> QED BY <1>0, <1>3, <2>1, ReadySame DEF EndSession, Ages, accounts
<1>4. ASSUME NEW a \in Account, Disable(a) PROVE Ready'
  <2> SUFFICES ASSUME NEW x \in Requests PROVE ReadyFor(x)' BY DEF Ready
  <2>1. ASSUME req[x].step = "write", req[x].account # 0 PROVE Steady(req[x].account)
    <3>1. req[x].account \in Subjects(req[x]) BY <2>1 DEF Subjects
    <3>2. accountLock[req[x].account] = x BY <2>1, <3>1 DEF Locked, Holders
    <3> QED BY <1>4, <3>2 DEF Disable, Steady, TypeOK
  <2>2. AccountOf(req[x].session)' = AccountOf(req[x].session) /\ req'[x] = req[x]
        /\ UNCHANGED holder
        BY <1>4 DEF Disable, AccountOf
  <2> QED BY <1>0, <2>1, <2>2, ReadyKept
<1>5. CASE UNCHANGED vars
      BY <1>0, <1>5, ReadySame DEF vars, accounts
<1> QED BY <1>1, <1>2, <1>3, <1>4, <1>5 DEF Next

Inv == TypeOK /\ Shaped /\ Locked /\ Ready

LEMMA InvInit == Init => Inv
<1>1. Init => Ready BY DEF Init, Ready, ReadyFor, Idle, Read
<1> QED BY <1>1, TypeInit, ShapeInit, LockedInit DEF Inv

LEMMA InvStep == Inv /\ [Next]_vars => Inv'
BY TypeStep, ShapeStep, LockedStep, ReadyStep DEF Inv

-----------------------------------------------------------------------------
(* What the transactions guarantee.                                        *)

(* A setting commits only while the session it was asked in is there: no   *)
(* logout or recovery is overtaken by a request under way.                 *)
THEOREM SettingsNeedTheirSession == Spec => []ChangesNeedTheirSession
<1>1. Inv => ChangesNeedTheirSession BY DEF Inv, Ready, ReadyFor, ChangesNeedTheirSession
<1> QED BY <1>1, InvInit, InvStep, PTL DEF Spec

(* Only a write gives an account anything.                                 *)
GivesNothing ==
    /\ UNCHANGED <<owner, holder, codes, tokens>>
    /\ \A a \in Account : status[a] # "none" => status'[a] # "none"
    /\ \A s \in Token : session'[s].account \in {0, session[s].account}

LEMMA OnlyWritesGive ==
    ASSUME TypeOK, [Next]_vars, ~\E r \in Requests : Write(r)
    PROVE  GivesNothing
<1>1. UNCHANGED <<status, owner, holder, codes, tokens, session>> => GivesNothing
      BY DEF GivesNothing
<1>2. ASSUME NEW r \in Requests, Serve(r) PROVE GivesNothing
  <2>1. ASSUME NEW c \in Flow, Answer(r, c)
        PROVE  UNCHANGED <<status, owner, holder, codes, tokens, session>>
        BY <2>1 DEF Answer, accounts
  <2>2. ASSUME NEW s \in Token, AskForCodes(r, s)
        PROVE  UNCHANGED <<status, owner, holder, codes, tokens, session>>
        BY <2>2 DEF AskForCodes, accounts
  <2>3. ASSUME NEW k \in Code, PresentCode(r, k)
        PROVE  UNCHANGED <<status, owner, holder, codes, tokens, session>>
        BY <2>3 DEF PresentCode, accounts
  <2>4. ASSUME NEW p, Find(r, p)
        PROVE  UNCHANGED <<status, owner, holder, codes, tokens, session>>
        BY <2>4 DEF Find, accounts
  <2>5. ASSUME NEW p, NEW n, Prove(r, p, n)
        PROVE  UNCHANGED <<status, owner, holder, codes, tokens, session>>
        BY <2>5 DEF Prove, accounts
  <2>6. ASSUME NEW a, Acquire(r, a)
        PROVE  UNCHANGED <<status, owner, holder, codes, tokens, session>>
        BY <2>6 DEF Acquire, accounts
  <2>7. CASE Lookup(r) BY <1>1, <2>7 DEF Lookup, accounts
  <2>8. CASE Check(r) BY <1>1, <2>8 DEF Check, accounts
  <2>9. CASE GiveUp(r) BY <1>1, <2>9 DEF GiveUp, accounts
  <2> QED BY <1>1, <1>2, <2>1, <2>2, <2>3, <2>4, <2>5, <2>6, <2>7, <2>8, <2>9 DEF Serve
<1>3. ASSUME NEW s \in Token, EndSession(s) PROVE GivesNothing
      BY <1>3 DEF GivesNothing, EndSession, NoSession, TypeOK, accounts
<1>4. ASSUME NEW s \in Token, Ages(s) PROVE GivesNothing
      BY <1>4 DEF GivesNothing, Ages, TypeOK, SessionType, accounts
<1>5. ASSUME NEW kind, NEW s, NEW w, Issue(kind, s, w) PROVE GivesNothing
      BY <1>1, <1>5 DEF Issue, accounts
<1>6. ASSUME NEW a \in Account, Disable(a) PROVE GivesNothing
      BY <1>6 DEF GivesNothing, Disable, TypeOK
<1>7. CASE UNCHANGED vars BY <1>1, <1>7 DEF vars, accounts
<1> QED BY <1>2, <1>3, <1>4, <1>5, <1>6, <1>7 DEF Next

(* A disabled account gets no session, passkey, wallet or code from a      *)
(* request that found it active before.                                    *)
THEOREM DisabledGetsNothing == Spec => DisabledStaysShut
<1> DEFINE Kept(a) == /\ \A s \in Token : session'[s].account = a => session[s].account = a
                      /\ PasskeysOf(a)' = PasskeysOf(a) /\ WalletsOf(a)' = WalletsOf(a)
                      /\ \A k \in Code : codes'[k] = a => codes[k] = a
<1>1. ASSUME Inv, [Next]_vars, NEW a \in Account, status[a] = "disabled"
      PROVE  Kept(a)
  <2>1. CASE \E r \in Requests : Write(r)
    <3>1. PICK r \in Requests : Write(r) BY <2>1
    <3>2. req[r].step = "write"
          BY <3>1 DEF Write, Writing, WriteRegister, WriteLogin, WriteWallet, WriteAdd,
                      WriteLink, WriteCodes, WriteRedeem
    <3>3. a # req[r].account
          BY <1>1, <3>2, Bounds DEF Inv, Ready, ReadyFor, Active
    <3>4. /\ Steady(a)
          /\ \A s \in Token : session'[s].account = a => session[s].account = a
          BY <1>1, <3>1, <3>3, WriteFrame DEF Inv
    <3> QED BY <3>4 DEF Steady, PasskeysOf, WalletsOf
  <2>2. CASE ~\E r \in Requests : Write(r)
        BY <1>1, <2>2, OnlyWritesGive, Bounds DEF GivesNothing, Inv, PasskeysOf, WalletsOf
  <2> QED BY <2>1, <2>2
<1>2. Inv /\ [Next]_vars => [\A a \in Account : status[a] = "disabled" => Kept(a)]_vars
      BY <1>1
<1> QED BY <1>2, InvInit, InvStep, PTL DEF Spec, DisabledStaysShut

(* A login ends the session it was made under, a recovery every session of *)
(* its account, in the transaction that opens the new one.                 *)
THEOREM LoginsRotate == Spec => LoginRotates
<1> DEFINE Rotates == \A r \in Requests : tokens' # tokens /\ req[r] # Idle /\ req'[r] = Idle =>
        \A s \in 1 .. tokens :
            \/ s = req[r].session
            \/ req[r].kind = "redeem" /\ session[s].account = req[r].account
            => session'[s] = NoSession
<1>1. ASSUME Inv, [Next]_vars, NEW r \in Requests, tokens' # tokens, req[r] # Idle,
             req'[r] = Idle, NEW s \in 1 .. tokens,
             \/ s = req[r].session
             \/ req[r].kind = "redeem" /\ session[s].account = req[r].account
      PROVE  session'[s] = NoSession
  <2>1. PICK x \in Requests : Write(x) BY <1>1, OnlyWritesGive DEF GivesNothing, Inv
  <2>2. x = r
    <3>1. \A y \in Requests \ {x} : req'[y] = req[y]
          BY <1>1, <2>1 DEF Write, Writing, WriteRegister, WriteLogin, WriteWallet, WriteAdd,
                      WriteLink, WriteCodes, WriteRedeem, Release, Inv, TypeOK
    <3> QED BY <1>1, <3>1
  <2>3. s \in Token /\ s # tokens + 1 BY <1>1, Bounds DEF Inv, TypeOK
  <2>4. ASSUME NEW a, NEW method, NEW ended, NewSession(req[r], a, method, ended), s \in ended
        PROVE  session'[s] = NoSession
        BY <2>3, <2>4 DEF NewSession
  <2>5. CASE WriteRegister(r) \/ WriteLogin(r) \/ WriteWallet(r)
    <3>1. s \in Ended(req[r])
          BY <1>1, <2>5 DEF Ended, WriteRegister, WriteLogin, WriteWallet, Writing
    <3> QED BY <2>4, <2>5, <3>1 DEF WriteRegister, WriteLogin, WriteWallet
  <2>6. CASE WriteRedeem(r)
    <3>1. req[r].kind = "redeem" /\ req[r].session = 0
          BY <1>1, <2>6 DEF WriteRedeem, Writing, Inv, Shaped, Shape
    <3>2. s \in Revoked(req[r]) BY <1>1, <2>3, <3>1 DEF Revoked
    <3> QED BY <2>4, <2>6, <3>2 DEF WriteRedeem
  <2>7. CASE WriteAdd(r) \/ WriteLink(r) \/ WriteCodes(r)
        BY <1>1, <2>7 DEF WriteAdd, WriteLink, WriteCodes
  <2> QED BY <2>1, <2>2, <2>5, <2>6, <2>7 DEF Write
<1>2. Inv /\ [Next]_vars => [Rotates]_vars BY <1>1
<1> QED BY <1>2, InvInit, InvStep, PTL DEF Spec, LoginRotates

-----------------------------------------------------------------------------
(* Limits.                                                                 *)

(* An account that is not there yet has nothing.                           *)
Unborn ==
    \A a \in Account : status[a] = "none" => PasskeysOf(a) = {} /\ WalletsOf(a) = {}

LEMMA FiniteRows ==
    \A a : /\ IsFiniteSet(PasskeysOf(a)) /\ Cardinality(PasskeysOf(a)) \in Nat
           /\ IsFiniteSet(WalletsOf(a)) /\ Cardinality(WalletsOf(a)) \in Nat
<1> TAKE a
<1>1. PasskeysOf(a) \subseteq Passkeys /\ WalletsOf(a) \subseteq Wallets
      BY DEF PasskeysOf, WalletsOf
<1>2. IsFiniteSet(Passkeys) /\ IsFiniteSet(Wallets)
      BY AccountsAssumption DEF AccountsAssumption
<1> QED BY <1>1, <1>2, FS_Subset, FS_CardinalityType

LEMMA OneMore ==
    ASSUME NEW S, NEW T, NEW x, IsFiniteSet(S), NEW n \in Nat, T \subseteq S \cup {x},
           Cardinality(S) < n
    PROVE  Cardinality(T) <= n
<1>1. /\ IsFiniteSet(S \cup {x}) /\ Cardinality(S \cup {x}) \in Nat
      /\ Cardinality(S \cup {x}) <= Cardinality(S) + 1
      BY FS_AddElement, FS_CardinalityType
<1>2. Cardinality(T) \in Nat /\ Cardinality(T) <= Cardinality(S \cup {x})
      BY <1>1, FS_Subset, FS_CardinalityType
<1>3. Cardinality(S) \in Nat BY FS_CardinalityType
<1> QED BY <1>1, <1>2, <1>3

LEMMA LimitsInit == Init => Unborn /\ WithinLimits
<1> SUFFICES ASSUME Init PROVE Unborn /\ WithinLimits OBVIOUS
<1>1. \A a \in Account : WalletsOf(a) = {} BY Bounds DEF Init, WalletsOf
<1>2. \A a \in Account : PasskeysOf(a) = {p \in Passkeys : InitialOwner[p] = a}
      BY DEF Init, PasskeysOf
<1>3. Unborn BY <1>1, <1>2 DEF Init, Unborn, Registered
<1>4. Cardinality({}) = 0 BY FS_EmptySet
<1>5. WithinLimits
  <2> SUFFICES ASSUME NEW a \in Account
               PROVE  /\ Cardinality(PasskeysOf(a)) <= PasskeyLimit
                      /\ Cardinality(WalletsOf(a)) <= WalletLimit
      BY DEF WithinLimits
  <2>1. Cardinality({p \in Passkeys : InitialOwner[p] = a}) <= PasskeyLimit
        BY AccountsAssumption DEF AccountsAssumption
  <2>2. Cardinality(PasskeysOf(a)) <= PasskeyLimit BY <1>2, <2>1, Zenon
  <2>3. Cardinality(WalletsOf(a)) = 0 BY <1>1, <1>4
  <2> QED BY <2>2, <2>3, Bounds
<1> QED BY <1>3, <1>5

LEMMA LimitsStep == Inv /\ Unborn /\ WithinLimits /\ [Next]_vars => (Unborn /\ WithinLimits)'
<1> SUFFICES ASSUME Inv, Unborn, WithinLimits, [Next]_vars
             PROVE  (Unborn /\ WithinLimits)'
    OBVIOUS
<1> USE Bounds
<1>0. TypeOK BY DEF Inv
<1>1. SUFFICES ASSUME NEW a \in Account
               PROVE  /\ status'[a] = "none" => PasskeysOf(a)' = {} /\ WalletsOf(a)' = {}
                      /\ Cardinality(PasskeysOf(a)') <= PasskeyLimit
                      /\ Cardinality(WalletsOf(a)') <= WalletLimit
      BY DEF Unborn, WithinLimits
<1>2. CASE /\ PasskeysOf(a)' = PasskeysOf(a) /\ WalletsOf(a)' = WalletsOf(a)
           /\ status[a] # "none" => status'[a] # "none"
      BY <1>2 DEF Unborn, WithinLimits
<1>3. CASE ~\E r \in Requests : Write(r)
      BY <1>0, <1>2, <1>3, OnlyWritesGive DEF GivesNothing, PasskeysOf, WalletsOf
<1>4. ASSUME NEW r \in Requests, Write(r)
      PROVE  /\ status'[a] = "none" => PasskeysOf(a)' = {} /\ WalletsOf(a)' = {}
             /\ Cardinality(PasskeysOf(a)') <= PasskeyLimit
             /\ Cardinality(WalletsOf(a)') <= WalletLimit
  <2>0. /\ req[r].step = "write" /\ ReadyFor(r)
        /\ Shape(req[r], tokens, drawn, AccountOf(req[r].session))
        /\ req[r].wallet \in Wallets \cup {Nobody}
        BY <1>0, <1>4, FieldsTyped DEF Write, Writing, WriteRegister, WriteLogin, WriteWallet,
              WriteAdd, WriteLink, WriteCodes, WriteRedeem, Inv, Ready, Shaped, TypeOK
  <2>1. ASSUME NewAccount(a), PasskeysOf(a)' \subseteq {req[r].passkey},
               WalletsOf(a)' \subseteq {req[r].wallet}
        PROVE  /\ status'[a] = "none" => PasskeysOf(a)' = {} /\ WalletsOf(a)' = {}
               /\ Cardinality(PasskeysOf(a)') <= PasskeyLimit
               /\ Cardinality(WalletsOf(a)') <= WalletLimit
    <3>1. status'[a] = "active" BY <1>0, <2>1 DEF NewAccount, TypeOK
    <3>2. IsFiniteSet({}) /\ Cardinality({}) = 0 BY FS_EmptySet
    <3>3. ASSUME NEW T, NEW x, NEW n \in Nat \ {0}, T \subseteq {x}
          PROVE  Cardinality(T) <= n
      <4>1. T \subseteq {} \cup {x} /\ Cardinality({}) < n BY <3>2, <3>3
      <4> QED BY <3>2, <4>1, OneMore
    <3>4. Cardinality(PasskeysOf(a)') <= PasskeyLimit BY <2>1, <3>3
    <3>5. Cardinality(WalletsOf(a)') <= WalletLimit BY <2>1, <3>3
    <3> QED BY <3>1, <3>4, <3>5
  <2>2. CASE WriteRegister(r)
    <3>1. PICK b \in Account : /\ NewAccount(b)
                               /\ owner' = [owner EXCEPT ![req[r].passkey] = b]
          BY <2>2 DEF WriteRegister
    <3>2. owner[req[r].passkey] = 0 /\ holder' = holder BY <2>2 DEF WriteRegister
    <3>3. CASE a = b
      <4>1. PasskeysOf(b) = {} /\ WalletsOf(b) = {}
            BY <3>1 DEF NewAccount, Unborn
      <4>2. PasskeysOf(a)' \subseteq {req[r].passkey} /\ WalletsOf(a)' = {}
            BY <1>0, <3>1, <3>2, <3>3, <4>1 DEF PasskeysOf, WalletsOf, TypeOK
      <4> QED BY <2>1, <3>1, <3>3, <4>2
    <3>4. CASE a # b
      <4>1. PasskeysOf(a)' = PasskeysOf(a) /\ WalletsOf(a)' = WalletsOf(a)
            BY <1>0, <3>1, <3>2, <3>4 DEF PasskeysOf, WalletsOf, TypeOK
      <4> QED BY <1>0, <1>2, <3>1, <3>4, <4>1 DEF NewAccount, TypeOK
    <3> QED BY <3>3, <3>4
  <2>3. CASE WriteWallet(r)
    <3>1. owner' = owner /\ req[r].kind = "wallet" /\ req[r].wallet \in Wallets
          BY <2>0, <2>3 DEF WriteWallet, Writing, Shape
    <3>2. CASE UNCHANGED <<status, holder>>
          BY <1>2, <3>1, <3>2 DEF PasskeysOf, WalletsOf
    <3>3. ASSUME NEW b \in Account, NewAccount(b), req[r].account = 0,
                 holder' = [holder EXCEPT ![req[r].wallet] = b]
          PROVE  /\ status'[a] = "none" => PasskeysOf(a)' = {} /\ WalletsOf(a)' = {}
                 /\ Cardinality(PasskeysOf(a)') <= PasskeyLimit
                 /\ Cardinality(WalletsOf(a)') <= WalletLimit
      <4>1. holder[req[r].wallet] = 0 BY <2>0, <3>1, <3>3 DEF ReadyFor
      <4>2. CASE a = b
        <5>1. PasskeysOf(b) = {} /\ WalletsOf(b) = {}
              BY <3>3 DEF NewAccount, Unborn
        <5>2. PasskeysOf(a)' = {} /\ WalletsOf(a)' \subseteq {req[r].wallet}
              BY <1>0, <3>1, <3>3, <4>2, <5>1 DEF PasskeysOf, WalletsOf, TypeOK
        <5> QED BY <2>1, <3>3, <4>2, <5>2
      <4>3. CASE a # b
        <5>1. PasskeysOf(a)' = PasskeysOf(a) /\ WalletsOf(a)' = WalletsOf(a)
              BY <1>0, <3>1, <3>3, <4>1, <4>3 DEF PasskeysOf, WalletsOf, TypeOK
        <5> QED BY <1>0, <1>2, <3>3, <4>3, <5>1 DEF NewAccount, TypeOK
      <4> QED BY <4>2, <4>3
    <3> QED BY <2>3, <3>2, <3>3 DEF WriteWallet
  <2>4. CASE WriteAdd(r)
    <3>1. /\ req[r].kind = "add" /\ req[r].account # 0 /\ owner[req[r].passkey] = 0
          /\ owner' = [owner EXCEPT ![req[r].passkey] = req[r].account]
          /\ UNCHANGED <<status, holder>>
          BY <2>0, <2>4 DEF WriteAdd, Writing, Shape, Read, Settings
    <3>2. CASE a = req[r].account
      <4>1. Cardinality(PasskeysOf(a)) < PasskeyLimit BY <2>0, <3>1, <3>2 DEF ReadyFor
      <4>2. PasskeysOf(a)' \subseteq PasskeysOf(a) \cup {req[r].passkey}
            BY <1>0, <3>1, <3>2 DEF PasskeysOf, TypeOK
      <4>3. Cardinality(PasskeysOf(a)') <= PasskeyLimit BY <4>1, <4>2, FiniteRows, OneMore
      <4>4. WalletsOf(a)' = WalletsOf(a) BY <3>1 DEF WalletsOf
      <4>5. status[a] = "active" BY <2>0, <3>1, <3>2 DEF ReadyFor, Active
      <4> QED BY <3>1, <4>3, <4>4, <4>5 DEF WithinLimits
    <3>3. CASE a # req[r].account
      <4>1. PasskeysOf(a)' = PasskeysOf(a) /\ WalletsOf(a)' = WalletsOf(a)
            BY <1>0, <3>1, <3>3 DEF PasskeysOf, WalletsOf, TypeOK
      <4> QED BY <1>2, <3>1, <4>1
    <3> QED BY <3>2, <3>3
  <2>5. CASE WriteLink(r)
    <3>1. /\ req[r].kind = "link" /\ req[r].account # 0
          /\ holder' = [holder EXCEPT ![req[r].wallet] = req[r].account]
          /\ UNCHANGED <<status, owner>>
          BY <2>0, <2>5 DEF WriteLink, Writing, Shape, Read, Settings
    <3>2. holder[req[r].wallet] = 0 /\ Cardinality(WalletsOf(req[r].account)) < WalletLimit
          BY <2>0, <3>1 DEF ReadyFor
    <3>3. CASE a = req[r].account
      <4>2. WalletsOf(a)' \subseteq WalletsOf(a) \cup {req[r].wallet}
            BY <1>0, <3>1, <3>3 DEF WalletsOf, TypeOK
      <4>3. Cardinality(WalletsOf(a)') <= WalletLimit BY <3>2, <3>3, <4>2, FiniteRows, OneMore
      <4>4. PasskeysOf(a)' = PasskeysOf(a) BY <3>1 DEF PasskeysOf
      <4>5. status[a] = "active" BY <2>0, <3>1, <3>3 DEF ReadyFor, Active
      <4> QED BY <3>1, <4>3, <4>4, <4>5 DEF WithinLimits
    <3>4. CASE a # req[r].account
      <4>1. PasskeysOf(a)' = PasskeysOf(a) /\ WalletsOf(a)' = WalletsOf(a)
            BY <1>0, <3>1, <3>2, <3>4 DEF PasskeysOf, WalletsOf, TypeOK
      <4> QED BY <1>2, <3>1, <4>1
    <3> QED BY <3>3, <3>4
  <2>6. CASE WriteLogin(r) \/ WriteCodes(r) \/ WriteRedeem(r)
        BY <1>2, <2>6 DEF WriteLogin, WriteCodes, WriteRedeem, PasskeysOf, WalletsOf
  <2> QED BY <1>4, <2>2, <2>3, <2>4, <2>5, <2>6 DEF Write
<1> QED BY <1>3, <1>4

(* No account ever has more passkeys or wallets than its limits, though    *)
(* each request counts them long before it inserts one.                    *)
THEOREM LimitsHold == Spec => []WithinLimits
BY LimitsInit, LimitsStep, InvInit, InvStep, PTL DEF Spec

-----------------------------------------------------------------------------
(* Proofs are spent.                                                       *)

Consumed(c) == c \in 1 .. flows /\ flow[c] = NoFlow
Redeemed(k) == k \in 1 .. drawn /\ codes[k] = 0
Counted(p, n) == p \in Passkeys /\ owner[p] # 0 /\ n <= counter[p]

Spent ==
    /\ \A r \in Requests : req[r].flow # 0 =>
          /\ Consumed(req[r].flow)
          /\ \A s \in 1 .. tokens : granted[s].flow # req[r].flow
          /\ \A x \in Requests \ {r} : req[x].flow # req[r].flow
    /\ \A s \in 1 .. tokens :
          /\ granted[s].flow # 0 => Consumed(granted[s].flow)
          /\ granted[s].code # 0 => Redeemed(granted[s].code)
          /\ granted[s].counter # 0 => Counted(granted[s].passkey, granted[s].counter)
    /\ OneSessionPerProof

(* What is consumed, redeemed or counted stays so.                         *)
StaysSpent ==
    /\ \A c : Consumed(c) => Consumed(c)'
    /\ \A k : Redeemed(k) => Redeemed(k)'
    /\ \A p : \A n \in Counter : Counted(p, n) => Counted(p, n)'

LEMMA WriteStaysSpent ==
    ASSUME Inv, NEW r \in Requests, Write(r)
    PROVE  StaysSpent
<1> USE Bounds
<1>0. /\ TypeOK /\ ReadyFor(r) /\ req[r].step = "write"
      /\ Shape(req[r], tokens, drawn, AccountOf(req[r].session))
      /\ req[r].next \in Counter /\ req[r].counter \in Counter
      /\ tokens \in 0 .. MaxTokens /\ drawn \in 0 .. MaxCodes /\ flows \in 0 .. MaxFlows
      BY FieldsTyped DEF Write, Writing, WriteRegister, WriteLogin, WriteWallet,
              WriteAdd, WriteLink, WriteCodes, WriteRedeem, Inv, Ready, Shaped, TypeOK
<1>1. \A c : Consumed(c) => Consumed(c)'
  <2>1. CASE WriteRedeem(r) BY <1>0, <2>1 DEF WriteRedeem, Consumed
  <2>2. CASE UNCHANGED <<flow, flows>> BY <2>2 DEF Consumed
  <2> QED BY <2>1, <2>2 DEF Write, WriteRegister, WriteLogin, WriteWallet, WriteAdd,
                            WriteLink, WriteCodes
<1>2. \A k : Redeemed(k) => Redeemed(k)'
  <2>1. CASE WriteRedeem(r) BY <1>0, <2>1 DEF WriteRedeem, Redeemed, TypeOK
  <2>2. CASE WriteCodes(r)
    <3>1. ASSUME NEW k, Redeemed(k) PROVE Redeemed(k)'
      <4>1. /\ drawn' = drawn + CodeCount /\ drawn' \in Nat /\ drawn \in Nat
            /\ k \in Code /\ k \in 1 .. drawn'
            /\ k \notin drawn + 1 .. drawn + CodeCount /\ codes[k] = 0
            BY <1>0, <2>2, <3>1 DEF WriteCodes, Redeemed
      <4>2. codes'[k] = 0 BY <2>2, <4>1 DEF WriteCodes
      <4> QED BY <4>1, <4>2 DEF Redeemed
    <3> QED BY <3>1
  <2>3. CASE UNCHANGED <<codes, drawn>> BY <2>3 DEF Redeemed
  <2> QED BY <2>1, <2>2, <2>3 DEF Write, WriteRegister, WriteLogin, WriteWallet, WriteAdd,
                            WriteLink
<1>3. ASSUME NEW p, NEW n \in Counter, Counted(p, n) PROVE Counted(p, n)'
  <2>0. p \in Passkeys /\ owner[p] # 0 /\ n <= counter[p] /\ counter[p] \in Counter
        BY <1>0, <1>3 DEF Counted, TypeOK
  <2>1. CASE WriteLogin(r)
    <3>1. /\ req[r].kind = "login" /\ owner' = owner
          /\ counter' = [counter EXCEPT ![req[r].passkey] = req[r].next]
          BY <2>1 DEF WriteLogin, Writing
    <3>2. Grows(req[r].counter, req[r].next) /\ counter[req[r].passkey] = req[r].counter
          BY <1>0, <3>1 DEF Shape, Read, ReadyFor
    <3>3. counter'[p] >= counter[p]
          BY <1>0, <2>0, <3>1, <3>2 DEF TypeOK, Grows
    <3>4. counter'[p] \in Counter BY <1>0, <2>0, <3>1 DEF TypeOK
    <3> QED BY <2>0, <3>1, <3>3, <3>4 DEF Counted
  <2>2. CASE WriteRegister(r) BY <1>0, <2>0, <2>2 DEF WriteRegister, Counted, TypeOK
  <2>3. CASE WriteAdd(r) BY <1>0, <2>0, <2>3 DEF WriteAdd, Counted, TypeOK
  <2>4. CASE UNCHANGED <<owner, counter>> BY <2>0, <2>4 DEF Counted
  <2> QED BY <2>1, <2>2, <2>3, <2>4 DEF Write, WriteWallet, WriteLink, WriteCodes, WriteRedeem
<1> QED BY <1>1, <1>2, <1>3 DEF StaysSpent

(* A step that opens no session and consumes no challenge.                 *)
LEMMA SpentKept ==
    ASSUME TypeOK, Spent, StaysSpent, UNCHANGED <<tokens, granted>>,
           \A x \in Requests : req'[x].flow \in {0, req[x].flow}
    PROVE  Spent'
<1>1. \A s \in 1 .. tokens : granted[s].counter \in Counter
      BY Bounds DEF TypeOK
<1>2. \A r \in Requests : req'[r].flow # 0 =>
          /\ Consumed(req[r].flow)'
          /\ \A s \in 1 .. tokens' : granted'[s].flow # req'[r].flow
          /\ \A x \in Requests \ {r} : req'[x].flow # req'[r].flow
  <2> TAKE r \in Requests
  <2> HAVE req'[r].flow # 0
  <2>1. PICK c : c = req[r].flow /\ c = req'[r].flow /\ c # 0 OBVIOUS
  <2>2. Consumed(c) BY <2>1 DEF Spent
  <2>3. Consumed(c)' BY <2>2 DEF StaysSpent
  <2>4. /\ \A s \in 1 .. tokens' : granted'[s].flow # c
        /\ \A x \in Requests \ {r} : req'[x].flow # c
        BY <2>1 DEF Spent
  <2> QED BY <2>1, <2>3, <2>4 DEF Consumed
<1>3. \A s \in 1 .. tokens' :
          /\ granted'[s].flow # 0 => Consumed(granted[s].flow)'
          /\ granted'[s].code # 0 => Redeemed(granted[s].code)'
          /\ granted'[s].counter # 0 => Counted(granted[s].passkey, granted[s].counter)'
  <2> TAKE s \in 1 .. tokens'
  <2>1. PICK g : g = granted[s] /\ g = granted'[s] OBVIOUS
  <2>2. /\ g.flow # 0 => Consumed(g.flow)
        /\ g.code # 0 => Redeemed(g.code)
        /\ g.counter # 0 => Counted(g.passkey, g.counter)
        BY <2>1 DEF Spent
  <2>3. g.counter \in Counter BY <1>1, <2>1
  <2>4. /\ g.flow # 0 => Consumed(g.flow)'
        /\ g.code # 0 => Redeemed(g.code)'
        /\ g.counter # 0 => Counted(g.passkey, g.counter)'
        BY <2>2, <2>3 DEF StaysSpent
  <2> QED BY <2>1, <2>4 DEF Consumed, Redeemed, Counted
<1>4. OneSessionPerProof' BY DEF Spent, OneSessionPerProof
<1> QED BY <1>2, <1>3, <1>4 DEF Spent, Consumed, Redeemed, Counted

(* A new session comes from a proof that no earlier one came from.         *)
LEMMA SpentGranted ==
    ASSUME Inv, Spent, StaysSpent, NEW r \in Requests, NEW q, q = req[r], NEW a, NEW method,
           NEW ended, NewSession(q, a, method, ended), Release(r),
           q.code # 0 => codes[q.code] # 0 /\ Redeemed(q.code)',
           q.next # 0 => /\ Counted(q.passkey, q.next)'
                         /\ owner[q.passkey] = 0 \/ q.next > counter[q.passkey]
    PROVE  Spent'
<1> USE Bounds
<1>0. /\ TypeOK /\ tokens \in Nat /\ tokens' = tokens + 1 /\ tokens + 1 \in Token
  <2>1. TypeOK /\ tokens \in 0 .. MaxTokens BY DEF Inv, TypeOK
  <2>2. tokens < MaxTokens /\ tokens' = tokens + 1 BY DEF NewSession
  <2> QED BY <2>1, <2>2
<1>1. PICK g : g = [flow |-> q.flow, code |-> q.code, passkey |-> q.passkey, counter |-> q.next]
      OBVIOUS
<1>2. granted'[tokens + 1] = g /\ \A s \in 1 .. tokens : granted'[s] = granted[s]
      BY <1>0, <1>1 DEF NewSession, TypeOK
<1>3. g.flow = q.flow /\ g.code = q.code /\ g.passkey = q.passkey /\ g.counter = q.next
      BY <1>1
<1>4. q.next \in Counter BY <1>0, FieldsTyped DEF TypeOK
<1>5. ASSUME NEW s \in 1 .. tokens
      PROVE  /\ g.flow # 0 => granted[s].flow # g.flow
             /\ g.code # 0 => granted[s].code # g.code
             /\ g.counter # 0 => granted[s].passkey # g.passkey \/ granted[s].counter # g.counter
  <2>1. g.flow # 0 => granted[s].flow # g.flow BY <1>3 DEF Spent
  <2>2. g.code # 0 => granted[s].code # g.code BY <1>3 DEF Spent, Redeemed
  <2>3. ASSUME g.counter # 0, granted[s].passkey = g.passkey, granted[s].counter = g.counter
        PROVE  FALSE
    <3>1. Counted(q.passkey, q.next) BY <1>3, <2>3 DEF Spent
    <3>2. counter[q.passkey] \in Counter BY <1>0, <3>1 DEF Counted, TypeOK
    <3> QED BY <1>3, <1>4, <2>3, <3>1, <3>2 DEF Counted
  <2> QED BY <2>1, <2>2, <2>3
<1>6. \A x \in Requests : req'[x].flow \in {0, req[x].flow} /\ (x = r => req'[x].flow = 0)
      BY <1>0 DEF Release, Idle, TypeOK
<1>7. ASSUME NEW x \in Requests, req'[x].flow # 0
      PROVE  /\ Consumed(req[x].flow)'
             /\ \A s \in 1 .. tokens' : granted'[s].flow # req'[x].flow
             /\ \A y \in Requests \ {x} : req'[y].flow # req'[x].flow
  <2>1. PICK c : c = req[x].flow /\ c = req'[x].flow /\ c # 0 /\ x # r BY <1>6, <1>7
  <2>2. Consumed(c) /\ (\A s \in 1 .. tokens : granted[s].flow # c)
        /\ \A y \in Requests \ {x} : req[y].flow # c
        BY <2>1 DEF Spent
  <2>3. Consumed(c)' BY <2>2 DEF StaysSpent
  <2>4. \A s \in 1 .. tokens' : granted'[s].flow # c
    <3> TAKE s \in 1 .. tokens'
    <3>1. CASE s = tokens + 1 BY <1>2, <1>3, <2>1, <2>2, <3>1
    <3>2. CASE s # tokens + 1 BY <1>0, <1>2, <2>2, <3>2
    <3> QED BY <3>1, <3>2
  <2>5. \A y \in Requests \ {x} : req'[y].flow # c BY <1>6, <2>1, <2>2
  <2> QED BY <2>1, <2>3, <2>4, <2>5 DEF Consumed
<1>8. ASSUME NEW s \in 1 .. tokens'
      PROVE  /\ granted'[s].flow # 0 => Consumed(granted[s].flow)'
             /\ granted'[s].code # 0 => Redeemed(granted[s].code)'
             /\ granted'[s].counter # 0 => Counted(granted[s].passkey, granted[s].counter)'
  <2>1. CASE s = tokens + 1
    <3>1. g.flow # 0 => Consumed(g.flow)' BY <1>3 DEF Spent, StaysSpent
    <3> QED BY <1>2, <1>3, <2>1, <3>1 DEF Consumed, Redeemed, Counted
  <2>2. CASE s # tokens + 1
    <3>0. s \in 1 .. tokens BY <1>0, <2>2
    <3>1. PICK h : h = granted[s] /\ h = granted'[s] BY <1>2, <3>0
    <3>2. /\ h.flow # 0 => Consumed(h.flow)
          /\ h.code # 0 => Redeemed(h.code)
          /\ h.counter # 0 => Counted(h.passkey, h.counter)
          BY <3>0, <3>1 DEF Spent
    <3>3. h.counter \in Counter
      <4>1. s \in Token BY <1>0, <3>0
      <4>2. granted[s].counter \in Counter BY <1>0, <4>1 DEF TypeOK
      <4> QED BY <3>1, <4>2
    <3>4. /\ h.flow # 0 => Consumed(h.flow)'
          /\ h.code # 0 => Redeemed(h.code)'
          /\ h.counter # 0 => Counted(h.passkey, h.counter)'
          BY <3>2, <3>3 DEF StaysSpent
    <3> QED BY <3>1, <3>4 DEF Consumed, Redeemed, Counted
  <2> QED BY <2>1, <2>2
<1>9. OneSessionPerProof'
  <2> SUFFICES ASSUME NEW s \in 1 .. tokens', NEW u \in 1 .. tokens', s # u
               PROVE  LET p == granted'[s]  o == granted'[u] IN
                        /\ p.flow # 0 => p.flow # o.flow
                        /\ p.code # 0 => p.code # o.code
                        /\ p.counter # 0 => p.passkey # o.passkey \/ p.counter # o.counter
      BY DEF OneSessionPerProof
  <2>1. CASE s = tokens + 1
    <3>1. u \in 1 .. tokens /\ granted'[u] = granted[u] BY <1>0, <1>2, <2>1
    <3> QED BY <1>2, <1>5, <2>1, <3>1
  <2>2. CASE u = tokens + 1
    <3>1. s \in 1 .. tokens /\ granted'[s] = granted[s] BY <1>0, <1>2, <2>2
    <3> QED BY <1>2, <1>5, <2>2, <3>1
  <2>3. CASE s # tokens + 1 /\ u # tokens + 1
    <3>1. s \in 1 .. tokens /\ u \in 1 .. tokens /\ granted'[s] = granted[s]
          /\ granted'[u] = granted[u]
          BY <1>0, <1>2, <2>3
    <3> QED BY <3>1 DEF Spent, OneSessionPerProof
  <2> QED BY <2>1, <2>2, <2>3
<1> QED BY <1>7, <1>8, <1>9 DEF Spent, Consumed, Redeemed, Counted

LEMMA SpentWrite ==
    ASSUME Inv, Spent, NEW r \in Requests, Write(r)
    PROVE  Spent'
<1> USE Bounds
<1>1. PICK q : q = req[r] OBVIOUS
<1>2. /\ StaysSpent /\ TypeOK /\ q.step = "write" /\ q \in ReqType /\ Release(r) /\ ReadyFor(r)
      /\ Shape(q, tokens, drawn, AccountOf(q.session))
      BY <1>1, WriteStaysSpent DEF Write, Writing, WriteRegister, WriteLogin, WriteWallet,
              WriteAdd, WriteLink, WriteCodes, WriteRedeem, Inv, Ready, Shaped, TypeOK
<1>3. q.next \in Counter /\ q.counter \in Counter /\ q.account \in 0 .. MaxAccounts
      BY <1>2, FieldsTyped
<1>4. CASE WriteRegister(r)
  <2>1. PICK b \in Account : /\ owner' = [owner EXCEPT ![q.passkey] = b]
                             /\ NewSession(q, b, "passkey", Ended(q))
        BY <1>1, <1>4 DEF WriteRegister
  <2>2. /\ q.kind = "register" /\ owner[q.passkey] = 0
        /\ counter' = [counter EXCEPT ![q.passkey] = q.next]
        BY <1>1, <1>4 DEF WriteRegister, Writing
  <2>3. q.code = 0 /\ q.passkey \in Passkeys BY <1>2, <2>2 DEF Shape
  <2>4. Counted(q.passkey, q.next)'
        BY <1>2, <1>3, <2>1, <2>2, <2>3 DEF Counted, TypeOK
  <2> QED BY <1>1, <1>2, <2>1, <2>2, <2>3, <2>4, SpentGranted
<1>5. CASE WriteLogin(r)
  <2>1. /\ q.kind = "login" /\ owner' = owner
        /\ counter' = [counter EXCEPT ![q.passkey] = q.next]
        /\ NewSession(q, q.account, "passkey", Ended(q))
        BY <1>1, <1>5 DEF WriteLogin, Writing
  <2>2. /\ q.code = 0 /\ q.passkey \in Passkeys /\ q.account # 0
        /\ Grows(q.counter, q.next)
        BY <1>2, <2>1 DEF Shape, Read
  <2>3. owner[q.passkey] = q.account /\ counter[q.passkey] = q.counter
        BY <1>1, <1>2, <2>1 DEF ReadyFor
  <2>4. Counted(q.passkey, q.next)'
        BY <1>2, <1>3, <2>1, <2>2, <2>3 DEF Counted, TypeOK
  <2>5. q.next # 0 => q.next > counter[q.passkey]
        BY <2>2, <2>3 DEF Grows
  <2> QED BY <1>1, <1>2, <2>1, <2>2, <2>4, <2>5, SpentGranted
<1>6. CASE WriteWallet(r)
  <2>1. q.kind = "wallet" BY <1>1, <1>6 DEF WriteWallet, Writing
  <2>2. q.code = 0 /\ q.next = 0 BY <1>2, <2>1 DEF Shape
  <2>3. PICK b : NewSession(q, b, "wallet", Ended(q)) BY <1>1, <1>6 DEF WriteWallet
  <2> QED BY <1>1, <1>2, <2>2, <2>3, SpentGranted
<1>7. CASE WriteRedeem(r)
  <2>1. /\ q.kind = "redeem" /\ NewSession(q, q.account, "recovery", Revoked(q))
        /\ codes' = [codes EXCEPT ![q.code] = 0] /\ drawn' = drawn
        BY <1>1, <1>7 DEF WriteRedeem, Writing
  <2>2. q.next = 0 /\ q.code \in 1 .. drawn /\ q.account # 0
        BY <1>2, <2>1 DEF Shape, Read
  <2>3. codes[q.code] = q.account BY <1>1, <1>2, <2>1 DEF ReadyFor
  <2>4. Redeemed(q.code)' BY <1>2, <2>1, <2>2 DEF Redeemed, TypeOK
  <2> QED BY <1>1, <1>2, <2>1, <2>2, <2>3, <2>4, SpentGranted
<1>8. CASE WriteAdd(r) \/ WriteLink(r) \/ WriteCodes(r)
  <2>1. UNCHANGED <<tokens, granted>> BY <1>8 DEF WriteAdd, WriteLink, WriteCodes
  <2>2. \A x \in Requests : req'[x].flow \in {0, req[x].flow}
        BY <1>2 DEF Release, Idle, TypeOK
  <2> QED BY <1>2, <2>1, <2>2, SpentKept
<1> QED BY <1>4, <1>5, <1>6, <1>7, <1>8 DEF Write

LEMMA SpentStep == Inv /\ Spent /\ [Next]_vars => Spent'
<1> SUFFICES ASSUME Inv, Spent, [Next]_vars PROVE Spent' OBVIOUS
<1> USE Bounds
<1>0. /\ TypeOK /\ tokens \in 0 .. MaxTokens /\ drawn \in 0 .. MaxCodes
      /\ flows \in 0 .. MaxFlows
      BY DEF Inv, TypeOK
<1>1. ASSUME UNCHANGED <<flow, flows, codes, drawn, owner, counter, tokens, granted>>,
             \A x \in Requests : req'[x].flow \in {0, req[x].flow}
      PROVE  Spent'
  <2>1. StaysSpent BY <1>1 DEF StaysSpent, Consumed, Redeemed, Counted
  <2> QED BY <1>0, <1>1, <2>1, SpentKept
<1>2. ASSUME NEW kind, NEW s, NEW w, Issue(kind, s, w) PROVE Spent'
  <2>1. PICK f : /\ flow' = [flow EXCEPT ![flows + 1] = f] /\ flows' = flows + 1
                 /\ UNCHANGED <<codes, drawn, owner, counter, tokens, granted, req>>
                 /\ flows < MaxFlows
        BY <1>2 DEF Issue, accounts
  <2>2. \A c : Consumed(c) => Consumed(c)' BY <1>0, <2>1 DEF Consumed, TypeOK
  <2>3. StaysSpent BY <2>1, <2>2 DEF StaysSpent, Redeemed, Counted
  <2> QED BY <1>0, <2>1, <2>3, SpentKept
<1>3. ASSUME NEW r \in Requests, NEW c \in Flow, Answer(r, c) PROVE Spent'
  <2>1. /\ flow[c] # NoFlow /\ flow' = [flow EXCEPT ![c] = NoFlow] /\ req[r] = Idle
        /\ UNCHANGED <<flows, codes, drawn, owner, counter, tokens, granted>>
        /\ req'[r].flow = c /\ \A x \in Requests \ {r} : req'[x] = req[x]
        BY <1>0, <1>3 DEF Answer, accounts, Idle, TypeOK
  <2>2. c \in 1 .. flows BY <1>0, <2>1 DEF Inv, Shaped, ShapedRows
  <2>3. \A d : Consumed(d) => Consumed(d)' /\ d # c
        BY <1>0, <2>1 DEF Consumed, TypeOK
  <2>4. Consumed(c)' BY <1>0, <2>1, <2>2 DEF Consumed, TypeOK
  <2>5. StaysSpent BY <2>1, <2>3 DEF StaysSpent, Redeemed, Counted
  <2>6. /\ \A s \in 1 .. tokens : granted[s].flow # c
        /\ \A x \in Requests : req[x].flow # c
    <3>1. c # 0 OBVIOUS
    <3> QED BY <2>3, <3>1 DEF Spent
  <2>7. ASSUME NEW x \in Requests, req'[x].flow # 0
        PROVE  /\ Consumed(req[x].flow)'
               /\ \A s \in 1 .. tokens' : granted'[s].flow # req'[x].flow
               /\ \A y \in Requests \ {x} : req'[y].flow # req'[x].flow
    <3>1. CASE x = r
          BY <2>1, <2>4, <2>6, <3>1 DEF Consumed
    <3>2. CASE x # r
      <4>1. PICK d : d = req[x].flow /\ d = req'[x].flow /\ d # 0 BY <2>1, <2>7, <3>2
      <4>2. Consumed(d) /\ (\A s \in 1 .. tokens : granted[s].flow # d)
            /\ \A y \in Requests \ {x} : req[y].flow # d
            BY <4>1 DEF Spent
      <4>3. Consumed(d)' /\ d # c BY <2>3, <4>2
      <4> QED BY <2>1, <4>1, <4>2, <4>3 DEF Consumed
    <3> QED BY <3>1, <3>2
  <2>8. ASSUME NEW s \in 1 .. tokens'
        PROVE  /\ granted'[s].flow # 0 => Consumed(granted[s].flow)'
               /\ granted'[s].code # 0 => Redeemed(granted[s].code)'
               /\ granted'[s].counter # 0 => Counted(granted[s].passkey, granted[s].counter)'
    <3>1. PICK h : h = granted[s] /\ h = granted'[s] BY <2>1
    <3>2. /\ h.flow # 0 => Consumed(h.flow)
          /\ h.code # 0 => Redeemed(h.code)
          /\ h.counter # 0 => Counted(h.passkey, h.counter)
          BY <2>1, <3>1 DEF Spent
    <3>3. /\ h.flow # 0 => Consumed(h.flow)'
          /\ h.code # 0 => Redeemed(h.code)'
          /\ h.counter # 0 => Counted(h.passkey, h.counter)'
          BY <2>1, <2>3, <3>2 DEF Redeemed, Counted
    <3> QED BY <3>1, <3>3 DEF Consumed, Redeemed, Counted
  <2>9. OneSessionPerProof' BY <2>1 DEF Spent, OneSessionPerProof
  <2> QED BY <2>7, <2>8, <2>9 DEF Spent, Consumed, Redeemed, Counted
<1>4. ASSUME NEW r \in Requests, Serve(r) PROVE Spent'
  <2>1. ASSUME NEW s \in Token, AskForCodes(r, s) PROVE Spent'
        BY <1>0, <1>1, <2>1 DEF AskForCodes, accounts, Idle, TypeOK
  <2>2. ASSUME NEW k \in Code, PresentCode(r, k) PROVE Spent'
        BY <1>0, <1>1, <2>2 DEF PresentCode, accounts, Idle, TypeOK
  <2>3. ASSUME NEW p \in Passkeys, Find(r, p) PROVE Spent'
        BY <1>0, <1>1, <2>3 DEF Find, accounts, TypeOK, ReqType
  <2>4. ASSUME NEW p, NEW n, Prove(r, p, n) PROVE Spent'
    <3>1. PICK s : req' = [req EXCEPT ![r] = [req[r] EXCEPT !.step = "lookup", !.passkey = p,
                                                            !.next = n, !.session = s]]
          BY <2>4 DEF Prove
    <3> QED BY <1>0, <1>1, <2>4, <3>1 DEF Prove, accounts, TypeOK, ReqType
  <2>5. CASE Lookup(r)
    <3>1. PICK a, b : req' = [req EXCEPT ![r] = [req[r] EXCEPT !.step = "lock",
                                                   !.account = a, !.prev = b]]
          BY <2>5 DEF Lookup
    <3> QED BY <1>0, <1>1, <2>5, <3>1 DEF Lookup, accounts, TypeOK, ReqType
  <2>6. ASSUME NEW a \in Account, Acquire(r, a) PROVE Spent'
        BY <1>1, <2>6 DEF Acquire, accounts
  <2>7. CASE Check(r)
        BY <1>0, <1>1, <2>7 DEF Check, accounts, TypeOK, ReqType
  <2>8. CASE GiveUp(r)
        BY <1>0, <1>1, <2>8 DEF GiveUp, Release, accounts, Idle, TypeOK
  <2> QED BY <1>3, <1>4, <2>1, <2>2, <2>3, <2>4, <2>5, <2>6, <2>7, <2>8, SpentWrite DEF Serve
<1>5. ASSUME NEW s \in Token, EndSession(s) \/ Ages(s) PROVE Spent'
      BY <1>1, <1>5 DEF EndSession, Ages, accounts
<1>6. ASSUME NEW a \in Account, Disable(a) PROVE Spent'
      BY <1>1, <1>6 DEF Disable
<1>7. CASE UNCHANGED vars BY <1>1, <1>7 DEF vars, accounts
<1> QED BY <1>2, <1>4, <1>5, <1>6, <1>7 DEF Next

LEMMA SpentInit == Init => Spent
<1> SUFFICES ASSUME Init PROVE Spent OBVIOUS
<1>1. \A r \in Requests : req[r].flow = 0 BY DEF Init, Idle
<1>2. \A s \in 1 .. tokens : s \in Token BY InitialDomains, Bounds DEF Init
<1>3. \A s \in 1 .. tokens : granted[s] = NoProof BY <1>2 DEF Init
<1> QED BY <1>1, <1>3 DEF Spent, OneSessionPerProof, NoProof

(* No challenge, recovery code or counted assertion ever opens two         *)
(* sessions, whichever requests answer it at the same time.                *)
THEOREM ProofsOpenOneSession == Spec => []OneSessionPerProof
<1>1. Spent => OneSessionPerProof BY DEF Spent
<1> QED BY <1>1, SpentInit, SpentStep, InvInit, InvStep, PTL DEF Spec

-----------------------------------------------------------------------------
(* Locks are taken in order, so requests do not wait in a circle.          *)

LEMMA Greatest ==
    ASSUME NEW n \in Nat, NEW S, S \subseteq 1 .. n, S # {}
    PROVE  \E m \in S : \A a \in S : a <= m
<1> DEFINE T == {n - a : a \in S}
<1>1. T \subseteq Nat /\ T # {}
  <2>1. \A a \in S : n - a \in Nat OBVIOUS
  <2>2. PICK a \in S : TRUE OBVIOUS
  <2>3. n - a \in T BY <2>2
  <2>4. ASSUME NEW y \in T PROVE y \in Nat
    <3>1. PICK b \in S : y = n - b OBVIOUS
    <3> QED BY <2>1, <3>1
  <2> QED BY <2>3, <2>4
<1>2. PICK x \in T : \A y \in T : <<y, x>> \notin OpToRel(<, Nat)
  <2> HIDE DEF T
  <2> QED BY <1>1, NatLessThanWellFounded, WFMin
<1>3. \A y \in T : ~(y < x)
  <2> SUFFICES ASSUME NEW y \in T, y < x PROVE FALSE OBVIOUS
  <2>1. x \in Nat /\ y \in Nat BY <1>1
  <2>2. <<y, x>> \in OpToRel(<, Nat) BY <2>1 DEF OpToRel
  <2> QED BY <1>2, <2>2
<1>4. PICK m \in S : x = n - m BY <1>2
<1>5. \A a \in S : a <= m
  <2> TAKE a \in S
  <2>1. n - a \in T OBVIOUS
  <2>2. ~(n - a < n - m) BY <1>3, <1>4, <2>1
  <2>3. a \in Int /\ m \in Int OBVIOUS
  <2> QED BY <2>2, <2>3
<1> QED BY <1>4, <1>5

(* Requests never wait for each other in a circle.                         *)
THEOREM RequestsWaitInOrder == Spec => []NoWaitingCircle
<1>1. Inv => NoWaitingCircle
  <2> SUFFICES ASSUME Inv, NEW S \in SUBSET Requests, S # {},
                      \A r \in S : WaitsFor(r) \cap S # {}
               PROVE  FALSE
      BY DEF NoWaitingCircle
  <2> DEFINE Wanted == {a \in Account : \E r \in S : /\ req[r].step = "lock" /\ a \in Needed(r)
                                                     /\ accountLock[a] \in S}
  <2>0. TypeOK /\ Locked /\ \A r \in Requests : req[r].wallet \in Wallets \cup {Nobody}
        BY FieldsTyped DEF Inv, TypeOK
  <2>1. ASSUME NEW r \in S, req[r].step \in Read
        PROVE  \E a \in Wanted : a \in Needed(r)
    <3>1. PICK q \in S : q \in WaitsFor(r) OBVIOUS
    <3>2. PICK a \in Needed(r) : req[r].step = "lock" /\ accountLock[a] = q
          BY <2>1, <3>1 DEF WaitsFor, Read
    <3>3. a \in Account
          BY <2>0, <3>2, SubjectsTyped DEF Needed, Subjects
    <3> QED BY <3>2, <3>3
  <2>2. Wanted # {}
    <3>1. PICK r \in S : TRUE OBVIOUS
    <3>2. PICK q \in S : q \in WaitsFor(r) OBVIOUS
    <3>3. CASE req[r].step \in Read BY <2>1, <3>3
    <3>4. CASE req[r].step \notin Read
      <4>1. /\ req[r].wallet # Nobody /\ walletLock[req[r].wallet] = q
            BY <3>2, <3>4 DEF WaitsFor, Read
      <4>2. req[q].step \in Read BY <2>0, <4>1 DEF Locked, Holders
      <4> QED BY <2>1, <4>2
    <3> QED BY <3>3, <3>4
  <2>3. PICK m \in Wanted : \A a \in Wanted : a <= m
    <3> HIDE DEF Wanted
    <3>1. Wanted \subseteq 1 .. MaxAccounts BY DEF Wanted
    <3> QED BY <2>2, <3>1, Bounds, Greatest
  <2>4. PICK q \in S : accountLock[m] = q BY <2>3
  <2>5. req[q].step \in Read BY <2>0, <2>3, <2>4 DEF Locked, Holders
  <2>6. PICK b \in Wanted : b \in Needed(q) BY <2>1, <2>5
  <2>7. m < b BY <2>0, <2>3, <2>4, <2>6 DEF Locked, InOrder
  <2>8. b <= m /\ b \in Int /\ m \in Int BY <2>3, <2>6, Bounds
  <2> QED BY <2>7, <2>8
<1> QED BY <1>1, InvInit, InvStep, PTL DEF Spec
=============================================================================
