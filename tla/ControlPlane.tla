---------------------------- MODULE ControlPlane ----------------------------
(***************************************************************************)
(* The control plane of one organization: the transactions of Authority    *)
(* and the handlers of Commerce over one database.                         *)
(*                                                                         *)
(* Commerce reads the chain of authority behind a session as one fact that *)
(* comes and goes.  In the code it is seven rows, locked and judged one    *)
(* after the other while others commit: the account and the session of the *)
(* human who offered the handoff, the organization with its members and    *)
(* its agent, the credential, the machine session and the commerce session.*)
(* Here a handler that proves the chain commits as the transaction "use" of *)
(* Authority does, when it holds all of these rows, and asks for nothing   *)
(* more; that the chain is in force at that moment is a theorem.           *)
(***************************************************************************)
EXTENDS Authority

CONSTANTS Actions, Policies, Attempts, NoAttempt, NoSession, NoLimit, SessionPolicy,
          Requester, Debit, Fee, DebitSum, Terms, MaxRevision, MaxGeneration, RowLimit,
          GrantTtl, MaxTime             \* as in Commerce

VARIABLES now, policy, listed, action, approval, reservation, grant, grantTokens, claim,
          attempt, payment              \* as in Commerce, tokens being grantTokens

money == <<now, policy, listed, action, approval, reservation, grant, grantTokens, claim,
           attempt, payment>>
controlVars == <<vars, money>>

(* The rows behind a commerce session, taken together at one moment.       *)
InForce(x) ==
    LET s == commerce[x]  m == machine[s.machine]  c == credential[m.credential] IN
    /\ s.machine # Nobody /\ ~s.revoked
    /\ human[s.parent] = "live" /\ InOffice(AccountOf[s.parent])
    /\ m.status = "live"
    /\ c.status = "live" /\ InOffice(c.issuer)
    /\ "agent" \in up

(* The handlers without a check of the chain, which is that of the rows.   *)
Plain == INSTANCE Commerce WITH
    Sessions <- Commerce, Humans <- Accounts, tokens <- grantTokens,
    chainUp <- [x \in Commerce |-> TRUE]

(* The handlers with the chain as the one fact it is in Commerce.          *)
Whole == INSTANCE Commerce WITH
    Sessions <- Commerce, Humans <- Accounts, tokens <- grantTokens,
    chainUp <- [x \in Commerce |-> InForce(x)]

-----------------------------------------------------------------------------
(* What a transaction under the commerce session x does to an action.      *)
Spend(a, x) ==
    \/ \E e \in 1 .. (MaxTime + 1) : Plain!Authorize(a, x, e)
    \/ /\ action[a].session = x
       /\ \/ Plain!IssueGrant(a) \/ Plain!ReplaceGrant(a)
          \/ \E g \in 1 .. MaxGeneration, i \in Attempts : Plain!ClaimGrant(a, g, i)
          \/ \E i \in Attempts : Plain!PersistAttempt(a, i)
          \/ \E arrives \in BOOLEAN : Plain!RecordDispatch(a, arrives)

(* The session h of a human is locked with its account and the             *)
(* organization, against everybody else's transactions, and judged.        *)
Acting(h, others) ==
    /\ human[h] = "live" /\ InOffice(AccountOf[h])
    /\ \A r \in others :
          req[r].held \cap {Account(AccountOf[h]), Session(h), Organization} = {}

(* The decision of a human is made under the session of the action too.    *)
Decide(r, a, h) ==
    /\ action[a].session = req[r].commerce /\ Acting(h, Requests \ {r})
    /\ Plain!Approve(a, AccountOf[h]) \/ Plain!Reject(a, AccountOf[h])

CommitSpend(r) ==
    /\ CommitUse(r)
    /\ \E a \in Actions :
          Spend(a, req[r].commerce) \/ \E h \in Humans : Decide(r, a, h)

(* What a human does whatever became of the chain of a session.            *)
ByHand(h) ==
    /\ Acting(h, Requests)
    /\ \/ \E a \in Actions : Plain!Cancel(a) \/ Plain!RevokeGrant(a)
       \/ \E p \in Policies : Plain!PolicyOperations(p)
    /\ UNCHANGED vars

(* What asks for no authority of a human or an agent.                      *)
Elsewhere ==
    /\ \/ \E a \in Actions :
             \/ Plain!SendPayment(a)
             \/ \E o \in {"pending", "committed"} : Plain!RecordObservation(a, o)
       \/ Plain!ListingChanges
       \/ Plain!Tick
    /\ UNCHANGED vars

(* A handoff is issued and exchanged under its policy, which is active; its *)
(* identifier tells who issued it.                                         *)
Offered ==
    \A x \in Commerce :
        /\ commerce'[x].parent # commerce[x].parent =>
              AccountOf[commerce'[x].parent] = Requester[x]
        /\ \/ commerce'[x].parent # commerce[x].parent
           \/ commerce'[x].machine # commerce[x].machine
           => policy[SessionPolicy[x]].status = "active"

-----------------------------------------------------------------------------
ControlInit == Init /\ Whole!Init

ControlNext ==
    \/ Next /\ Offered /\ UNCHANGED money
    \/ \E r \in Requests : CommitSpend(r)
    \/ \E h \in Humans : ByHand(h)
    \/ Elsewhere

ControlSpec == ControlInit /\ [][ControlNext]_controlVars

-----------------------------------------------------------------------------
(* Properties.                                                             *)

(* The chain that Commerce reads as one fact is what the judgements of the *)
(* rows, each made when the row was locked, amount to when the transaction *)
(* commits: whatever is shown of Commerce is true of the composition.      *)
ChainIsOneFact == Whole!Spec

(* However others log out, demote, suspend and revoke between two locks of *)
(* a transaction, it reserves, grants, dispatches or claims nothing unless *)
(* at that moment every row behind its session is in force and policy,     *)
(* listing and expiry are too.                                             *)
SpendsInForce ==
    [][\A a \in Actions : Plain!SpendsAuthority(a) =>
          InForce(action'[a].session) /\ Plain!ChainCurrent(a)']_controlVars

(* The session was revoked, its human logged out, or its machine session   *)
(* or credential was revoked.                                              *)
Ended(x) ==
    LET s == commerce[x] IN
    \/ s.revoked
    \/ s.parent # Nobody /\ human[s.parent] = "gone"
    \/ /\ s.machine # Nobody
       /\ \/ machine[s.machine].status = "revoked"
          \/ credential[machine[s.machine].credential].status = "revoked"

(* What is ended is ended for good: nothing gives the session its authority *)
(* back, and no transaction that began before spends anything under it.    *)
EndedForGood ==
    [][\A x \in Commerce : Ended(x) =>
          /\ Ended(x)'
          /\ \A a \in Actions :
                action'[a].session = x => ~Plain!SpendsAuthority(a)]_controlVars
=============================================================================
