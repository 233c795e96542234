------------------------- MODULE ControlPlaneProofs -------------------------
(***************************************************************************)
(* Proofs about ControlPlane, for any number of requests, members,         *)
(* sessions, policies and actions.                                         *)
(*                                                                         *)
(* A behaviour of the composition is one of Authority, so that Authority's *)
(* invariant holds of it and each of its transactions is a step of Chain.  *)
(* From these follows that the whole chain is in force when a transaction  *)
(* of kind "use" commits, and so that the composition is a behaviour of    *)
(* Commerce too, whose theorems it then has.                               *)
(***************************************************************************)
EXTENDS ControlPlane, AuthorityProofs, FiniteSets

-----------------------------------------------------------------------------
(* The composition as Authority sees it.                                   *)

(* Whatever the handlers of Commerce do, the transactions are those of     *)
(* Authority: what was shown of these is true of the composition.          *)
THEOREM ControlIsAuthority == ControlSpec => Spec
<1>1. ControlInit => Init BY DEF ControlInit
<1>2. ASSUME [ControlNext]_controlVars PROVE [Next]_vars
  <2>1. ASSUME NEW r \in Requests, CommitSpend(r) PROVE Next
        BY <2>1 DEF CommitSpend, Finish, Next
  <2>2. ASSUME NEW h \in Humans, ByHand(h) PROVE UNCHANGED vars BY <2>2 DEF ByHand
  <2>3. CASE Elsewhere BY <2>3 DEF Elsewhere
  <2>4. CASE UNCHANGED controlVars BY <2>4 DEF controlVars
  <2> QED BY <1>2, <2>1, <2>2, <2>3, <2>4 DEF ControlNext
<1> QED BY <1>1, <1>2, PTL DEF ControlSpec, Spec

-----------------------------------------------------------------------------
(* What stays of a commerce session.                                       *)

(* A session is given to one machine, and what ended stays so.             *)
LEMMA NothingReopens ==
    ASSUME Inv, [Atomic!Next]_(Atomic!chain), NEW x \in Commerce
    PROVE  /\ commerce[x].machine # Nobody => commerce'[x].machine = commerce[x].machine
           /\ Ended(x) => Ended(x)'
<1> DEFINE Given == commerce[x].machine # Nobody => commerce'[x].machine = commerce[x].machine
           Stays == Ended(x) => Ended(x)'
           s == commerce[x]
<1>0. RowTypes /\ Known BY Types DEF Inv
<1>1. /\ s \in [parent : Humans \cup {Nobody}, machine : Machines \cup {Nobody},
                revoked : BOOLEAN]
      /\ s.parent # Nobody => s.parent \in Humans
      /\ s.machine # Nobody =>
            /\ s.machine \in Machines /\ machine[s.machine].status # "none"
            /\ machine[s.machine].credential \in Credentials
            /\ credential[machine[s.machine].credential].status # "none"
      BY <1>0 DEF RowTypes, Known
<1>2. ASSUME /\ commerce'[x].parent = s.parent \/ s.parent = Nobody
             /\ commerce'[x].machine = s.machine \/ s.machine = Nobody
             /\ s.revoked => commerce'[x].revoked
             /\ \A h \in Humans : human[h] = "gone" => human'[h] = "gone"
             /\ \A m \in Machines : machine[m].status # "none" =>
                   /\ machine'[m].credential = machine[m].credential
                   /\ machine[m].status = "revoked" => machine'[m].status = "revoked"
             /\ \A c \in Credentials :
                   credential[c].status = "revoked" => credential'[c].status = "revoked"
      PROVE  Given /\ Stays
  <2>1. Given BY <1>2
  <2>2. s.parent # Nobody => /\ commerce'[x].parent = s.parent
                             /\ human[s.parent] = "gone" => human'[s.parent] = "gone"
        BY <1>1, <1>2
  <2>3. s.machine # Nobody =>
           /\ commerce'[x].machine = s.machine
           /\ machine'[s.machine].credential = machine[s.machine].credential
           /\ machine[s.machine].status = "revoked" => machine'[s.machine].status = "revoked"
           /\ credential[machine[s.machine].credential].status = "revoked" =>
                 credential'[machine[s.machine].credential].status = "revoked"
        BY <1>1, <1>2
  <2> QED BY <1>2, <2>1, <2>2, <2>3 DEF Ended
<1> HIDE DEF Given, Stays
<1> USE DEF RowTypes
<1>3. ASSUME NEW h \in Humans, NEW a \in Accounts, NEW t \in Standings, Atomic!SetMember(h, a, t)
      PROVE  Given /\ Stays
      BY <1>0, <1>2, <1>3 DEF Atomic!SetMember
<1>4. ASSUME NEW h \in Humans, NEW c \in Credentials,
             Atomic!IssueCredential(h, c) \/ Atomic!RevokeCredential(h, c)
      PROVE  Given /\ Stays
  <2>1. /\ UNCHANGED <<human, commerce>>
        /\ \A m \in Machines : /\ machine'[m].credential = machine[m].credential
                               /\ machine[m].status = "revoked" => machine'[m].status = "revoked"
        BY <1>0, <1>4 DEF Atomic!IssueCredential, Atomic!RevokeCredential
  <2>2. \A d \in Credentials :
           credential[d].status = "revoked" => credential'[d].status = "revoked"
        BY <1>0, <1>4 DEF Atomic!IssueCredential, Atomic!RevokeCredential
  <2> QED BY <1>2, <2>1, <2>2
<1>5. ASSUME NEW h \in Humans, NEW y \in Commerce, Atomic!Issue(h, y) \/ Atomic!Revoke(h, y)
      PROVE  Given /\ Stays
  <2>1. CASE y = x BY <1>0, <1>2, <1>5, <2>1 DEF Atomic!Issue, Atomic!Revoke
  <2>2. CASE y # x BY <1>0, <1>2, <1>5, <2>2 DEF Atomic!Issue, Atomic!Revoke
  <2> QED BY <2>1, <2>2
<1>6. ASSUME NEW h \in Humans, Atomic!Login(h) \/ Atomic!Logout(h) PROVE Given /\ Stays
      BY <1>0, <1>2, <1>6 DEF Atomic!Login, Atomic!Logout
<1>7. ASSUME NEW m \in Machines, NEW c \in Credentials, Atomic!Open(c, m) PROVE Given /\ Stays
      BY <1>0, <1>2, <1>7 DEF Atomic!Open
<1>8. ASSUME NEW m \in Machines, NEW y \in Commerce, Atomic!Exchange(m, y) PROVE Given /\ Stays
      BY <1>0, <1>2, <1>8 DEF Atomic!Exchange
<1>9. ASSUME NEW m \in Machines, Atomic!Close(m) PROVE Given /\ Stays
       BY <1>0, <1>2, <1>9 DEF Atomic!Close
<1>10. ASSUME NEW what \in Switched, Atomic!Switch(what) PROVE Given /\ Stays
       BY <1>0, <1>2, <1>10 DEF Atomic!Switch
<1>11. ASSUME UNCHANGED Atomic!chain PROVE Given /\ Stays
  <2>1. UNCHANGED <<human, credential, machine, commerce>> BY <1>11 DEF Atomic!chain
  <2> QED BY <1>2, <2>1
<1> HIDE DEF RowTypes
<1>12. Given /\ Stays
       BY <1>3, <1>4, <1>5, <1>6, <1>7, <1>8, <1>9, <1>10, <1>11 DEF Atomic!Next
<1> QED BY <1>12 DEF Given, Stays

(* A transaction that uses a commerce session is that of its machine.      *)
UsesOwn(q) == q.kind = "use" => commerce[q.commerce].machine = q.machine

Owned == \A r \in Requests : UsesOwn(req[r])

LEMMA AskOwns ==
    ASSUME NEW r, Ask(r) PROVE \E q : Start(r, q) /\ UsesOwn(q)
<1>1. ASSUME NEW h \in Humans, NEW a \in Accounts, NEW s \in Standings, AskMember(r, h, a, s)
      PROVE  \E q : Start(r, q) /\ UsesOwn(q)
  <2> DEFINE q == [Idle EXCEPT !.kind = "member", !.human = h, !.target = a, !.standing = s]
  <2>1. q.kind = "member" BY DEF Idle
  <2> HIDE DEF q
  <2>2. Start(r, q) BY <1>1 DEF AskMember, q
  <2> QED BY <2>1, <2>2 DEF UsesOwn
<1>2. ASSUME NEW h \in Humans, NEW kind \in {"issueCredential", "issue"}, AskIssue(r, h, kind)
      PROVE  \E q : Start(r, q) /\ UsesOwn(q)
  <2> DEFINE q == [Idle EXCEPT !.kind = kind, !.human = h, !.target = AccountOf[h]]
  <2>1. q.kind = kind BY DEF Idle
  <2> HIDE DEF q
  <2>2. Start(r, q) BY <1>2 DEF AskIssue, q
  <2> QED BY <1>2, <2>1, <2>2 DEF UsesOwn
<1>3. ASSUME NEW h \in Humans, NEW c \in Credentials, AskRevokeCredential(r, h, c)
      PROVE  \E q : Start(r, q) /\ UsesOwn(q)
  <2> DEFINE q == [Idle EXCEPT !.kind = "revokeCredential", !.human = h,
                               !.target = AccountOf[h], !.credential = c]
  <2>1. q.kind = "revokeCredential" BY DEF Idle
  <2> HIDE DEF q
  <2>2. Start(r, q) BY <1>3 DEF AskRevokeCredential, q
  <2> QED BY <2>1, <2>2 DEF UsesOwn
<1>4. ASSUME NEW h \in Humans, NEW x \in Commerce, AskRevoke(r, h, x)
      PROVE  \E q : Start(r, q) /\ UsesOwn(q)
  <2> DEFINE q == [Idle EXCEPT !.kind = "revoke", !.human = h,
                               !.target = AccountOf[h], !.commerce = x]
  <2>1. q.kind = "revoke" BY DEF Idle
  <2> HIDE DEF q
  <2>2. Start(r, q) BY <1>4 DEF AskRevoke, q
  <2> QED BY <2>1, <2>2 DEF UsesOwn
<1>5. ASSUME NEW c \in Credentials, AskOpen(r, c) PROVE \E q : Start(r, q) /\ UsesOwn(q)
  <2> DEFINE q == [Idle EXCEPT !.kind = "open", !.target = credential[c].issuer,
                               !.credential = c]
  <2>1. q.kind = "open" BY DEF Idle
  <2> HIDE DEF q
  <2>2. Start(r, q) BY <1>5 DEF AskOpen, q
  <2> QED BY <2>1, <2>2 DEF UsesOwn
<1>6. ASSUME NEW kind \in ByMachine, NEW m \in Machines, NEW x \in Commerce,
             AskCommerce(r, kind, m, x)
      PROVE  \E q : Start(r, q) /\ UsesOwn(q)
  <2> DEFINE q == [Idle EXCEPT !.kind = kind, !.human = commerce[x].parent,
                    !.target = credential[machine[m].credential].issuer,
                    !.credential = machine[m].credential, !.machine = m,
                    !.commerce = x]
  <2>1. q.kind = kind /\ q.machine = m /\ q.commerce = x BY DEF Idle
  <2>2. UsesOwn(q) BY <1>6, <2>1 DEF AskCommerce, UsesOwn
  <2> HIDE DEF q
  <2>3. Start(r, q) BY <1>6 DEF AskCommerce, q
  <2> QED BY <2>2, <2>3
<1> QED BY <1>1, <1>2, <1>3, <1>4, <1>5, <1>6 DEF Ask, ByMachine

LEMMA OwnedStep ==
    ASSUME Inv, Owned, [Next]_vars, [Atomic!Next]_(Atomic!chain)
    PROVE  Owned'
<1>1. req \in [Requests -> Request] /\ \A s \in Requests : Bound(req[s])
      BY Types DEF Inv, Sound
<1>2. ASSUME NEW q, UsesOwn(q), Bound(q) PROVE UsesOwn(q)'
  <2>1. q.kind = "use" => q.machine # Nobody /\ q.commerce \in Commerce
        BY <1>2, AuthorityAssumption DEF Bound, ByMachine
  <2> QED BY <1>2, <2>1, NothingReopens DEF UsesOwn
<1>3. UsesOwn(Idle)' BY DEF UsesOwn, Idle
<1>4. ASSUME \A s \in Requests : req'[s] = req[s] \/ req'[s] = Idle PROVE Owned'
  <2> SUFFICES ASSUME NEW s \in Requests, NEW q, q = req'[s] PROVE UsesOwn(q)'
      BY DEF Owned
  <2>1. CASE q = Idle BY <1>3, <2>1
  <2>2. CASE q = req[s] BY <1>1, <1>2, <2>2 DEF Owned
  <2> QED BY <1>4, <2>1, <2>2
<1>5. ASSUME NEW r \in Requests, Ask(r) PROVE Owned'
  <2>1. PICK q : Start(r, q) /\ UsesOwn(q) BY <1>5, AskOwns
  <2>2. UNCHANGED rows /\ \A s \in Requests : req'[s] = IF s = r THEN q ELSE req[s]
        BY <1>1, <2>1 DEF Start
  <2>3. commerce' = commerce BY <2>2 DEF rows
  <2> SUFFICES ASSUME NEW s \in Requests, NEW p, p = req'[s] PROVE UsesOwn(p)'
      BY DEF Owned
  <2>4. UsesOwn(p) BY <2>1, <2>2 DEF Owned
  <2> QED BY <2>3, <2>4 DEF UsesOwn
<1>6. ASSUME NEW r \in Requests, NEW row \in Rows(req[r]), Lock(r, row) PROVE Owned'
  <2> SUFFICES ASSUME NEW s \in Requests, NEW q, q = req'[s] PROVE UsesOwn(q)'
      BY DEF Owned
  <2> PICK p : p = req[s] OBVIOUS
  <2>1. q.kind = p.kind /\ q.commerce = p.commerce /\ q.machine = p.machine
        BY <1>1, <1>6 DEF Lock, Request
  <2>2. commerce' = commerce BY <1>6 DEF Lock, rows
  <2>3. UsesOwn(p) BY DEF Owned
  <2> QED BY <2>1, <2>2, <2>3 DEF UsesOwn
<1>7. ASSUME NEW r \in Requests, Finish(r) \/ GiveUp(r) PROVE Owned'
  <2>1. req' = [req EXCEPT ![r] = Idle] BY <1>7, FinishEnds DEF GiveUp
  <2> QED BY <1>1, <1>4, <2>1
<1>8. CASE req' = req BY <1>4, <1>8
<1>9. ASSUME \/ \E h \in Humans : Login(h) \/ Logout(h)
             \/ \E what \in Switched : Switch(what)
             \/ \E m \in Machines : CloseMachine(m)
      PROVE  req' = req
      BY <1>9 DEF Login, Logout, Switch, CloseMachine
<1>10. ASSUME UNCHANGED vars PROVE req' = req BY <1>10 DEF vars
<1> QED BY <1>5, <1>6, <1>7, <1>8, <1>9, <1>10 DEF Next

(* What the proofs about the composition need of Authority.                *)
Behind == Inv /\ Linked /\ Owned

LEMMA BehindHolds == Spec => []Behind
<1>1. Init => Linked /\ Owned
  <2> SUFFICES ASSUME Init, NEW r \in Requests PROVE Named(req[r]) /\ UsesOwn(req[r])
      BY Zenon DEF Linked, Owned
  <2>1. req[r].kind = "none" BY DEF Init, Idle
  <2> QED BY <2>1 DEF Named, UsesOwn, ByMachine
<1> QED BY <1>1, InvInit, InvStep, LinkedStep, OwnedStep, TransactionsAreAtomic, PTL
        DEF Spec, Behind, TakesEffectAtOnce, Atomic!Spec

-----------------------------------------------------------------------------
(* The chain at the moment a transaction commits.                          *)

LEMMA UseInForce ==
    ASSUME Behind, NEW r \in Requests, Ready(r), req[r].kind = "use"
    PROVE  req[r].commerce \in Commerce /\ InForce(req[r].commerce)
<1> PICK q : q = req[r] OBVIOUS
<1> PICK x, m, c : x = q.commerce /\ m = q.machine /\ c = q.credential OBVIOUS
<1>1. /\ Bound(q) /\ Admitted(q) /\ (q.human # Nobody => human[q.human] = "live")
      /\ credential[c].status = "live" /\ machine[m].status = "live"
      /\ ~commerce[x].revoked
      BY ReadyIs DEF Behind, Backed, ByMachine
<1>2. /\ q.human \in Humans /\ q.human # Nobody /\ m # Nobody /\ x \in Commerce
      /\ machine[m].credential = c /\ credential[c].issuer = q.target
      BY <1>1, AuthorityAssumption DEF Bound, Backed, ByMachine
<1>3. commerce[x].parent = q.human /\ commerce[x].machine = m
      BY DEF Behind, Linked, Named, Owned, UsesOwn, ByMachine
<1>4. InOffice(AccountOf[q.human]) /\ InOffice(q.target) /\ "agent" \in up
      BY <1>1 DEF Admitted, Actor
<1> QED BY <1>1, <1>2, <1>3, <1>4 DEF InForce

LEMMA ForceStays ==
    ASSUME UNCHANGED rows
    PROVE  /\ \A x : InForce(x)' <=> InForce(x)
           /\ [x \in Commerce |-> InForce(x)]' = [x \in Commerce |-> InForce(x)]
<1>1. UNCHANGED <<human, member, up, credential, machine, commerce>> BY DEF rows
<1>2. ASSUME NEW x PROVE InForce(x)' = InForce(x) BY <1>1 DEF InForce, InOffice
<1> QED BY <1>2

-----------------------------------------------------------------------------
(* The composition as Commerce sees it.                                    *)

(* What the handlers read besides the chain is the same for both.          *)
LEMMA SameReadings ==
    /\ \A t, a : Plain!WithinBudget(t, a) = Whole!WithinBudget(t, a)
    /\ \A t, a : Plain!NeedsApproval(t, a) = Whole!NeedsApproval(t, a)
    /\ \A a : /\ Plain!PolicyOf(a) = Whole!PolicyOf(a)
              /\ Plain!TermsOf(a) = Whole!TermsOf(a)
              /\ Plain!GrantUsable(a) = Whole!GrantUsable(a)
              /\ Plain!NothingPaid(a) = Whole!NothingPaid(a)
<1>1. Plain!Unresolved = Whole!Unresolved BY DEF Plain!Unresolved, Whole!Unresolved
<1>2. \A t, a : Plain!WithinBudget(t, a) = Whole!WithinBudget(t, a)
      BY <1>1 DEF Plain!WithinBudget, Whole!WithinBudget,
                  Plain!ReadableExposure, Whole!ReadableExposure,
                  Plain!Cardinality, Whole!Cardinality
<1>3. \A t, a : Plain!NeedsApproval(t, a) = Whole!NeedsApproval(t, a)
      BY DEF Plain!NeedsApproval, Whole!NeedsApproval
<1>4. \A a : /\ Plain!PolicyOf(a) = Whole!PolicyOf(a)
             /\ Plain!TermsOf(a) = Whole!TermsOf(a)
      BY DEF Plain!PolicyOf, Whole!PolicyOf, Plain!TermsOf, Whole!TermsOf
<1>5. \A a : /\ Plain!GrantUsable(a) = Whole!GrantUsable(a)
             /\ Plain!NothingPaid(a) = Whole!NothingPaid(a)
      BY DEF Plain!GrantUsable, Whole!GrantUsable, Plain!NothingPaid, Whole!NothingPaid,
             Plain!Releasable, Whole!Releasable
<1> QED BY <1>2, <1>3, <1>4, <1>5

(* Under a session in force the check of the chain is that of the rest.    *)
LEMMA SameChain ==
    ASSUME NEW a, action[a].session \in Commerce, InForce(action[a].session)
    PROVE  Plain!ChainCurrent(a) = Whole!ChainCurrent(a)
BY SameReadings DEF Plain!ChainCurrent, Whole!ChainCurrent

LEMMA SameAuthority ==
    ASSUME UNCHANGED rows
    PROVE  (UNCHANGED Plain!authority) = UNCHANGED Whole!authority
BY ForceStays DEF Plain!authority, Whole!authority

(* A handler that reads the chain only by ChainCurrent does the same.      *)
LEMMA ApprovesInForce ==
    ASSUME NEW a \in Actions, NEW h, action[a].session \in Commerce,
           InForce(action[a].session), UNCHANGED rows
    PROVE  /\ Plain!Approve(a, h) => Whole!Approve(a, h)
           /\ Plain!Reject(a, h) => Whole!Reject(a, h)
<1>1. Plain!Decidable(a, h) = Whole!Decidable(a, h)
      BY SameReadings, SameChain DEF Plain!Decidable, Whole!Decidable
<1> QED BY <1>1, SameReadings, SameAuthority
        DEF Plain!Approve, Whole!Approve, Plain!Reject, Whole!Reject

LEMMA GrantsInForce ==
    ASSUME NEW a \in Actions, action[a].session \in Commerce,
           InForce(action[a].session), UNCHANGED rows
    PROVE  /\ Plain!IssueGrant(a) => Whole!IssueGrant(a)
           /\ Plain!ReplaceGrant(a) => Whole!ReplaceGrant(a)
           /\ \A g, i : Plain!ClaimGrant(a, g, i) => Whole!ClaimGrant(a, g, i)
<1>1. Plain!IssueGrant(a) => Whole!IssueGrant(a)
      BY SameChain, SameAuthority
      DEF Plain!IssueGrant, Whole!IssueGrant, Plain!Lesser, Whole!Lesser
<1>2. Plain!ReplaceGrant(a) => Whole!ReplaceGrant(a)
      BY SameReadings, SameChain, SameAuthority
      DEF Plain!ReplaceGrant, Whole!ReplaceGrant, Plain!Replaceable, Whole!Replaceable,
          Plain!TokensAfterReplace, Whole!TokensAfterReplace, Plain!NoClaim, Whole!NoClaim
<1>3. ASSUME NEW g, NEW i, Plain!ClaimGrant(a, g, i) PROVE Whole!ClaimGrant(a, g, i)
      BY <1>3, SameReadings, SameChain, SameAuthority
      DEF Plain!ClaimGrant, Whole!ClaimGrant, Plain!PaidWith, Whole!PaidWith
<1> QED BY <1>1, <1>2, <1>3

LEMMA PaysInForce ==
    ASSUME NEW a \in Actions, action[a].session \in Commerce,
           InForce(action[a].session), UNCHANGED rows
    PROVE  /\ \A i : Plain!PersistAttempt(a, i) => Whole!PersistAttempt(a, i)
           /\ \A d : Plain!RecordDispatch(a, d) => Whole!RecordDispatch(a, d)
<1>1. Plain!Dispatchable(a) = Whole!Dispatchable(a)
      BY SameReadings, SameChain DEF Plain!Dispatchable, Whole!Dispatchable
<1> QED BY <1>1, SameReadings, SameChain, SameAuthority
        DEF Plain!PersistAttempt, Whole!PersistAttempt,
            Plain!RecordDispatch, Whole!RecordDispatch

LEMMA AuthorizesInForce ==
    ASSUME NEW a \in Actions, NEW x \in Commerce, NEW e, InForce(x), UNCHANGED rows,
           Plain!Authorize(a, x, e)
    PROVE  Whole!Authorize(a, x, e)
<1>1. Plain!Admissible(a, x) = Whole!Admissible(a, x)
      BY DEF Plain!Admissible, Whole!Admissible
<1>2. \A s : Plain!NewAction(a, x, s, e) = Whole!NewAction(a, x, s, e)
      BY DEF Plain!NewAction, Whole!NewAction
<1> QED BY <1>1, <1>2, SameReadings, SameAuthority DEF Plain!Authorize, Whole!Authorize

(* What a transaction spends, it spends as a handler of Commerce.          *)
LEMMA SpendIsCommerce ==
    ASSUME Behind, NEW r \in Requests, CommitSpend(r)
    PROVE  UNCHANGED rows /\ \E a \in Actions : Whole!Handlers(a)
<1> PICK x : x = req[r].commerce OBVIOUS
<1>1. x \in Commerce /\ InForce(x) /\ UNCHANGED rows
      BY UseInForce DEF CommitSpend, CommitUse, Commit
<1>2. ASSUME NEW a \in Actions, Spend(a, x) PROVE Whole!Handlers(a)
      BY <1>1, <1>2, AuthorizesInForce, GrantsInForce, PaysInForce DEF Spend, Whole!Handlers
<1>3. ASSUME NEW a \in Actions, NEW h \in Humans, Decide(r, a, h) PROVE Whole!Handlers(a)
  <2>1. AccountOf[h] \in Accounts BY AuthorityAssumption
  <2> QED BY <1>1, <1>3, <2>1, ApprovesInForce DEF Decide, Whole!Handlers
<1> QED BY <1>1, <1>2, <1>3 DEF CommitSpend

(* What a human does by hand reads no chain.                               *)
LEMMA ByHandIsCommerce ==
    ASSUME NEW h, ByHand(h)
    PROVE  UNCHANGED rows /\ Whole!Next
<1>1. UNCHANGED rows BY DEF ByHand, vars
<1>2. /\ \A a : Plain!Releasable(a) = Whole!Releasable(a)
      /\ \A a : Plain!Revocable(a) = Whole!Revocable(a)
      BY DEF Plain!Releasable, Whole!Releasable, Plain!Revocable, Whole!Revocable
<1>3. ASSUME NEW a \in Actions, Plain!Cancel(a) PROVE Whole!Cancel(a)
      BY <1>1, <1>2, <1>3, SameAuthority
      DEF Plain!Cancel, Whole!Cancel, Plain!CancelsRequest, Whole!CancelsRequest,
          Plain!CancelsReservation, Whole!CancelsReservation
<1>4. ASSUME NEW a \in Actions, Plain!RevokeGrant(a) PROVE Whole!RevokeGrant(a)
      BY <1>1, <1>2, <1>4, SameAuthority, SameReadings
      DEF Plain!RevokeGrant, Whole!RevokeGrant
<1>5. ASSUME NEW p \in Policies, Plain!PolicyOperations(p) PROVE Whole!PolicyOperations(p)
  <2>1. /\ Plain!NoneActive = Whole!NoneActive
        /\ (UNCHANGED Plain!commerce) = UNCHANGED Whole!commerce
        /\ UNCHANGED [x \in Commerce |-> InForce(x)]
        BY <1>1, ForceStays DEF Plain!NoneActive, Whole!NoneActive, Plain!commerce, Whole!commerce
  <2>2. Plain!CreatePolicy(p) => Whole!CreatePolicy(p)
        BY <2>1 DEF Plain!CreatePolicy, Whole!CreatePolicy
  <2>3. Plain!RevisePolicy(p) => Whole!RevisePolicy(p)
        BY <2>1 DEF Plain!RevisePolicy, Whole!RevisePolicy
  <2>4. Plain!PausePolicy(p) => Whole!PausePolicy(p)
        BY <2>1 DEF Plain!PausePolicy, Whole!PausePolicy
  <2>5. Plain!ResumePolicy(p) => Whole!ResumePolicy(p)
        BY <2>1 DEF Plain!ResumePolicy, Whole!ResumePolicy
  <2>6. Plain!RevokePolicy(p) => Whole!RevokePolicy(p)
        BY <2>1 DEF Plain!RevokePolicy, Whole!RevokePolicy
  <2> QED BY <1>5, <2>2, <2>3, <2>4, <2>5, <2>6
          DEF Plain!PolicyOperations, Whole!PolicyOperations
<1> QED BY <1>1, <1>3, <1>4, <1>5 DEF ByHand, Whole!Handlers, Whole!Next

LEMMA ElsewhereIsCommerce ==
    ASSUME Elsewhere
    PROVE  UNCHANGED rows /\ Whole!Next
<1>1. /\ UNCHANGED rows /\ UNCHANGED [x \in Commerce |-> InForce(x)]
      /\ (UNCHANGED Plain!commerce) = UNCHANGED Whole!commerce
      BY ForceStays DEF Elsewhere, vars, Plain!commerce, Whole!commerce
<1>2. ASSUME NEW a \in Actions, Plain!SendPayment(a) PROVE Whole!SendPayment(a)
      BY <1>1, <1>2, SameAuthority DEF Plain!SendPayment, Whole!SendPayment
<1>3. ASSUME NEW a \in Actions, NEW o, Plain!RecordObservation(a, o)
      PROVE  Whole!RecordObservation(a, o)
      BY <1>1, <1>3, SameAuthority
      DEF Plain!RecordObservation, Whole!RecordObservation,
          Plain!Observable, Whole!Observable
<1>4. Plain!ListingChanges => Whole!ListingChanges
      BY <1>1 DEF Plain!ListingChanges, Whole!ListingChanges
<1>5. Plain!Tick => Whole!Tick BY <1>1 DEF Plain!Tick, Whole!Tick
<1> QED BY <1>1, <1>2, <1>3, <1>4, <1>5 DEF Elsewhere, Whole!Handlers, Whole!Next

(* Whatever commits in Authority ends and restores the authority of some   *)
(* sessions at once, or of none.                                           *)
LEMMA AuthorityIsChain ==
    ASSUME UNCHANGED money
    PROVE  [Whole!Next]_(Whole!vars)
<1> DEFINE was == [x \in Commerce |-> InForce(x)]
           is  == [x \in Commerce |-> InForce(x)']
           S   == {x \in Commerce : is[x] # was[x]}
<1>0. is = [x \in Commerce |-> InForce(x)]' OBVIOUS
<1>1. /\ UNCHANGED <<now, policy, listed, Whole!commerce>>
      /\ UNCHANGED <<now, policy, listed, action, approval, reservation, grant,
                     grantTokens, claim, attempt, payment>>
      BY DEF money, Whole!commerce
<1>2. is = [x \in Commerce |-> IF x \in S THEN ~was[x] ELSE was[x]]
  <2>1. \A x \in Commerce : was[x] \in BOOLEAN /\ is[x] \in BOOLEAN BY DEF InForce
  <2> QED BY <2>1
<1> HIDE DEF was, is, S
<1>3. CASE S = {}
  <2>1. is = was
    <3>1. is = [x \in Commerce |-> was[x]] BY <1>2, <1>3
    <3> QED BY <3>1 DEF was
  <2> QED BY <1>0, <1>1, <2>1 DEF was, Whole!vars
<1>4. CASE S # {}
  <2>1. S \in (SUBSET Commerce) \ {{}} BY <1>4 DEF S
  <2>2. Whole!ChainChanges(S) BY <1>0, <1>1, <1>2 DEF was, Whole!ChainChanges
  <2> QED BY <2>1, <2>2 DEF Whole!Next
<1> QED BY <1>3, <1>4

LEMMA ControlStep ==
    ASSUME Behind, [ControlNext]_controlVars
    PROVE  [Whole!Next]_(Whole!vars)
<1>1. ASSUME NEW r \in Requests, CommitSpend(r) PROVE Whole!Next
      BY <1>1, SpendIsCommerce DEF Whole!Next
<1>2. (Next /\ Offered /\ UNCHANGED money) \/ UNCHANGED controlVars => UNCHANGED money
      BY DEF controlVars
<1> QED BY <1>1, <1>2, AuthorityIsChain, ByHandIsCommerce, ElsewhereIsCommerce
        DEF ControlNext

(* The composition is a run of Commerce, in which the chain of authority   *)
(* is one fact: a transaction that judged account, session, organization,  *)
(* credential and machine session one after the other commits when all of  *)
(* them are in force (0010, lock_action_commerce; 0012,                    *)
(* lock_grant_commerce_chain and lock_grant_provider_chain).               *)
THEOREM ChainActsAsOne == ControlSpec => ChainIsOneFact
<1>1. ControlInit => Whole!Init BY DEF ControlInit
<1>2. ControlSpec => []Behind BY ControlIsAuthority, BehindHolds, PTL
<1>3. Behind /\ [ControlNext]_controlVars => [Whole!Next]_(Whole!vars) BY ControlStep
<1> QED BY <1>1, <1>2, <1>3, PTL DEF ControlSpec, ChainIsOneFact, Whole!Spec

-----------------------------------------------------------------------------
(* What is proved of Commerce is true of the composition.                  *)

(* What Commerce assumes of its constants.                                 *)
Bindings ==
    /\ SessionPolicy \in [Commerce -> Policies]
    /\ Requester \in [Commerce -> Accounts]
    /\ Terms \in [Policies -> [1 .. MaxRevision -> Whole!TermsType]]
    /\ Nobody \notin Accounts /\ NoAttempt \notin Attempts
    /\ NoSession \notin Commerce /\ NoLimit \notin Nat

Numbers ==
    /\ IsFiniteSet(Actions)
    /\ Debit \in [Actions -> Nat \ {0}] /\ Fee \in [Actions -> Nat]
    /\ MaxRevision \in Nat \ {0} /\ MaxGeneration \in Nat \ {0}
    /\ RowLimit \in Nat /\ GrantTtl \in Nat \ {0} /\ MaxTime \in Nat

Sums ==
    /\ DebitSum \in [SUBSET Actions -> Nat]
    /\ \A a \in Actions : DebitSum[{a}] = Debit[a]
    /\ \A T \in SUBSET Actions : \A S \in SUBSET T :
          DebitSum[T] = DebitSum[S] + DebitSum[T \ S]

(* Commerce with its theorems, about the same rows.                        *)
Paid == INSTANCE CommerceProofs WITH
    Sessions <- Commerce, Humans <- Accounts, tokens <- grantTokens,
    chainUp <- [x \in Commerce |-> InForce(x)]

LEMMA SameReadingsPaid ==
    /\ \A t, a : Paid!WithinBudget(t, a) = Whole!WithinBudget(t, a)
    /\ \A t, a : Paid!NeedsApproval(t, a) = Whole!NeedsApproval(t, a)
    /\ \A a : /\ Paid!PolicyOf(a) = Whole!PolicyOf(a)
              /\ Paid!TermsOf(a) = Whole!TermsOf(a)
              /\ Paid!ChainCurrent(a) = Whole!ChainCurrent(a)
              /\ Paid!GrantUsable(a) = Whole!GrantUsable(a)
              /\ Paid!NothingPaid(a) = Whole!NothingPaid(a)
              /\ Paid!Releasable(a) = Whole!Releasable(a)
    /\ Paid!authority = Whole!authority /\ Paid!authority' = Whole!authority'
    /\ Paid!commerce = Whole!commerce /\ Paid!commerce' = Whole!commerce'
<1>1. Paid!Unresolved = Whole!Unresolved BY DEF Paid!Unresolved, Whole!Unresolved
<1>2. \A t, a : Paid!WithinBudget(t, a) = Whole!WithinBudget(t, a)
      BY <1>1 DEF Paid!WithinBudget, Whole!WithinBudget,
                  Paid!ReadableExposure, Whole!ReadableExposure,
                  Paid!Cardinality, Whole!Cardinality
<1>3. \A t, a : Paid!NeedsApproval(t, a) = Whole!NeedsApproval(t, a)
      BY DEF Paid!NeedsApproval, Whole!NeedsApproval
<1>4. \A a : /\ Paid!PolicyOf(a) = Whole!PolicyOf(a)
             /\ Paid!TermsOf(a) = Whole!TermsOf(a)
             /\ Paid!ChainCurrent(a) = Whole!ChainCurrent(a)
      BY DEF Paid!PolicyOf, Whole!PolicyOf, Paid!TermsOf, Whole!TermsOf,
             Paid!ChainCurrent, Whole!ChainCurrent
<1>5. \A a : /\ Paid!GrantUsable(a) = Whole!GrantUsable(a)
             /\ Paid!NothingPaid(a) = Whole!NothingPaid(a)
             /\ Paid!Releasable(a) = Whole!Releasable(a)
      BY DEF Paid!GrantUsable, Whole!GrantUsable, Paid!NothingPaid, Whole!NothingPaid,
             Paid!Releasable, Whole!Releasable
<1>6. /\ Paid!authority = Whole!authority /\ Paid!authority' = Whole!authority'
      /\ Paid!commerce = Whole!commerce /\ Paid!commerce' = Whole!commerce'
      BY DEF Paid!authority, Whole!authority, Paid!commerce, Whole!commerce
<1> QED BY <1>2, <1>3, <1>4, <1>5, <1>6

LEMMA SameHandlers ==
    ASSUME NEW a PROVE Whole!Handlers(a) = Paid!Handlers(a)
<1>1. \A s, e : Paid!Authorize(a, s, e) = Whole!Authorize(a, s, e)
      BY SameReadingsPaid DEF Paid!Authorize, Whole!Authorize, Paid!Admissible, Whole!Admissible,
         Paid!NewAction, Whole!NewAction
<1>2. \A h : /\ Paid!Approve(a, h) = Whole!Approve(a, h)
             /\ Paid!Reject(a, h) = Whole!Reject(a, h)
      BY SameReadingsPaid DEF Paid!Approve, Whole!Approve, Paid!Reject, Whole!Reject,
         Paid!Decidable, Whole!Decidable
<1>3. Paid!Cancel(a) = Whole!Cancel(a)
      BY SameReadingsPaid DEF Paid!Cancel, Whole!Cancel, Paid!CancelsRequest, Whole!CancelsRequest,
         Paid!CancelsReservation, Whole!CancelsReservation
<1>4. Paid!IssueGrant(a) = Whole!IssueGrant(a)
      BY SameReadingsPaid DEF Paid!IssueGrant, Whole!IssueGrant, Paid!Lesser, Whole!Lesser
<1>5. Paid!ReplaceGrant(a) = Whole!ReplaceGrant(a)
      BY SameReadingsPaid DEF Paid!ReplaceGrant, Whole!ReplaceGrant, Paid!Replaceable, Whole!Replaceable,
         Paid!TokensAfterReplace, Whole!TokensAfterReplace, Paid!NoClaim, Whole!NoClaim
<1>6. \A g, i : Paid!ClaimGrant(a, g, i) = Whole!ClaimGrant(a, g, i)
      BY SameReadingsPaid DEF Paid!ClaimGrant, Whole!ClaimGrant, Paid!PaidWith, Whole!PaidWith
<1>7. Paid!RevokeGrant(a) = Whole!RevokeGrant(a)
      BY SameReadingsPaid DEF Paid!RevokeGrant, Whole!RevokeGrant, Paid!Revocable, Whole!Revocable
<1>8. \A i : Paid!PersistAttempt(a, i) = Whole!PersistAttempt(a, i)
      BY SameReadingsPaid DEF Paid!PersistAttempt, Whole!PersistAttempt
<1>9. \A d : Paid!RecordDispatch(a, d) = Whole!RecordDispatch(a, d)
      BY SameReadingsPaid DEF Paid!RecordDispatch, Whole!RecordDispatch,
         Paid!Dispatchable, Whole!Dispatchable
<1>10. Paid!SendPayment(a) = Whole!SendPayment(a)
      BY SameReadingsPaid DEF Paid!SendPayment, Whole!SendPayment
<1>11. \A o : Paid!RecordObservation(a, o) = Whole!RecordObservation(a, o)
      BY SameReadingsPaid DEF Paid!RecordObservation, Whole!RecordObservation,
         Paid!Observable, Whole!Observable
<1> QED BY <1>1, <1>2, <1>3, <1>4, <1>5, <1>6, <1>7, <1>8, <1>9, <1>10, <1>11
        DEF Paid!Handlers, Whole!Handlers

LEMMA SameNext == [Whole!Next]_(Whole!vars) = [Paid!Next]_(Paid!vars)
<1>1. \A p : Paid!PolicyOperations(p) = Whole!PolicyOperations(p)
      BY SameReadingsPaid
      DEF Paid!PolicyOperations, Whole!PolicyOperations, Paid!NoneActive, Whole!NoneActive,
          Paid!CreatePolicy, Whole!CreatePolicy, Paid!RevisePolicy, Whole!RevisePolicy,
          Paid!PausePolicy, Whole!PausePolicy, Paid!ResumePolicy, Whole!ResumePolicy,
          Paid!RevokePolicy, Whole!RevokePolicy
<1>2. \A S : Paid!ChainChanges(S) = Whole!ChainChanges(S)
      BY DEF Paid!ChainChanges, Whole!ChainChanges, Paid!commerce, Whole!commerce
<1>3. /\ Paid!ListingChanges = Whole!ListingChanges /\ Paid!Tick = Whole!Tick
      BY DEF Paid!ListingChanges, Whole!ListingChanges, Paid!Tick, Whole!Tick,
             Paid!commerce, Whole!commerce
<1>4. (UNCHANGED Paid!vars) = (UNCHANGED Whole!vars) BY DEF Paid!vars, Whole!vars
<1> QED BY <1>1, <1>2, <1>3, <1>4, SameHandlers DEF Paid!Next, Whole!Next

LEMMA SameSpec == Whole!Spec <=> Paid!Spec
<1>1. Whole!Init <=> Paid!Init
      BY DEF Whole!Init, Paid!Init, Whole!NoPolicy, Paid!NoPolicy, Whole!NoAction, Paid!NoAction,
             Whole!NoApprove, Paid!NoApprove, Whole!NoGrant, Paid!NoGrant,
             Whole!NoClaim, Paid!NoClaim, Whole!NoPayment, Paid!NoPayment
<1>2. [Whole!Next]_(Whole!vars) <=> [Paid!Next]_(Paid!vars) BY SameNext
<1> QED BY <1>1, <1>2, PTL DEF Whole!Spec, Paid!Spec

(* The constants as Commerce has them.                                     *)
LEMMA SameConstants ==
    /\ Paid!TermsType = Whole!TermsType
    /\ Paid!IsFiniteSet(Actions) = IsFiniteSet(Actions)
<1>1. Paid!TermsType = Whole!TermsType BY DEF Paid!TermsType, Whole!TermsType
<1>2. Paid!IsFiniteSet(Actions) = IsFiniteSet(Actions) BY DEF IsFiniteSet, Paid!IsFiniteSet
<1> QED BY <1>1, <1>2

(* A step that spends is none of Authority's.                              *)
LEMMA SpendingKeepsRows ==
    ASSUME [ControlNext]_controlVars, NEW a \in Actions, Plain!SpendsAuthority(a)
    PROVE  UNCHANGED rows
<1>1. ASSUME UNCHANGED money PROVE FALSE
  <2>1. UNCHANGED <<action, reservation, grantTokens, attempt, claim>> BY <1>1 DEF money
  <2> QED BY <2>1 DEF Plain!SpendsAuthority
<1>2. ASSUME NEW r \in Requests, CommitSpend(r) PROVE UNCHANGED rows
      BY <1>2 DEF CommitSpend, CommitUse
<1>3. ASSUME NEW h \in Humans, ByHand(h) PROVE UNCHANGED rows BY <1>3 DEF ByHand, vars
<1>4. Elsewhere => UNCHANGED rows BY DEF Elsewhere, vars
<1> QED BY <1>1, <1>2, <1>3, <1>4 DEF ControlNext, controlVars

(* A transaction that reserves, grants, dispatches or claims commits while *)
(* account, human's session, organization, member, agent, credential,      *)
(* machine session and commerce session are in force, policy, listing and  *)
(* expiry too, whatever others committed since it began (0010,             *)
(* lock_action_commerce; 0012, lock_grant_commerce_chain).                 *)
THEOREM SpendingIsInForce ==
    ASSUME Bindings, Numbers, Sums PROVE ControlSpec => SpendsInForce
<1> DEFINE Checked == \A a \in Actions : Paid!SpendsAuthority(a) => Paid!ChainCurrent(a)'
           Sited   == \A a \in Actions :
                         Paid!SpendsAuthority(a) => action'[a].session \in Commerce
           Forced  == \A a \in Actions : Plain!SpendsAuthority(a) =>
                         InForce(action'[a].session) /\ Plain!ChainCurrent(a)'
<1>1. Paid!Spec => [][Checked]_(Paid!vars) /\ [][Sited]_(Paid!vars)
  <2>1. Paid!Spec => Paid!RevocationFailsClosed
        BY SameConstants, Paid!SpendingFailsClosed DEF Bindings, Numbers, Sums
  <2>2. Paid!Spec => Paid!SpendsUnderSession
        BY SameConstants, Paid!SpendingHasSession DEF Bindings, Numbers, Sums
  <2> QED BY <2>1, <2>2 DEF Paid!RevocationFailsClosed, Paid!SpendsUnderSession
<1>2. ASSUME [ControlNext]_controlVars, [Checked]_(Paid!vars), [Sited]_(Paid!vars)
      PROVE  Forced
  <2> SUFFICES ASSUME NEW a \in Actions, Plain!SpendsAuthority(a)
               PROVE  InForce(action'[a].session) /\ Plain!ChainCurrent(a)'
      OBVIOUS
  <2>1. Paid!SpendsAuthority(a) BY DEF Paid!SpendsAuthority, Plain!SpendsAuthority
  <2>2. ~UNCHANGED Paid!vars BY <2>1 DEF Paid!vars, Paid!SpendsAuthority
  <2>3. Paid!ChainCurrent(a)' /\ action'[a].session \in Commerce BY <1>2, <2>1, <2>2
  <2> PICK x : x = action'[a].session OBVIOUS
  <2>4. Plain!ChainCurrent(a)'
        BY <2>3 DEF Paid!ChainCurrent, Plain!ChainCurrent, Paid!PolicyOf, Plain!PolicyOf
  <2>5. InForce(x)'
    <3>1. x \in Commerce /\ [y \in Commerce |-> InForce(y)'][x] BY <2>3 DEF Paid!ChainCurrent
    <3> QED BY <3>1
  <2>6. InForce(x) BY <1>2, <2>5, SpendingKeepsRows, ForceStays
  <2> QED BY <2>4, <2>6
<1> HIDE DEF Checked, Sited, Forced
<1>3. ControlSpec => Paid!Spec BY ChainActsAsOne, SameSpec DEF ChainIsOneFact
<1>4. ControlSpec => [][Forced]_controlVars BY <1>1, <1>2, <1>3, PTL DEF ControlSpec
<1> QED BY <1>4 DEF Forced, SpendsInForce

(* A session in force has not ended.                                       *)
LEMMA EndedIsNotInForce == \A x : Ended(x) => ~InForce(x)
BY DEF Ended, InForce

(* A logout, a revoked credential, machine session or commerce session is  *)
(* final: nothing restores the session, and no transaction that had begun  *)
(* before spends anything under it (0009, 0010 and 0012: each chain is     *)
(* judged on the rows as they are once locked).                            *)
THEOREM EndsForGood ==
    ASSUME Bindings, Numbers, Sums PROVE ControlSpec => EndedForGood
<1> DEFINE Forced == \A a \in Actions : Plain!SpendsAuthority(a) =>
                        InForce(action'[a].session) /\ Plain!ChainCurrent(a)'
           Final  == \A x \in Commerce : Ended(x) =>
                        /\ Ended(x)'
                        /\ \A a \in Actions :
                              action'[a].session = x => ~Plain!SpendsAuthority(a)
<1>1. ASSUME Behind, [Atomic!Next]_(Atomic!chain), Forced PROVE Final
  <2> SUFFICES ASSUME NEW x \in Commerce, Ended(x)
               PROVE  /\ Ended(x)'
                      /\ \A a \in Actions :
                            action'[a].session = x => ~Plain!SpendsAuthority(a)
      OBVIOUS
  <2>1. Ended(x)' BY <1>1, NothingReopens DEF Behind
  <2>2. ~InForce(x) BY EndedIsNotInForce
  <2> QED BY <1>1, <2>1, <2>2
<1>2. ControlSpec => []Behind /\ [][Atomic!Next]_(Atomic!chain)
      BY ControlIsAuthority, BehindHolds, TransactionsAreAtomic, PTL
      DEF TakesEffectAtOnce, Atomic!Spec
<1>3. ControlSpec => [][Forced]_controlVars BY SpendingIsInForce DEF SpendsInForce
<1> HIDE DEF Forced, Final
<1>4. ControlSpec => [][Final]_controlVars BY <1>1, <1>2, <1>3, PTL
<1> QED BY <1>4 DEF Final, EndedForGood

(* What Commerce promises of the money.                                    *)
MoneyIsSafe ==
    /\ Paid!RowsAgree /\ Paid!ExposureCovered /\ Paid!ApprovedBeforeReserved
    /\ Paid!AttemptKeepsExposure /\ Paid!OneLiveToken /\ Paid!ClaimMatchesPayment
    /\ Paid!CleanupAvailable

(* Budget, approvals, exposure, tokens, claims and clean-up are what they  *)
(* are in Commerce, whatever the members of the organization do to the     *)
(* rows of the chain between two locks of a transaction.                   *)
THEOREM MoneyIsSafeBeside ==
    ASSUME Bindings, Numbers, Sums PROVE ControlSpec => []MoneyIsSafe
<1>1. ControlSpec => Paid!Spec BY ChainActsAsOne, SameSpec DEF ChainIsOneFact
<1>2. Paid!Spec => []Paid!RowsAgree
      BY SameConstants, Paid!RowsAlwaysAgree DEF Bindings, Numbers, Sums
<1>3. Paid!Spec => []Paid!ExposureCovered
      BY SameConstants, Paid!BudgetHolds DEF Bindings, Numbers, Sums
<1>4. Paid!Spec => []Paid!ApprovedBeforeReserved
      BY SameConstants, Paid!ApprovalsPrecede DEF Bindings, Numbers, Sums
<1>5. Paid!Spec => []Paid!AttemptKeepsExposure
      BY SameConstants, Paid!PaymentsKeepExposure DEF Bindings, Numbers, Sums
<1>6. Paid!Spec => []Paid!OneLiveToken
      BY SameConstants, Paid!TokensRotate DEF Bindings, Numbers, Sums
<1>7. Paid!Spec => []Paid!ClaimMatchesPayment
      BY SameConstants, Paid!ClaimsMatchPayments DEF Bindings, Numbers, Sums
<1>8. Paid!Spec => []Paid!CleanupAvailable
      BY SameConstants, Paid!CleanupPossible DEF Bindings, Numbers, Sums
<1> QED BY <1>1, <1>2, <1>3, <1>4, <1>5, <1>6, <1>7, <1>8, PTL DEF MoneyIsSafe

(* And the eleven handlers, each a transaction that judges row by row,     *)
(* keep one ledger.                                                        *)
THEOREM LedgerIsKeptBeside ==
    ASSUME Bindings, Numbers, Sums PROVE ControlSpec => Paid!KeepsLedger
<1>1. ControlSpec => Paid!Spec BY ChainActsAsOne, SameSpec DEF ChainIsOneFact
<1>2. Paid!Spec => Paid!KeepsLedger
      BY SameConstants, Paid!LedgerIsKept DEF Bindings, Numbers, Sums
<1> QED BY <1>1, <1>2
=============================================================================
