--------------------------- MODULE CommerceProofs ---------------------------
(* Theorems about Commerce, for every set of actions, sessions, policies,  *)
(* every terms and every bound.                                            *)
EXTENDS Commerce, FiniteSetTheorems, TLAPS

(* The guards of Cancel and of RevokeGrant are expanded with these.        *)
USE DEF CancelsRequest, CancelsReservation, Revocable

-----------------------------------------------------------------------------
(* Type correctness.                                                       *)

(* The pinned terms of an action that exists are the terms of a policy     *)
(* revision (0010, the composite key of policy id and revision).           *)
LEMMA RevisionTyped ==
    ASSUME NEW p \in Policies, NEW r \in 1..MaxRevision
    PROVE  Terms[p][r] \in TermsType
<1>1. Terms[p] \in [1..MaxRevision -> TermsType]
  BY BindingAssumption
<1>2. QED
  BY <1>1

LEMMA TermsTyped ==
    ASSUME TypeOK, NEW a \in Actions, action[a].session \in Sessions
    PROVE  TermsOf(a) \in TermsType
<1>1. PolicyOf(a) \in Policies
  BY BindingAssumption DEF PolicyOf
<1>2. action[a].revision \in 1..MaxRevision
  BY DEF TypeOK, ActionType
<1>3. QED
  BY <1>1, <1>2, RevisionTyped DEF TermsOf

LEMMA InitTypeOK == Init => TypeOK
<1> SUFFICES ASSUME Init PROVE TypeOK
  OBVIOUS
<1>1. /\ NoPolicy \in [status : PolicyStatuses, revision : 1..MaxRevision]
      /\ NoAction \in ActionType
      /\ NoApprove \in ApproveType
      /\ NoGrant \in GrantType
      /\ NoClaim \in ClaimType
      /\ NoPayment \in AttemptType
  BY NumberAssumption
  DEF NoPolicy, NoAction, NoApprove, NoGrant, NoClaim, NoPayment, ActionType,
      ApproveType, GrantType, ClaimType, AttemptType, PolicyStatuses,
      ActionStatuses, ApprovalStatuses, GrantStatuses, AttemptStates
<1>2. QED
  BY <1>1, NumberAssumption DEF Init, TypeOK, ReservationStatuses

(* The handlers after authorization change nothing of an action but its    *)
(* status.                                                                 *)
LEMMA StatusTyped ==
    ASSUME action \in [Actions -> ActionType], NEW a \in Actions,
           \E st \in ActionStatuses :
              action' = [action EXCEPT ![a].status = st]
    PROVE  action' \in [Actions -> ActionType]
BY DEF ActionType

(* Each handler writes only rows of the right shape.                       *)
LEMMA HandlersTypeOK ==
    ASSUME TypeOK, NEW a \in Actions, Handlers(a)
    PROVE  TypeOK'
<1> USE DEF TypeOK, authority
<1>1. ASSUME NEW s \in Sessions, NEW e \in 1..(MaxTime + 1), Authorize(a, s, e)
      PROVE  TypeOK'
  <2>1. policy[SessionPolicy[s]].revision \in 1..MaxRevision
    BY BindingAssumption
  <2>2. e \in Nat
    BY NumberAssumption
  <2>3. ASSUME NEW st \in ActionStatuses, NewAction(a, s, st, e)
        PROVE  action' \in [Actions -> ActionType]
    BY <2>1, <2>2, <2>3 DEF NewAction, ActionType
  <2>4. action' \in [Actions -> ActionType]
    BY <1>1, <2>3 DEF Authorize, ActionStatuses
  <2>5. approval' \in [Actions -> ApproveType]
    BY <1>1 DEF Authorize, ApproveType, ApprovalStatuses
  <2>6. reservation' \in [Actions -> ReservationStatuses]
    BY <1>1 DEF Authorize, ReservationStatuses
  <2>7. QED
    BY <1>1, <2>4, <2>5, <2>6 DEF Authorize
<1>2. ASSUME NEW h \in Humans, Approve(a, h) \/ Reject(a, h)
      PROVE  TypeOK'
  <2>1. action' \in [Actions -> ActionType]
    <3>1. \E st \in ActionStatuses :
             action' = [action EXCEPT ![a].status = st]
      BY <1>2 DEF Approve, Reject, ActionStatuses
    <3>2. QED
      BY <3>1, StatusTyped
  <2>2. approval' \in [Actions -> ApproveType]
    BY <1>2 DEF Approve, Reject, ApproveType, ApprovalStatuses
  <2>3. reservation' \in [Actions -> ReservationStatuses]
    BY <1>2 DEF Approve, Reject, ReservationStatuses
  <2>4. QED
    BY <1>2, <2>1, <2>2, <2>3 DEF Approve, Reject
<1>3. CASE Cancel(a)
  <2>1. action' \in [Actions -> ActionType]
    <3>1. \E st \in ActionStatuses :
             action' = [action EXCEPT ![a].status = st]
      BY <1>3 DEF Cancel, ActionStatuses
    <3>2. QED
      BY <3>1, StatusTyped
  <2>2. approval' \in [Actions -> ApproveType]
    <3>1. \/ UNCHANGED approval
          \/ \E st \in ApprovalStatuses :
                approval' = [approval EXCEPT ![a].status = st]
      BY <1>3 DEF Cancel, ApproveType, ApprovalStatuses
    <3>2. QED
      BY <3>1 DEF ApproveType
  <2>3. reservation' \in [Actions -> ReservationStatuses]
    BY <1>3 DEF Cancel, ReservationStatuses
  <2>4. QED
    BY <1>3, <2>1, <2>2, <2>3 DEF Cancel
<1>4. CASE IssueGrant(a)
  <2>1. Lesser(action[a].expires, now + GrantTtl) \in Nat
    BY NumberAssumption DEF Lesser, ActionType
  <2>2. 1 \in 1..MaxGeneration
    BY NumberAssumption
  <2>3. grant' \in [Actions -> GrantType]
    BY <1>4, <2>1, <2>2 DEF IssueGrant, GrantType, GrantStatuses
  <2>4. tokens' \in [Actions -> SUBSET (1..MaxGeneration)]
    BY <1>4, <2>2 DEF IssueGrant
  <2>5. action' \in [Actions -> ActionType]
    BY <1>4 DEF IssueGrant, ActionType, ActionStatuses
  <2>6. QED
    BY <1>4, <2>3, <2>4, <2>5 DEF IssueGrant
<1>5. CASE ReplaceGrant(a)
  <2>1. grant[a].generation + 1 \in 1..MaxGeneration
    BY <1>5, NumberAssumption DEF ReplaceGrant, Replaceable, GrantType
  <2>2. grant' \in [Actions -> GrantType]
    BY <1>5, <2>1 DEF ReplaceGrant, GrantType
  <2>3. tokens' \in [Actions -> SUBSET (1..MaxGeneration)]
    BY <1>5, <2>1 DEF ReplaceGrant, TokensAfterReplace
  <2>4. QED
    BY <1>5, <2>2, <2>3 DEF ReplaceGrant
<1>6. ASSUME NEW g \in 1..MaxGeneration, NEW x \in Attempts, ClaimGrant(a, g, x)
      PROVE  TypeOK'
  <2>1. now \in Nat
    BY NumberAssumption
  <2>2. claim' \in [Actions -> ClaimType]
    BY <1>6, <2>1 DEF ClaimGrant, ClaimType
  <2>3. grant' \in [Actions -> GrantType]
    BY <1>6 DEF ClaimGrant, GrantType, GrantStatuses
  <2>4. reservation' \in [Actions -> ReservationStatuses]
    BY <1>6 DEF ClaimGrant, ReservationStatuses
  <2>5. QED
    BY <1>6, <2>2, <2>3, <2>4 DEF ClaimGrant
<1>7. CASE RevokeGrant(a)
  <2>1. grant' \in [Actions -> GrantType]
    BY <1>7 DEF RevokeGrant, GrantType, GrantStatuses
  <2>2. action' \in [Actions -> ActionType]
    <3>1. action[a].status \in ActionStatuses
      BY DEF ActionType
    <3>2. \E st \in ActionStatuses :
             action' = [action EXCEPT ![a].status = st]
      BY <1>7, <3>1 DEF RevokeGrant, ActionStatuses
    <3>3. QED
      BY <3>2, StatusTyped
  <2>3. QED
    BY <1>7, <2>1, <2>2 DEF RevokeGrant, ReservationStatuses
<1>8. ASSUME NEW x \in Attempts, PersistAttempt(a, x)
      PROVE  TypeOK'
  BY <1>8 DEF PersistAttempt, AttemptType, AttemptStates
<1>9. ASSUME NEW arrives \in BOOLEAN, RecordDispatch(a, arrives)
      PROVE  TypeOK'
  BY <1>9 DEF RecordDispatch, AttemptType, AttemptStates
<1>10. CASE SendPayment(a)
  BY <1>10 DEF SendPayment
<1>11. ASSUME NEW o \in {"pending", "committed"}, RecordObservation(a, o)
       PROVE  TypeOK'
  <2>1. attempt' \in [Actions -> AttemptType]
    BY <1>11 DEF RecordObservation, AttemptType, AttemptStates
  <2>2. QED
    BY <1>11, <2>1 DEF RecordObservation
<1>12. QED
  BY <1>1, <1>2, <1>3, <1>4, <1>5, <1>6, <1>7, <1>8, <1>9, <1>10, <1>11
  DEF Handlers

LEMMA NextTypeOK == TypeOK /\ [Next]_vars => TypeOK'
<1> SUFFICES ASSUME TypeOK, [Next]_vars PROVE TypeOK'
  OBVIOUS
<1>1. ASSUME NEW p \in Policies, PolicyOperations(p)
      PROVE  TypeOK'
  <2>1. policy[p].revision < MaxRevision =>
            policy[p].revision + 1 \in 1..MaxRevision
    BY NumberAssumption DEF TypeOK
  <2>2. policy' \in [Policies -> [status : PolicyStatuses,
                                  revision : 1..MaxRevision]]
    <3>1. policy \in [Policies -> [status : PolicyStatuses,
                                   revision : 1..MaxRevision]]
      BY DEF TypeOK
    <3>2. \/ \E st \in PolicyStatuses :
                policy' = [policy EXCEPT ![p].status = st]
          \/ /\ policy[p].revision < MaxRevision
             /\ policy' = [policy EXCEPT ![p].revision = @ + 1]
      BY <1>1 DEF PolicyOperations, CreatePolicy, RevisePolicy,
         PausePolicy, ResumePolicy, RevokePolicy, PolicyStatuses
    <3>3. QED
      BY <2>1, <3>1, <3>2
  <2>3. QED
    BY <1>1, <2>2 DEF PolicyOperations, CreatePolicy, RevisePolicy,
       PausePolicy, ResumePolicy, RevokePolicy, TypeOK, commerce
<1>2. ASSUME NEW S \in SUBSET Sessions, ChainChanges(S)
      PROVE  TypeOK'
  BY <1>2 DEF ChainChanges, TypeOK, commerce
<1>3. CASE ListingChanges
  BY <1>3 DEF ListingChanges, TypeOK, commerce
<1>4. CASE Tick
  BY <1>4, NumberAssumption DEF Tick, TypeOK, commerce
<1>5. CASE UNCHANGED vars
  BY <1>5 DEF vars, TypeOK
<1>6. QED
  BY <1>1, <1>2, <1>3, <1>4, <1>5, HandlersTypeOK DEF Next

(* In every reachable state every table holds rows of its declared shape.  *)
THEOREM TypeCorrect == Spec => []TypeOK
BY InitTypeOK, NextTypeOK, PTL DEF Spec
-----------------------------------------------------------------------------
(* The rows of an action agree.                                            *)

(* A handler writes rows of its own action only, and no authority.         *)
LEMMA HandlersFrame ==
    ASSUME TypeOK, NEW a \in Actions, Handlers(a)
    PROVE  /\ UNCHANGED authority
           /\ \A b \in Actions \ {a} :
                 /\ action'[b] = action[b] /\ approval'[b] = approval[b]
                 /\ reservation'[b] = reservation[b]
                 /\ grant'[b] = grant[b] /\ tokens'[b] = tokens[b]
                 /\ claim'[b] = claim[b] /\ attempt'[b] = attempt[b]
                 /\ payment'[b] = payment[b]
<1> USE DEF TypeOK
<1>1. ASSUME NEW s \in Sessions, NEW e \in 1..(MaxTime + 1), Authorize(a, s, e)
      PROVE  UNCHANGED <<authority, grant, tokens, claim, attempt, payment>>
             /\ \A b \in Actions \ {a} : /\ action'[b] = action[b]
                                         /\ approval'[b] = approval[b]
                                         /\ reservation'[b] = reservation[b]
  BY <1>1 DEF Authorize, NewAction
<1>2. ASSUME NEW h \in Humans, Approve(a, h) \/ Reject(a, h)
      PROVE  UNCHANGED <<authority, grant, tokens, claim, attempt, payment>>
             /\ \A b \in Actions \ {a} : /\ action'[b] = action[b]
                                         /\ approval'[b] = approval[b]
                                         /\ reservation'[b] = reservation[b]
  BY <1>2 DEF Approve, Reject
<1>3. CASE Cancel(a)
  BY <1>3 DEF Cancel
<1>4. CASE IssueGrant(a)
  BY <1>4 DEF IssueGrant
<1>5. CASE ReplaceGrant(a)
  BY <1>5 DEF ReplaceGrant
<1>6. ASSUME NEW g \in 1..MaxGeneration, NEW x \in Attempts, ClaimGrant(a, g, x)
      PROVE  UNCHANGED <<authority, action, approval, tokens, attempt, payment>>
             /\ \A b \in Actions \ {a} : /\ grant'[b] = grant[b]
                                         /\ claim'[b] = claim[b]
                                         /\ reservation'[b] = reservation[b]
  BY <1>6 DEF ClaimGrant
<1>7. CASE RevokeGrant(a)
  BY <1>7 DEF RevokeGrant
<1>8. ASSUME NEW x \in Attempts, PersistAttempt(a, x)
      PROVE  UNCHANGED <<authority, action, approval, reservation, grant,
                         tokens, claim, payment>>
             /\ \A b \in Actions \ {a} : attempt'[b] = attempt[b]
  BY <1>8 DEF PersistAttempt
<1>9. ASSUME NEW arrives \in BOOLEAN, RecordDispatch(a, arrives)
      PROVE  UNCHANGED <<authority, action, approval, reservation, grant,
                         tokens, claim>>
             /\ \A b \in Actions \ {a} : /\ attempt'[b] = attempt[b]
                                         /\ payment'[b] = payment[b]
  BY <1>9 DEF RecordDispatch
<1>10. CASE SendPayment(a)
  BY <1>10 DEF SendPayment
<1>11. ASSUME NEW o \in {"pending", "committed"}, RecordObservation(a, o)
       PROVE  UNCHANGED <<authority, action, approval, reservation, grant,
                          tokens, claim, payment>>
              /\ \A b \in Actions \ {a} : attempt'[b] = attempt[b]
  BY <1>11 DEF RecordObservation
<1>12. QED
  BY <1>1, <1>2, <1>3, <1>4, <1>5, <1>6, <1>7, <1>8, <1>9, <1>10, <1>11
  DEF Handlers

(* The other steps write no row of an action.                              *)
LEMMA OtherSteps ==
    ASSUME [Next]_vars, \A a \in Actions : ~Handlers(a)
    PROVE  UNCHANGED commerce
BY DEF Next, PolicyOperations, CreatePolicy, RevisePolicy, PausePolicy,
   ResumePolicy, RevokePolicy, ChainChanges, ListingChanges, Tick, vars,
   commerce

(* An action that exists was requested by a session.                       *)
SessionKnown ==
    \A a \in Actions :
        action[a].status # "none" => action[a].session \in Sessions

RowsInv == TypeOK /\ RowsAgree /\ SessionKnown

LEMMA InitRows == Init => RowsAgree /\ SessionKnown
BY DEF Init, RowsAgree, RowAgrees, SessionKnown, Unresolved, NoAction,
   NoApprove, NoGrant, NoClaim

LEMMA HandlersSessionKnown ==
    ASSUME TypeOK, SessionKnown, NEW a \in Actions, Handlers(a)
    PROVE  action'[a].status # "none" => action'[a].session \in Sessions
<1> USE DEF TypeOK, ActionType, SessionKnown
<1>1. ASSUME NEW s \in Sessions, NEW e \in 1..(MaxTime + 1), Authorize(a, s, e)
      PROVE  action'[a].session \in Sessions
  BY <1>1 DEF Authorize, NewAction
<1>2. CASE action'[a].session = action[a].session
           /\ action[a].status # "none"
  BY <1>2
<1>3. CASE action'[a] = action[a]
  BY <1>3
<1>4. ASSUME NEW h \in Humans, Approve(a, h) \/ Reject(a, h)
      PROVE  action'[a].session \in Sessions
  <2>1. action[a].session \in Sessions
    BY <1>4 DEF Approve, Reject, Decidable
  <2>2. action'[a].session = action[a].session
    BY <1>4 DEF Approve, Reject
  <2>3. QED
    BY <2>1, <2>2
<1>5. ASSUME Cancel(a) \/ IssueGrant(a)
      PROVE  action'[a].session \in Sessions
  BY <1>5 DEF Cancel, IssueGrant
<1>6. ASSUME RevokeGrant(a)
      PROVE  \/ action'[a] = action[a]
             \/ action'[a].session = action[a].session
                /\ action[a].status # "none"
  BY <1>6 DEF RevokeGrant
<1>7. QED
  BY <1>1, <1>2, <1>3, <1>4, <1>5, <1>6
  DEF Handlers, ReplaceGrant, ClaimGrant, PersistAttempt, RecordDispatch,
      SendPayment, RecordObservation

LEMMA HandlersRowAgrees ==
    ASSUME TypeOK, NEW a \in Actions, RowAgrees(a), Handlers(a)
    PROVE  RowAgrees(a)'
<1> USE DEF TypeOK, RowAgrees, Unresolved
<1>1. ASSUME NEW s \in Sessions, NEW e \in 1..(MaxTime + 1), Authorize(a, s, e)
      PROVE  RowAgrees(a)'
  BY <1>1 DEF Authorize, Admissible, NewAction
<1>2. ASSUME NEW h \in Humans, Approve(a, h)
      PROVE  RowAgrees(a)'
  BY <1>2 DEF Approve, Decidable, ActionType
<1>3. ASSUME NEW h \in Humans, Reject(a, h)
      PROVE  RowAgrees(a)'
  BY <1>3 DEF Reject, Decidable, ActionType
<1>4. CASE Cancel(a)
  BY <1>4 DEF Cancel, Releasable, ActionType, ApproveType
<1>5. CASE IssueGrant(a)
  BY <1>5 DEF IssueGrant, ActionType
<1>6. CASE ReplaceGrant(a)
  BY <1>6 DEF ReplaceGrant, GrantType
<1>7. ASSUME NEW g \in 1..MaxGeneration, NEW x \in Attempts, ClaimGrant(a, g, x)
      PROVE  RowAgrees(a)'
  <2>1. [attempt |-> x, at |-> now] # NoClaim
    BY BindingAssumption DEF NoClaim
  <2>2. QED
    BY <1>7, <2>1 DEF ClaimGrant, GrantUsable, GrantType
<1>8. CASE RevokeGrant(a)
  BY <1>8 DEF RevokeGrant, NothingPaid, Releasable, GrantType, ActionType
<1>9. QED
  BY <1>1, <1>2, <1>3, <1>4, <1>5, <1>6, <1>7, <1>8
  DEF Handlers, PersistAttempt, RecordDispatch, SendPayment,
      RecordObservation

LEMMA NextRows == RowsInv /\ [Next]_vars => RowsAgree' /\ SessionKnown'
<1> SUFFICES ASSUME RowsInv, [Next]_vars
             PROVE  RowsAgree' /\ SessionKnown'
  OBVIOUS
<1>1. ASSUME NEW a \in Actions, Handlers(a)
      PROVE  RowsAgree' /\ SessionKnown'
  <2>1. ASSUME NEW b \in Actions
        PROVE  /\ RowAgrees(b)'
               /\ action'[b].status # "none" => action'[b].session \in Sessions
    <3>1. CASE b = a
      BY <1>1, <3>1, HandlersRowAgrees, HandlersSessionKnown
      DEF RowsInv, RowsAgree
    <3>2. CASE b # a
      BY <1>1, <3>2, HandlersFrame
      DEF RowsInv, RowsAgree, RowAgrees, SessionKnown, Unresolved
    <3>3. QED
      BY <3>1, <3>2
  <2>2. QED
    BY <2>1 DEF RowsAgree, SessionKnown
<1>2. CASE UNCHANGED commerce
  BY <1>2 DEF RowsInv, RowsAgree, RowAgrees, SessionKnown, Unresolved, commerce
<1>3. QED
  BY <1>1, <1>2, OtherSteps

(* TypeOK, RowsAgree and SessionKnown are inductive together.              *)
THEOREM RowsCorrect == Spec => []RowsInv
<1>1. Init => RowsInv
  BY InitTypeOK, InitRows DEF RowsInv
<1>2. RowsInv /\ [Next]_vars => RowsInv'
  BY NextTypeOK, NextRows DEF RowsInv
<1>3. QED
  BY <1>1, <1>2, PTL DEF Spec

(* The reservation, approval, grant and claim rows of an action never      *)
(* contradict its status, whatever the handlers interleave.                *)
THEOREM RowsAlwaysAgree == Spec => []RowsAgree
<1>1. RowsInv => RowsAgree
  BY DEF RowsInv
<1>2. QED
  BY <1>1, RowsCorrect, PTL
-----------------------------------------------------------------------------
(* The budget.                                                             *)

(* The assessment reads a sum over all unresolved rows; what it admits     *)
(* bounds the debits of every set that contains the new row.               *)
LEMMA AdmissionCovers ==
    ASSUME NEW U \in SUBSET Actions, NEW a \in Actions, NEW limit \in Nat,
           DebitSum[U] + Debit[a] <= limit,
           NEW S \in SUBSET (U \cup {a})
    PROVE  DebitSum[S] <= limit
<1> DEFINE R == S \ {a}
<1>1. /\ DebitSum[R] \in Nat /\ DebitSum[U] \in Nat
      /\ DebitSum[U \ R] \in Nat /\ DebitSum[S] \in Nat /\ Debit[a] \in Nat
  BY SumAssumption, NumberAssumption
<1>2. DebitSum[U] = DebitSum[R] + DebitSum[U \ R]
  <2>1. R \in SUBSET U
    OBVIOUS
  <2>2. QED
    BY <2>1, SumAssumption
<1>3. CASE a \in S
  <2>1. {a} \in SUBSET S /\ S \in SUBSET Actions
    BY <1>3
  <2>2. DebitSum[S] = DebitSum[{a}] + DebitSum[R]
    BY <2>1, SumAssumption
  <2>3. DebitSum[{a}] = Debit[a]
    BY SumAssumption
  <2>4. QED
    BY <1>1, <1>2, <2>2, <2>3
<1>4. CASE a \notin S
  <2>1. S = R
    BY <1>4
  <2>2. QED
    BY <1>1, <1>2, <2>1
<1>5. QED
  BY <1>3, <1>4

(* What one handler may do to the unresolved exposure: admit its action    *)
(* within the current sum, or let it go, or leave it.                      *)
LEMMA HandlersExposure ==
    ASSUME RowsInv, NEW a \in Actions, Handlers(a)
    PROVE  \/ Unresolved' \in SUBSET Unresolved
           \/ /\ Unresolved' = Unresolved \cup {a}
              /\ TermsOf(a)' \in TermsType
              /\ ReadableExposure
              /\ TermsOf(a)'.rolling # NoLimit =>
                    DebitSum[Unresolved] + Debit[a] <= TermsOf(a)'.rolling
<1> USE DEF RowsInv, TypeOK
<1>1. ASSUME NEW s \in Sessions, NEW e \in 1..(MaxTime + 1), Authorize(a, s, e)
      PROVE  \/ Unresolved' \in SUBSET Unresolved
             \/ /\ Unresolved' = Unresolved \cup {a}
                /\ TermsOf(a)' \in TermsType
                /\ ReadableExposure
                /\ TermsOf(a)'.rolling # NoLimit =>
                      DebitSum[Unresolved] + Debit[a] <= TermsOf(a)'.rolling
  <2> DEFINE t == Terms[SessionPolicy[s]][policy[SessionPolicy[s]].revision]
  <2>1. t \in TermsType
    <3>1. SessionPolicy[s] \in Policies
      BY BindingAssumption
    <3>2. policy[SessionPolicy[s]].revision \in 1..MaxRevision
      BY <3>1
    <3>3. QED
      BY <3>1, <3>2, RevisionTyped
  <2>2. TermsOf(a)' = t
    BY <1>1 DEF Authorize, NewAction, TermsOf, PolicyOf
  <2>3. WithinBudget(t, a)
    BY <1>1 DEF Authorize
  <2>4. \/ UNCHANGED reservation
        \/ reservation' = [reservation EXCEPT ![a] = "held"]
    BY <1>1 DEF Authorize
  <2>5. Unresolved' = Unresolved \/ Unresolved' = Unresolved \cup {a}
    BY <2>4 DEF Unresolved
  <2>6. QED
    BY <2>1, <2>2, <2>3, <2>5 DEF WithinBudget
<1>2. ASSUME NEW h \in Humans, Approve(a, h)
      PROVE  /\ Unresolved' = Unresolved \cup {a}
             /\ TermsOf(a)' \in TermsType
             /\ ReadableExposure
             /\ TermsOf(a)'.rolling # NoLimit =>
                   DebitSum[Unresolved] + Debit[a] <= TermsOf(a)'.rolling
  <2>1. action[a].session \in Sessions
    BY <1>2 DEF Approve, Decidable, SessionKnown
  <2>2. TermsOf(a) \in TermsType
    BY <2>1, TermsTyped
  <2>3. TermsOf(a)' = TermsOf(a)
    BY <1>2 DEF Approve, TermsOf, PolicyOf, ActionType
  <2>4. Unresolved' = Unresolved \cup {a}
    BY <1>2 DEF Approve, Unresolved
  <2>5. WithinBudget(TermsOf(a), a)
    BY <1>2 DEF Approve
  <2>6. QED
    BY <2>2, <2>3, <2>4, <2>5 DEF WithinBudget
<1>3. CASE Cancel(a)
  BY <1>3 DEF Cancel, Unresolved
<1>4. CASE RevokeGrant(a)
  BY <1>4 DEF RevokeGrant, Unresolved
<1>5. ASSUME NEW g \in 1..MaxGeneration, NEW x \in Attempts, ClaimGrant(a, g, x)
      PROVE  Unresolved' = Unresolved
  BY <1>5 DEF ClaimGrant, GrantUsable, Unresolved
<1>6. QED
  BY <1>1, <1>2, <1>3, <1>4, <1>5
  DEF Handlers, Reject, IssueGrant, ReplaceGrant, PersistAttempt,
      RecordDispatch, SendPayment, RecordObservation, Unresolved

(* Unresolved actions keep the terms they were admitted under.             *)
LEMMA HandlersKeepTerms ==
    ASSUME RowsInv, NEW a \in Actions, Handlers(a),
           NEW b \in Actions, b \in Unresolved
    PROVE  TermsOf(b)' = TermsOf(b)
<1> USE DEF RowsInv, TypeOK
<1>1. CASE b # a
  BY <1>1, HandlersFrame DEF TermsOf, PolicyOf
<1>2. CASE b = a
  <2>1. action[a].status \in {"reserved_not_granted", "grant_issued"}
    BY <1>2 DEF RowsAgree, RowAgrees
  <2>2. /\ action'[a].session = action[a].session
        /\ action'[a].revision = action[a].revision
    BY <2>1
    DEF Handlers, Authorize, Admissible, Approve, Reject, Decidable, Cancel,
        IssueGrant, ReplaceGrant, ClaimGrant, RevokeGrant, PersistAttempt,
        RecordDispatch, SendPayment, RecordObservation, ActionType
  <2>3. QED
    BY <1>2, <2>2 DEF TermsOf, PolicyOf
<1>3. QED
  BY <1>1, <1>2

LEMMA NextExposure == RowsInv /\ ExposureCovered /\ [Next]_vars => ExposureCovered'
<1> SUFFICES ASSUME RowsInv, ExposureCovered, [Next]_vars
             PROVE  ExposureCovered'
  OBVIOUS
<1>1. ASSUME NEW a \in Actions, Handlers(a)
      PROVE  ExposureCovered'
  <2> SUFFICES ASSUME NEW S \in SUBSET Unresolved', S # {}
               PROVE  \E b \in S : Covers(b, S)'
    BY DEF ExposureCovered
  <2>1. Unresolved \in SUBSET Actions
    BY DEF Unresolved
  <2>2. CASE S \in SUBSET Unresolved
    <3>1. PICK b \in S : Covers(b, S)
      BY <2>2 DEF ExposureCovered
    <3>2. TermsOf(b)' = TermsOf(b)
      BY <1>1, <2>1, <2>2, HandlersKeepTerms
    <3>3. Covers(b, S)'
      BY <3>1, <3>2 DEF Covers
    <3>4. QED
      BY <3>3
  <2>3. CASE ~(S \in SUBSET Unresolved)
    <3>1. /\ S \in SUBSET (Unresolved \cup {a}) /\ a \in S
          /\ TermsOf(a)' \in TermsType
          /\ TermsOf(a)'.rolling # NoLimit =>
                DebitSum[Unresolved] + Debit[a] <= TermsOf(a)'.rolling
      BY <1>1, <2>3, HandlersExposure
    <3>2. CASE TermsOf(a)'.rolling = NoLimit
      BY <3>1, <3>2 DEF Covers
    <3>3. CASE TermsOf(a)'.rolling # NoLimit
      <4>1. TermsOf(a)'.rolling \in Nat
        BY <3>1, <3>3 DEF TermsType
      <4>2. DebitSum[S] <= TermsOf(a)'.rolling
        BY <2>1, <3>1, <3>3, <4>1, AdmissionCovers
      <4>3. QED
        BY <3>1, <4>2 DEF Covers
    <3>4. QED
      BY <3>2, <3>3
  <2>4. QED
    BY <2>2, <2>3
<1>2. CASE UNCHANGED commerce
  BY <1>2 DEF ExposureCovered, Covers, Unresolved, TermsOf, PolicyOf, commerce
<1>3. QED
  BY <1>1, <1>2, OtherSteps

(* However policies, sessions and decisions follow each other, every part  *)
(* of the unresolved exposure fits the limit of one of the actions in it.  *)
THEOREM BudgetHolds == Spec => []ExposureCovered
<1>1. Init => ExposureCovered
  BY DEF Init, ExposureCovered, Unresolved
<1>2. RowsInv /\ ExposureCovered /\ [Next]_vars => ExposureCovered'
  BY NextExposure
<1>3. QED
  BY <1>1, <1>2, RowsCorrect, PTL DEF Spec

(* The assessments never leave more rows than they are willing to read and *)
(* one more.                                                               *)
THEOREM RowsBounded == Spec => []UnresolvedRowsBounded
<1>1. Init => UnresolvedRowsBounded
  <2>1. Init => Unresolved = {}
    BY DEF Init, Unresolved
  <2>2. QED
    BY <2>1, FS_EmptySet, NumberAssumption DEF UnresolvedRowsBounded
<1>2. RowsInv /\ UnresolvedRowsBounded /\ [Next]_vars => UnresolvedRowsBounded'
  <2> SUFFICES ASSUME RowsInv, UnresolvedRowsBounded, [Next]_vars
               PROVE  UnresolvedRowsBounded'
    OBVIOUS
  <2>1. IsFiniteSet(Unresolved) /\ IsFiniteSet(Unresolved')
    <3>1. Unresolved \in SUBSET Actions /\ Unresolved' \in SUBSET Actions
      BY DEF Unresolved
    <3>2. QED
      BY <3>1, FS_Subset, NumberAssumption
  <2>2. ASSUME NEW a \in Actions, Handlers(a)
        PROVE  UnresolvedRowsBounded'
    <3>1. CASE Unresolved' \in SUBSET Unresolved
      <4>1. Cardinality(Unresolved') <= Cardinality(Unresolved)
        BY <2>1, <3>1, FS_Subset
      <4>2. /\ Cardinality(Unresolved') \in Nat
            /\ Cardinality(Unresolved) \in Nat
        BY <2>1, FS_CardinalityType
      <4>3. QED
        BY <4>1, <4>2, NumberAssumption DEF UnresolvedRowsBounded
    <3>2. CASE Unresolved' = Unresolved \cup {a} /\ ReadableExposure
      <4>1. /\ Cardinality(Unresolved) \in Nat
            /\ \/ Cardinality(Unresolved') = Cardinality(Unresolved)
               \/ Cardinality(Unresolved') = Cardinality(Unresolved) + 1
        BY <2>1, <3>2, FS_CardinalityType, FS_AddElement
      <4>2. QED
        BY <3>2, <4>1, NumberAssumption
        DEF UnresolvedRowsBounded, ReadableExposure
    <3>3. QED
      BY <2>2, <3>1, <3>2, HandlersExposure
  <2>3. CASE UNCHANGED commerce
    BY <2>3 DEF UnresolvedRowsBounded, Unresolved, commerce
  <2>4. QED
    BY <2>2, <2>3, OtherSteps
<1>3. QED
  BY <1>1, <1>2, RowsCorrect, PTL DEF Spec
-----------------------------------------------------------------------------
(* Payments.                                                               *)

LEMMA HandlersExposureKept ==
    ASSUME RowsInv, NEW a \in Actions, ExposureKept(a), Handlers(a)
    PROVE  ExposureKept(a)'
<1> USE DEF ExposureKept, Unresolved
<1>1. RowAgrees(a) /\ TypeOK
  BY DEF RowsInv, RowsAgree
<1>2. ASSUME NEW s \in Sessions, NEW e \in 1..(MaxTime + 1), Authorize(a, s, e)
      PROVE  ExposureKept(a)'
  <2>1. attempt[a].state = "none"
    BY <1>2 DEF Authorize, Admissible
  <2>2. QED
    BY <1>2, <2>1 DEF Authorize
<1>3. ASSUME NEW h \in Humans, Approve(a, h) \/ Reject(a, h)
      PROVE  ExposureKept(a)'
  <2>1. attempt[a].state = "none"
    BY <1>3 DEF Approve, Reject, Decidable
  <2>2. QED
    BY <1>3, <2>1 DEF Approve, Reject
<1>4. CASE Cancel(a)
  <2>1. attempt[a].state = "none"
    BY <1>4 DEF Cancel
  <2>2. QED
    BY <1>4, <2>1 DEF Cancel
<1>5. CASE IssueGrant(a)
  <2>1. attempt[a].state = "none"
    BY <1>5 DEF IssueGrant
  <2>2. QED
    BY <1>5, <2>1 DEF IssueGrant
<1>6. CASE ReplaceGrant(a)
  BY <1>6 DEF ReplaceGrant
<1>7. ASSUME NEW g \in 1..MaxGeneration, NEW x \in Attempts, ClaimGrant(a, g, x)
      PROVE  ExposureKept(a)'
  BY <1>1, <1>7 DEF ClaimGrant, GrantUsable, TypeOK
<1>8. CASE RevokeGrant(a)
  <2>1. CASE NothingPaid(a)
    BY <1>8, <2>1 DEF RevokeGrant, NothingPaid
  <2>2. CASE ~NothingPaid(a)
    <3>1. /\ reservation'[a] = reservation[a]
          /\ action'[a].status = action[a].status
          /\ attempt' = attempt /\ payment' = payment
      BY <1>1, <1>8, <2>2 DEF RevokeGrant, TypeOK, ActionType
    <3>2. QED
      BY <3>1
  <2>3. QED
    BY <2>1, <2>2
<1>9. ASSUME NEW x \in Attempts, PersistAttempt(a, x)
      PROVE  ExposureKept(a)'
  BY <1>1, <1>9 DEF PersistAttempt, GrantUsable, TypeOK
<1>10. ASSUME NEW r \in BOOLEAN, RecordDispatch(a, r)
       PROVE  ExposureKept(a)'
  <2>1. attempt'[a].state = "unknown"
    BY <1>1, <1>10 DEF RecordDispatch, TypeOK, AttemptType
  <2>2. QED
    BY <1>10, <2>1 DEF RecordDispatch, Dispatchable
<1>11. CASE SendPayment(a)
  BY <1>1, <1>11 DEF SendPayment, TypeOK
<1>12. ASSUME NEW o \in {"pending", "committed"}, RecordObservation(a, o)
       PROVE  ExposureKept(a)'
  <2>1. attempt'[a].state = o
    BY <1>1, <1>12 DEF RecordObservation, TypeOK, AttemptType
  <2>2. QED
    BY <1>12, <2>1 DEF RecordObservation, Observable
<1>13. QED
  BY <1>2, <1>3, <1>4, <1>5, <1>6, <1>7, <1>8, <1>9, <1>10, <1>11, <1>12
  DEF Handlers

(* No revocation, cancellation, expiry or replay gives back the budget of  *)
(* a payment that may have left the buyer.                                 *)
THEOREM PaymentsKeepExposure == Spec => []AttemptKeepsExposure
<1>1. Init => AttemptKeepsExposure
  BY DEF Init, AttemptKeepsExposure, ExposureKept, NoPayment
<1>2. RowsInv /\ AttemptKeepsExposure /\ [Next]_vars => AttemptKeepsExposure'
  <2> SUFFICES ASSUME RowsInv, AttemptKeepsExposure, [Next]_vars
               PROVE  AttemptKeepsExposure'
    OBVIOUS
  <2>1. ASSUME NEW a \in Actions, Handlers(a)
        PROVE  AttemptKeepsExposure'
    <3>1. ASSUME NEW b \in Actions \ {a}
          PROVE  ExposureKept(b)'
      BY <2>1, <3>1, HandlersFrame
      DEF RowsInv, AttemptKeepsExposure, ExposureKept, Unresolved
    <3>2. ExposureKept(a)'
      BY <2>1, HandlersExposureKept DEF AttemptKeepsExposure
    <3>3. QED
      BY <3>1, <3>2 DEF AttemptKeepsExposure
  <2>2. CASE UNCHANGED commerce
    BY <2>2 DEF AttemptKeepsExposure, ExposureKept, Unresolved, commerce
  <2>3. QED
    BY <2>1, <2>2, OtherSteps
<1>3. QED
  BY <1>1, <1>2, RowsCorrect, PTL DEF Spec
-----------------------------------------------------------------------------
(* Grant tokens.                                                           *)

LEMMA HandlersLiveToken ==
    ASSUME TypeOK, NEW a \in Actions, LiveToken(a), Handlers(a)
    PROVE  LiveToken(a)'
<1> USE DEF LiveToken, TypeOK, GrantType
<1>1. CASE IssueGrant(a)
  BY <1>1 DEF IssueGrant
<1>2. CASE ReplaceGrant(a)
  <2>1. /\ grant[a].status = "issued"
        /\ tokens[a] = {grant[a].generation}
    BY <1>2 DEF ReplaceGrant, GrantUsable
  <2>2. tokens'[a] = {grant[a].generation + 1}
    BY <1>2, <2>1 DEF ReplaceGrant, TokensAfterReplace
  <2>3. /\ grant'[a].status = "issued"
        /\ grant'[a].generation = grant[a].generation + 1
    BY <1>2, <2>1 DEF ReplaceGrant
  <2>4. QED
    BY <2>2, <2>3
<1>3. ASSUME NEW g \in 1..MaxGeneration, NEW x \in Attempts, ClaimGrant(a, g, x)
      PROVE  LiveToken(a)'
  BY <1>3 DEF ClaimGrant, GrantUsable
<1>4. CASE RevokeGrant(a)
  BY <1>4 DEF RevokeGrant
<1>5. CASE UNCHANGED <<grant, tokens>>
  BY <1>5
<1>6. QED
  BY <1>1, <1>2, <1>3, <1>4, <1>5
  DEF Handlers, Authorize, Approve, Reject, Cancel, PersistAttempt,
      RecordDispatch, SendPayment, RecordObservation

(* At most the latest token of a grant is live, and none after revocation. *)
THEOREM TokensRotate == Spec => []OneLiveToken
<1>1. Init => OneLiveToken
  BY DEF Init, OneLiveToken, LiveToken, NoGrant
<1>2. TypeOK /\ OneLiveToken /\ [Next]_vars => OneLiveToken'
  <2> SUFFICES ASSUME TypeOK, OneLiveToken, [Next]_vars
               PROVE  OneLiveToken'
    OBVIOUS
  <2>1. ASSUME NEW a \in Actions, Handlers(a)
        PROVE  OneLiveToken'
    <3>1. ASSUME NEW b \in Actions \ {a}
          PROVE  LiveToken(b)'
      BY <2>1, <3>1, HandlersFrame DEF OneLiveToken, LiveToken
    <3>2. LiveToken(a)'
      BY <2>1, HandlersLiveToken DEF OneLiveToken
    <3>3. QED
      BY <3>1, <3>2 DEF OneLiveToken
  <2>2. CASE UNCHANGED commerce
    BY <2>2 DEF OneLiveToken, LiveToken, commerce
  <2>3. QED
    BY <2>1, <2>2, OtherSteps
<1>3. QED
  BY <1>1, <1>2, TypeCorrect, PTL DEF Spec
-----------------------------------------------------------------------------
(* Approval.                                                               *)

LEMMA HandlersApprovedFirst ==
    ASSUME RowsInv, NEW a \in Actions, ApprovedFirst(a), Handlers(a)
    PROVE  ApprovedFirst(a)'
<1>1. RowAgrees(a) /\ TypeOK
  BY DEF RowsInv, RowsAgree
<1>2. /\ action[a].status \in {"none", "pending_approval"}
            => reservation[a] = "none"
  BY <1>1 DEF RowAgrees, Unresolved, TypeOK, ReservationStatuses
<1>3. ASSUME NEW s \in Sessions, NEW e \in 1..(MaxTime + 1), Authorize(a, s, e)
      PROVE  ApprovedFirst(a)'
  <2> DEFINE t == Terms[SessionPolicy[s]][policy[SessionPolicy[s]].revision]
  <2>1. TermsOf(a)' = t
    BY <1>1, <1>3 DEF Authorize, NewAction, TermsOf, PolicyOf, TypeOK
  <2>2. reservation[a] = "none"
    BY <1>2, <1>3 DEF Authorize, Admissible
  <2>3. reservation'[a] # "none" => ~NeedsApproval(t, a)
    BY <1>3, <2>2 DEF Authorize
  <2>4. NeedsApproval(TermsOf(a), a)' <=> NeedsApproval(t, a)
    BY <2>1 DEF NeedsApproval
  <2>5. QED
    BY <2>3, <2>4 DEF ApprovedFirst
<1>4. ASSUME /\ action'[a].session = action[a].session
             /\ action'[a].revision = action[a].revision
      PROVE  TermsOf(a)' = TermsOf(a)
  BY <1>4 DEF TermsOf, PolicyOf
<1>5. ASSUME NEW h \in Humans, Approve(a, h)
      PROVE  ApprovedFirst(a)'
  <2>1. /\ action'[a].session = action[a].session
        /\ action'[a].revision = action[a].revision
    BY <1>1, <1>5 DEF Approve, TypeOK, ActionType
  <2>2. /\ approval'[a].status = "approved"
        /\ approval'[a].decidedBy = h
    BY <1>1, <1>5 DEF Approve, TypeOK
  <2>3. TermsOf(a).separate => h # Requester[action[a].session]
    BY <1>5 DEF Approve, Decidable
  <2>4. QED
    BY <1>4, <2>1, <2>2, <2>3 DEF ApprovedFirst
<1>6. ASSUME reservation'[a] = "none"
      PROVE  ApprovedFirst(a)'
  BY <1>6 DEF ApprovedFirst
<1>7. ASSUME /\ reservation[a] # "none" /\ approval'[a] = approval[a]
             /\ action'[a].session = action[a].session
             /\ action'[a].revision = action[a].revision
      PROVE  ApprovedFirst(a)'
  BY <1>4, <1>7 DEF ApprovedFirst, NeedsApproval
<1>8. ASSUME NEW h \in Humans, Reject(a, h)
      PROVE  reservation'[a] = "none"
  BY <1>2, <1>8 DEF Reject, Decidable
<1>9. CASE Cancel(a)
  <2>1. CASE action[a].status = "pending_approval"
    <3>1. reservation'[a] = "none"
      BY <1>2, <1>9, <2>1 DEF Cancel
    <3>2. QED
      BY <3>1, <1>6
  <2>2. CASE action[a].status # "pending_approval"
    <3>1. reservation[a] # "none" /\ approval' = approval
      BY <1>9, <2>2 DEF Cancel, Releasable
    <3>2. /\ action'[a].session = action[a].session
          /\ action'[a].revision = action[a].revision
      BY <1>1, <1>9 DEF Cancel, TypeOK, ActionType
    <3>3. QED
      BY <1>7, <3>1, <3>2
  <2>3. QED
    BY <2>1, <2>2
<1>10. ASSUME \/ IssueGrant(a) \/ RevokeGrant(a)
              \/ \E g \in 1..MaxGeneration, x \in Attempts : ClaimGrant(a, g, x)
       PROVE  ApprovedFirst(a)'
  <2>1. approval' = approval
    BY <1>10 DEF IssueGrant, RevokeGrant, ClaimGrant
  <2>2. action' = action \/ \E st : action' = [action EXCEPT ![a].status = st]
    BY <1>10 DEF IssueGrant, RevokeGrant, ClaimGrant
  <2>3. /\ action'[a].session = action[a].session
        /\ action'[a].revision = action[a].revision
    BY <1>1, <2>2 DEF TypeOK, ActionType
  <2>4. action[a].status \notin {"none", "pending_approval"}
    BY <1>1, <1>10
    DEF IssueGrant, RevokeGrant, ClaimGrant, GrantUsable, RowAgrees
  <2>5. reservation[a] # "none"
    BY <1>1, <1>10
    DEF IssueGrant, RevokeGrant, ClaimGrant, GrantUsable, RowAgrees, Unresolved
  <2>6. QED
    BY <1>7, <2>1, <2>3, <2>5
<1>11. CASE UNCHANGED <<action, approval, reservation>>
  BY <1>11 DEF ApprovedFirst, NeedsApproval, TermsOf, PolicyOf
<1>12. QED
  BY <1>3, <1>5, <1>6, <1>8, <1>9, <1>10, <1>11
  DEF Handlers, ReplaceGrant, PersistAttempt, RecordDispatch, SendPayment,
      RecordObservation

(* A debit that needs an approval is never reserved without one, and with  *)
(* a separate approver never by the human behind the requesting session.   *)
THEOREM ApprovalsPrecede == Spec => []ApprovedBeforeReserved
<1>1. Init => ApprovedBeforeReserved
  BY DEF Init, ApprovedBeforeReserved, ApprovedFirst
<1>2. RowsInv /\ ApprovedBeforeReserved /\ [Next]_vars
         => ApprovedBeforeReserved'
  <2> SUFFICES ASSUME RowsInv, ApprovedBeforeReserved, [Next]_vars
               PROVE  ApprovedBeforeReserved'
    OBVIOUS
  <2>1. ASSUME NEW a \in Actions, Handlers(a)
        PROVE  ApprovedBeforeReserved'
    <3>1. ASSUME NEW b \in Actions \ {a}
          PROVE  ApprovedFirst(b)'
      <4>1. /\ action'[b] = action[b] /\ approval'[b] = approval[b]
            /\ reservation'[b] = reservation[b]
        BY <2>1, <3>1, HandlersFrame DEF RowsInv
      <4>2. TermsOf(b)' = TermsOf(b)
        BY <4>1 DEF TermsOf, PolicyOf
      <4>3. ApprovedFirst(b)
        BY DEF ApprovedBeforeReserved
      <4>4. QED
        BY <4>1, <4>2, <4>3 DEF ApprovedFirst, NeedsApproval
    <3>2. ApprovedFirst(a)'
      BY <2>1, HandlersApprovedFirst DEF ApprovedBeforeReserved
    <3>3. QED
      BY <3>1, <3>2 DEF ApprovedBeforeReserved
  <2>2. CASE UNCHANGED commerce
    BY <2>2 DEF ApprovedBeforeReserved, ApprovedFirst, NeedsApproval, TermsOf,
                PolicyOf, commerce
  <2>3. QED
    BY <2>1, <2>2, OtherSteps
<1>3. QED
  BY <1>1, <1>2, RowsCorrect, PTL DEF Spec
-----------------------------------------------------------------------------
(* Claims and payments.                                                    *)

Dispatched == {"unknown", "pending", "committed"}

(* The rows a claim relates, of one action.                                *)
ClaimRow(a) ==
    /\ attempt[a].state = "none" <=> attempt[a].id = NoAttempt
    /\ grant[a].status # "none" =>
          action[a].status # "none" /\ grant[a].expires <= action[a].expires
    /\ claim[a] # NoClaim =>
          /\ grant[a].status # "none" /\ claim[a].at < grant[a].expires
          /\ attempt[a].id = claim[a].attempt /\ attempt[a].state \in Dispatched

IdsDiffer ==
    \A a \in Actions : \A b \in Actions \ {a} :
        attempt[a].id # NoAttempt => attempt[b].id # attempt[a].id

LEMMA HandlersClaimRow ==
    ASSUME TypeOK, NEW a \in Actions, ClaimRow(a), Handlers(a)
    PROVE  ClaimRow(a)'
<1> USE DEF TypeOK, ClaimRow, Dispatched
<1>1. ASSUME NEW s \in Sessions, NEW e \in 1..(MaxTime + 1), Authorize(a, s, e)
      PROVE  ClaimRow(a)'
  BY <1>1 DEF Authorize, Admissible
<1>2. ASSUME action'[a].status # "none", action'[a].expires = action[a].expires,
             UNCHANGED <<grant, claim, attempt>>
      PROVE  ClaimRow(a)'
  BY <1>2
<1>3. ASSUME NEW h \in Humans, Approve(a, h) \/ Reject(a, h)
      PROVE  ClaimRow(a)'
  BY <1>2, <1>3 DEF Approve, Reject, ActionType
<1>4. CASE Cancel(a)
  BY <1>2, <1>4 DEF Cancel, ActionType
<1>5. CASE IssueGrant(a)
  <2>1. /\ grant'[a].status = "issued" /\ claim[a] = NoClaim
        /\ grant'[a].expires = Lesser(action[a].expires, now + GrantTtl)
    BY <1>5 DEF IssueGrant, GrantType
  <2>2. grant'[a].expires <= action[a].expires
    BY <2>1, NumberAssumption DEF Lesser, ActionType
  <2>3. action'[a].status = "grant_issued" /\ action'[a].expires = action[a].expires
    BY <1>5 DEF IssueGrant, ActionType
  <2>4. QED
    BY <1>5, <2>1, <2>2, <2>3 DEF IssueGrant
<1>6. CASE ReplaceGrant(a)
  BY <1>6 DEF ReplaceGrant, GrantUsable, GrantType
<1>7. ASSUME NEW g \in 1..MaxGeneration, NEW x \in Attempts, ClaimGrant(a, g, x)
      PROVE  ClaimRow(a)'
  <2>1. /\ claim'[a].attempt = x /\ claim'[a].at = now
        /\ grant'[a].status = "claimed" /\ grant'[a].expires = grant[a].expires
        /\ now < grant[a].expires /\ grant[a].status = "issued"
        /\ attempt[a].id = x /\ attempt[a].state # "persisted"
        /\ UNCHANGED <<action, attempt>>
    BY <1>7 DEF ClaimGrant, GrantUsable, PaidWith, GrantType
  <2>2. attempt[a].state \in Dispatched
    BY <2>1, BindingAssumption DEF AttemptType, AttemptStates
  <2>3. QED
    BY <2>1, <2>2
<1>8. CASE RevokeGrant(a)
  <2>1. /\ grant'[a].status = "revoked" /\ grant'[a].expires = grant[a].expires
        /\ grant[a].status # "none" /\ UNCHANGED <<claim, attempt>>
    BY <1>8 DEF RevokeGrant, GrantType
  <2>2. action'[a].status # "none" /\ action'[a].expires = action[a].expires
    BY <1>8, <2>1 DEF RevokeGrant, ActionType
  <2>3. QED
    BY <2>1, <2>2
<1>9. ASSUME NEW x \in Attempts, PersistAttempt(a, x)
      PROVE  ClaimRow(a)'
  <2>1. attempt'[a] = [state |-> "persisted", id |-> x] /\ attempt[a].state = "none"
    BY <1>9 DEF PersistAttempt
  <2>2. claim[a] = NoClaim
    BY <2>1
  <2>3. QED
    BY <1>9, <2>1, <2>2, BindingAssumption DEF PersistAttempt
<1>10. ASSUME NEW arrives \in BOOLEAN, RecordDispatch(a, arrives)
       PROVE  ClaimRow(a)'
  BY <1>10 DEF RecordDispatch, Dispatchable, AttemptType
<1>11. ASSUME NEW o \in {"pending", "committed"}, RecordObservation(a, o)
       PROVE  ClaimRow(a)'
  BY <1>11 DEF RecordObservation, Observable, AttemptType
<1>12. CASE SendPayment(a)
  BY <1>12 DEF SendPayment
<1>13. QED
  BY <1>1, <1>3, <1>4, <1>5, <1>6, <1>7, <1>8, <1>9, <1>10, <1>11, <1>12
  DEF Handlers

LEMMA HandlersIds ==
    ASSUME TypeOK, IdsDiffer, NEW a \in Actions, Handlers(a)
    PROVE  IdsDiffer'
<1>1. \A b \in Actions \ {a} : attempt'[b] = attempt[b]
  BY HandlersFrame
<1>2. CASE attempt'[a].id = attempt[a].id
  BY <1>1, <1>2 DEF IdsDiffer
<1>3. ASSUME NEW x \in Attempts, PersistAttempt(a, x)
      PROVE  IdsDiffer'
  <2>1. attempt'[a].id = x /\ \A b \in Actions : attempt[b].id # x
    BY <1>3 DEF PersistAttempt, TypeOK
  <2>2. QED
    BY <1>1, <2>1 DEF IdsDiffer
<1>4. ASSUME NEW arrives, RecordDispatch(a, arrives)
      PROVE  attempt'[a].id = attempt[a].id
  BY <1>4 DEF RecordDispatch, TypeOK, AttemptType
<1>5. ASSUME NEW o, RecordObservation(a, o)
      PROVE  attempt'[a].id = attempt[a].id
  BY <1>5 DEF RecordObservation, TypeOK, AttemptType
<1>6. CASE UNCHANGED attempt
  BY <1>2, <1>6
<1>7. QED
  BY <1>2, <1>3, <1>4, <1>5, <1>6
  DEF Handlers, Authorize, Approve, Reject, Cancel, IssueGrant, ReplaceGrant,
      ClaimGrant, RevokeGrant, SendPayment

ClaimRows == \A a \in Actions : ClaimRow(a)

LEMMA ClaimRowsCorrect == Spec => []ClaimRows
<1>1. Init => ClaimRows
  BY DEF Init, ClaimRows, ClaimRow, NoPayment, NoGrant
<1>2. TypeOK /\ ClaimRows /\ [Next]_vars => ClaimRows'
  <2> SUFFICES ASSUME TypeOK, ClaimRows, [Next]_vars, NEW b \in Actions
               PROVE  ClaimRow(b)'
    BY DEF ClaimRows
  <2>1. ASSUME NEW a \in Actions, Handlers(a)
        PROVE  ClaimRow(b)'
    <3>1. CASE a = b
      BY <2>1, <3>1, HandlersClaimRow DEF ClaimRows
    <3>2. CASE a # b
      BY <2>1, <3>2, HandlersFrame DEF ClaimRows, ClaimRow
    <3>3. QED
      BY <3>1, <3>2
  <2>2. CASE UNCHANGED commerce
    BY <2>2 DEF ClaimRows, ClaimRow, commerce
  <2>3. QED
    BY <2>1, <2>2, OtherSteps
<1>3. QED
  BY <1>1, <1>2, TypeCorrect, PTL DEF Spec

(* A claim names the one attempt that was dispatched for its action, and   *)
(* was made while grant and action were valid.                             *)
THEOREM ClaimsMatchPayments == Spec => []ClaimMatchesPayment
<1>1. Init => IdsDiffer
  BY DEF Init, IdsDiffer, NoPayment
<1>2. TypeOK /\ IdsDiffer /\ [Next]_vars => IdsDiffer'
  <2>1. ASSUME UNCHANGED commerce, IdsDiffer
        PROVE  IdsDiffer'
    BY <2>1 DEF IdsDiffer, commerce
  <2>2. QED
    BY <2>1, HandlersIds, OtherSteps
<1>3. ClaimRows /\ IdsDiffer => ClaimMatchesPayment
  <2> SUFFICES ASSUME ClaimRows, IdsDiffer, NEW a \in Actions, claim[a] # NoClaim
               PROVE  /\ attempt[a].id = claim[a].attempt
                      /\ attempt[a].state \in Dispatched
                      /\ claim[a].at < grant[a].expires
                      /\ grant[a].expires <= action[a].expires
                      /\ \A b \in Actions \ {a} : claim[b].attempt # claim[a].attempt
    BY DEF ClaimMatchesPayment, Dispatched
  <2>1. ClaimRow(a)
    BY DEF ClaimRows
  <2>2. attempt[a].id # NoAttempt
    BY <2>1 DEF ClaimRow, Dispatched
  <2>3. ASSUME NEW b \in Actions \ {a}
        PROVE  claim[b].attempt # claim[a].attempt
    <3>1. ClaimRow(b)
      BY DEF ClaimRows
    <3>2. CASE claim[b] = NoClaim
      BY <2>1, <2>2, <3>2 DEF ClaimRow, NoClaim
    <3>3. CASE claim[b] # NoClaim
      BY <2>1, <2>2, <3>1, <3>3 DEF ClaimRow, IdsDiffer
    <3>4. QED
      BY <3>2, <3>3
  <2>4. QED
    BY <2>1, <2>3 DEF ClaimRow
<1>4. QED
  BY <1>1, <1>2, <1>3, TypeCorrect, ClaimRowsCorrect, PTL DEF Spec
-----------------------------------------------------------------------------
(* What a step may never do.                                               *)

(* The handlers that spend authority prove the whole chain first, and none *)
(* of them changes what the chain is read from.                            *)
LEMMA SpendingIsChecked ==
    ASSUME RowsInv, NEW a \in Actions, Handlers(a), SpendsAuthority(a)
    PROVE  ChainCurrent(a)'
<1>1. TypeOK /\ RowAgrees(a)
  BY DEF RowsInv, RowsAgree
<1>2. UNCHANGED authority
  BY <1>1, HandlersFrame
<1>3. ASSUME NEW s \in Sessions, NEW e \in 1..(MaxTime + 1), Authorize(a, s, e)
      PROVE  ChainCurrent(a)'
  <2>1. /\ action'[a].session = s /\ action'[a].expires = e
        /\ action'[a].revision = policy[SessionPolicy[s]].revision
    BY <1>1, <1>3 DEF Authorize, NewAction, TypeOK
  <2>2. /\ chainUp[s] /\ listed /\ now < e
        /\ policy[SessionPolicy[s]].status = "active"
    BY <1>1, <1>3, NumberAssumption DEF Authorize, Admissible, TypeOK
  <2>3. QED
    BY <1>2, <2>1, <2>2 DEF ChainCurrent, PolicyOf, authority
<1>4. ASSUME ChainCurrent(a), action'[a].session = action[a].session,
             action'[a].revision = action[a].revision,
             action'[a].expires = action[a].expires
      PROVE  ChainCurrent(a)'
  BY <1>2, <1>4 DEF ChainCurrent, PolicyOf, authority
<1>5. ASSUME NEW h \in Humans, Approve(a, h)
      PROVE  ChainCurrent(a)'
  BY <1>1, <1>4, <1>5 DEF Approve, Decidable, TypeOK, ActionType
<1>6. CASE IssueGrant(a)
  BY <1>1, <1>4, <1>6 DEF IssueGrant, TypeOK, ActionType
<1>7. CASE ReplaceGrant(a) \/ \E x \in Attempts : PersistAttempt(a, x)
  BY <1>4, <1>7 DEF ReplaceGrant, PersistAttempt
<1>8. CASE \E g \in 1..MaxGeneration, x \in Attempts : ClaimGrant(a, g, x)
  BY <1>4, <1>8 DEF ClaimGrant
<1>9. CASE \E arrives \in BOOLEAN : RecordDispatch(a, arrives)
  BY <1>4, <1>9 DEF RecordDispatch, Dispatchable
<1>10. ASSUME \/ \E h \in Humans : Reject(a, h)
              \/ Cancel(a) \/ RevokeGrant(a) \/ SendPayment(a)
       PROVE  FALSE
  BY <1>1, <1>10
  DEF Reject, Cancel, RevokeGrant, SendPayment, SpendsAuthority, TypeOK
<1>11. ASSUME NEW o \in {"pending", "committed"}, RecordObservation(a, o)
       PROVE  FALSE
  BY <1>1, <1>11
  DEF RecordObservation, Observable, SpendsAuthority, TypeOK, AttemptType
<1>12. QED
  BY <1>3, <1>5, <1>6, <1>7, <1>8, <1>9, <1>10, <1>11 DEF Handlers

(* Nothing is reserved, granted, dispatched or claimed on an authority that *)
(* was revoked, revised or expired before.                                 *)
THEOREM SpendingFailsClosed == Spec => RevocationFailsClosed
<1>1. RowsInv /\ [Next]_vars
         => [\A a \in Actions : SpendsAuthority(a) => ChainCurrent(a)']_vars
  <2> SUFFICES ASSUME RowsInv, [Next]_vars, NEW a \in Actions,
                      SpendsAuthority(a)
               PROVE  ChainCurrent(a)'
    OBVIOUS
  <2>1. ASSUME NEW b \in Actions, Handlers(b)
        PROVE  ChainCurrent(a)'
    <3>1. CASE a = b
      BY <2>1, <3>1, SpendingIsChecked
    <3>2. CASE a # b
      BY <2>1, <3>2, HandlersFrame DEF SpendsAuthority, RowsInv
    <3>3. QED
      BY <3>1, <3>2
  <2>2. CASE UNCHANGED commerce
    BY <2>2 DEF SpendsAuthority, commerce
  <2>3. QED
    BY <2>1, <2>2, OtherSteps
<1>2. QED
  BY <1>1, RowsCorrect, PTL DEF Spec, RevocationFailsClosed

(* Whatever is spent is spent by a handler of the action, which exists     *)
(* then.                                                                   *)
LEMMA SpendingIsKnown ==
    ASSUME RowsInv, NEW a \in Actions, Handlers(a), SpendsAuthority(a)
    PROVE  action'[a].session \in Sessions
<1>1. TypeOK /\ RowAgrees(a) /\ SessionKnown
  BY DEF RowsInv, RowsAgree
<1>2. CASE action'[a].status # "none"
  BY <1>1, <1>2, HandlersSessionKnown
<1>3. ASSUME NEW s \in Sessions, NEW e \in 1..(MaxTime + 1), Authorize(a, s, e)
      PROVE  action'[a].session \in Sessions
  BY <1>1, <1>3 DEF Authorize, NewAction, TypeOK
<1>4. CASE action'[a].status = action[a].status /\ action[a].status # "none"
  BY <1>2, <1>4
<1>5. ASSUME NEW h \in Humans, Approve(a, h) \/ Reject(a, h)
      PROVE  action'[a].status # "none"
  BY <1>1, <1>5 DEF Approve, Reject, TypeOK, ActionType
<1>6. ASSUME Cancel(a) \/ IssueGrant(a)
      PROVE  action'[a].status # "none"
  BY <1>1, <1>6 DEF Cancel, IssueGrant, TypeOK, ActionType
<1>7. CASE \/ ReplaceGrant(a) \/ \E x \in Attempts : PersistAttempt(a, x)
           \/ \E g \in 1..MaxGeneration, x \in Attempts : ClaimGrant(a, g, x)
           \/ \E arrives \in BOOLEAN : RecordDispatch(a, arrives)
  BY <1>4, <1>7
  DEF ReplaceGrant, PersistAttempt, ClaimGrant, RecordDispatch, Dispatchable, GrantUsable
<1>8. CASE RevokeGrant(a) \/ SendPayment(a)
  BY <1>1, <1>8 DEF RevokeGrant, SendPayment, SpendsAuthority, TypeOK
<1>9. ASSUME NEW o \in {"pending", "committed"}, RecordObservation(a, o)
      PROVE  FALSE
  BY <1>1, <1>9
  DEF RecordObservation, Observable, SpendsAuthority, TypeOK, AttemptType
<1>10. QED
  BY <1>2, <1>3, <1>5, <1>6, <1>7, <1>8, <1>9 DEF Handlers

(* Nothing is spent but under a session that requested it (0010, 0012 and   *)
(* 0015: every row of an action carries its commerce_session_id).          *)
SpendsUnderSession ==
    [][\A a \in Actions : SpendsAuthority(a) => action'[a].session \in Sessions]_vars

THEOREM SpendingHasSession == Spec => SpendsUnderSession
<1>1. ASSUME RowsInv, [Next]_vars, NEW a \in Actions, SpendsAuthority(a)
      PROVE  action'[a].session \in Sessions
  <2>1. ASSUME NEW b \in Actions, Handlers(b)
        PROVE  action'[a].session \in Sessions
    <3>1. CASE a = b
      BY <1>1, <2>1, <3>1, SpendingIsKnown
    <3>2. CASE a # b
      BY <1>1, <2>1, <3>2, HandlersFrame DEF SpendsAuthority, RowsInv
    <3>3. QED
      BY <3>1, <3>2
  <2>2. CASE UNCHANGED commerce
    BY <1>1, <2>2 DEF SpendsAuthority, commerce
  <2>3. QED
    BY <1>1, <2>1, <2>2, OtherSteps
<1>2. RowsInv /\ [Next]_vars
         => [\A a \in Actions :
                SpendsAuthority(a) => action'[a].session \in Sessions]_vars
  BY <1>1
<1>3. QED
  BY <1>2, RowsCorrect, PTL DEF Spec, SpendsUnderSession

(* What no step does to the rows of one action.                            *)
RowKept(a) ==
    /\ action[a].status \in {"rejected", "cancelled"} => action'[a] = action[a]
    /\ action[a].status # "none" =>
          /\ action'[a].session  = action[a].session
          /\ action'[a].revision = action[a].revision
          /\ action'[a].expires  = action[a].expires
    /\ reservation[a] \in {"claimed", "released"} =>
          reservation'[a] = reservation[a]
    /\ AttemptRank[attempt'[a].state] >= AttemptRank[attempt[a].state]
    /\ grant[a].status # "none" => grant'[a].expires = grant[a].expires

LEMMA RankTyped ==
    ASSUME TypeOK, NEW a \in Actions
    PROVE  AttemptRank[attempt[a].state] \in Nat
BY DEF TypeOK, AttemptType, AttemptStates, AttemptRank

LEMMA HandlersKeepRow ==
    ASSUME RowsInv, NEW a \in Actions, Handlers(a)
    PROVE  RowKept(a)
<1>1. TypeOK /\ RowAgrees(a)
  BY DEF RowsInv, RowsAgree
<1>2. AttemptRank[attempt[a].state] \in Nat
  BY <1>1, RankTyped
<1>3. action[a].status \in {"none", "pending_approval"} => reservation[a] = "none"
  BY <1>1 DEF RowAgrees, Unresolved, TypeOK, ReservationStatuses
<1>4. ASSUME NEW s \in Sessions, NEW e \in 1..(MaxTime + 1), Authorize(a, s, e)
      PROVE  RowKept(a)
  BY <1>1, <1>2, <1>3, <1>4
  DEF Authorize, Admissible, NewAction, RowKept, RowAgrees, TypeOK
<1>5. ASSUME NEW h \in Humans, Approve(a, h) \/ Reject(a, h)
      PROVE  RowKept(a)
  BY <1>1, <1>2, <1>3, <1>5
  DEF Approve, Reject, Decidable, RowKept, TypeOK, ActionType
<1>6. CASE Cancel(a)
  BY <1>1, <1>2, <1>6 DEF Cancel, Releasable, RowKept, TypeOK, ActionType
<1>7. CASE IssueGrant(a)
  BY <1>1, <1>2, <1>7 DEF IssueGrant, RowKept, TypeOK, ActionType
<1>8. CASE ReplaceGrant(a)
  BY <1>1, <1>2, <1>8 DEF ReplaceGrant, RowKept, TypeOK, GrantType
<1>9. ASSUME NEW g, NEW x, ClaimGrant(a, g, x)
      PROVE  RowKept(a)
  BY <1>1, <1>2, <1>9
  DEF ClaimGrant, GrantUsable, RowKept, TypeOK, GrantType
<1>10. CASE RevokeGrant(a)
  <2>1. action[a].status = "grant_issued"
    BY <1>1, <1>10 DEF RevokeGrant, RowAgrees
  <2>2. /\ action'[a].session = action[a].session
        /\ action'[a].revision = action[a].revision
        /\ action'[a].expires = action[a].expires
    BY <1>1, <1>10 DEF RevokeGrant, TypeOK, ActionType
  <2>3. reservation[a] # "held" => reservation'[a] = reservation[a]
    BY <1>1, <1>10 DEF RevokeGrant, NothingPaid, Releasable, TypeOK
  <2>4. /\ grant'[a].expires = grant[a].expires /\ attempt' = attempt
    BY <1>1, <1>10 DEF RevokeGrant, TypeOK, GrantType
  <2>5. QED
    BY <1>2, <2>1, <2>2, <2>3, <2>4 DEF RowKept
<1>11. ASSUME NEW x, PersistAttempt(a, x)
       PROVE  RowKept(a)
  BY <1>1, <1>11 DEF PersistAttempt, RowKept, TypeOK, AttemptRank
<1>12. ASSUME NEW arrives, RecordDispatch(a, arrives)
       PROVE  RowKept(a)
  BY <1>1, <1>12
  DEF RecordDispatch, Dispatchable, RowKept, TypeOK, AttemptType, AttemptRank
<1>13. ASSUME NEW o \in {"pending", "committed"}, RecordObservation(a, o)
       PROVE  RowKept(a)
  BY <1>1, <1>13
  DEF RecordObservation, Observable, RowKept, TypeOK, AttemptType, AttemptRank
<1>14. CASE SendPayment(a)
  BY <1>2, <1>14 DEF SendPayment, RowKept
<1>15. QED
  BY <1>4, <1>5, <1>6, <1>7, <1>8, <1>9, <1>10, <1>11, <1>12, <1>13, <1>14
  DEF Handlers

(* No step takes back a terminal action, a claimed or released             *)
(* reservation, an attempt's progress or the expiry of a grant.            *)
THEOREM NothingTakenBack == Spec => NeverTakenBack
<1>1. RowsInv /\ [Next]_vars => \A a \in Actions : RowKept(a)
  <2> SUFFICES ASSUME RowsInv, [Next]_vars, NEW a \in Actions
               PROVE  RowKept(a)
    OBVIOUS
  <2>1. AttemptRank[attempt[a].state] \in Nat
    BY RankTyped DEF RowsInv
  <2>2. ASSUME NEW b \in Actions, Handlers(b)
        PROVE  RowKept(a)
    <3>1. CASE a = b
      BY <2>2, <3>1, HandlersKeepRow
    <3>2. CASE a # b
      BY <2>1, <2>2, <3>2, HandlersFrame DEF RowKept, RowsInv
    <3>3. QED
      BY <3>1, <3>2
  <2>3. CASE UNCHANGED commerce
    BY <2>1, <2>3 DEF RowKept, commerce
  <2>4. QED
    BY <2>2, <2>3, OtherSteps
<1>2. QED
  BY <1>1, RowsCorrect, PTL DEF Spec, NeverTakenBack, RowKept
-----------------------------------------------------------------------------
(* Cleaning up.                                                            *)

RevokedFreed(a) ==
    grant[a].status = "revoked" /\ attempt[a].state = "none" =>
        reservation[a] = "released"

LEMMA HandlersRevokedFreed ==
    ASSUME RowsInv, NEW a \in Actions, ClaimRow(a), RevokedFreed(a), Handlers(a)
    PROVE  RevokedFreed(a)'
<1> USE DEF RevokedFreed
<1>1. TypeOK /\ RowAgrees(a) /\ RowKept(a)
  BY HandlersKeepRow DEF RowsInv, RowsAgree
<1>2. CASE RevokeGrant(a)
  <2>1. attempt' = attempt /\ grant[a].status \in {"issued", "claimed"}
    BY <1>2 DEF RevokeGrant
  <2>2. ASSUME attempt[a].state = "none"
        PROVE  grant[a].status = "issued" /\ reservation[a] = "held"
    BY <1>1, <2>1, <2>2
    DEF RowAgrees, Unresolved, ClaimRow, Dispatched, TypeOK
  <2>3. attempt[a].state = "none" => NothingPaid(a)
    BY <2>2 DEF NothingPaid, Releasable
  <2>4. attempt[a].state = "none" => reservation'[a] = "released"
    BY <1>1, <1>2, <2>3 DEF RevokeGrant, TypeOK
  <2>5. QED
    BY <2>1, <2>4
<1>3. ASSUME NEW x, PersistAttempt(a, x) PROVE RevokedFreed(a)'
  BY <1>1, <1>3 DEF PersistAttempt, TypeOK
<1>4. CASE /\ grant'[a].status = "revoked" => grant[a].status = "revoked"
           /\ attempt'[a].state = "none" => attempt[a].state = "none"
  BY <1>1, <1>4 DEF RowKept
<1>5. CASE IssueGrant(a)
  BY <1>1, <1>5 DEF IssueGrant, TypeOK
<1>6. CASE ReplaceGrant(a)
  BY <1>1, <1>4, <1>6 DEF ReplaceGrant, GrantUsable, TypeOK, GrantType
<1>7. ASSUME NEW g, NEW x, ClaimGrant(a, g, x) PROVE RevokedFreed(a)'
  BY <1>1, <1>7 DEF ClaimGrant, TypeOK, GrantType
<1>8. ASSUME NEW arrives, RecordDispatch(a, arrives) PROVE RevokedFreed(a)'
  BY <1>1, <1>8 DEF RecordDispatch, TypeOK, AttemptType
<1>9. ASSUME NEW o \in {"pending", "committed"}, RecordObservation(a, o)
      PROVE  RevokedFreed(a)'
  BY <1>1, <1>9 DEF RecordObservation, TypeOK, AttemptType
<1>10. CASE UNCHANGED <<grant, attempt>>
  BY <1>4, <1>10
<1>11. QED
  BY <1>2, <1>3, <1>5, <1>6, <1>7, <1>8, <1>9, <1>10
  DEF Handlers, Authorize, Approve, Reject, Cancel, SendPayment

(* A human can always give back the budget of an action nothing was paid   *)
(* for: the guard of one of the two handlers that do so holds, whatever     *)
(* became of policy, session, listing and time.                            *)
THEOREM CleanupPossible == Spec => []CleanupAvailable
<1> DEFINE Freed == \A a \in Actions : RevokedFreed(a)
<1>1. Init => Freed
  BY DEF Init, RevokedFreed, NoGrant
<1>2. RowsInv /\ ClaimRows /\ Freed /\ [Next]_vars => Freed'
  <2> SUFFICES ASSUME RowsInv, ClaimRows, Freed, [Next]_vars, NEW b \in Actions
               PROVE  RevokedFreed(b)'
    OBVIOUS
  <2>1. TypeOK
    BY DEF RowsInv
  <2>2. ASSUME NEW a \in Actions, Handlers(a)
        PROVE  RevokedFreed(b)'
    <3>1. CASE a = b
      BY <2>2, <3>1, HandlersRevokedFreed DEF ClaimRows
    <3>2. CASE a # b
      BY <2>1, <2>2, <3>2, HandlersFrame DEF RevokedFreed
    <3>3. QED
      BY <3>1, <3>2
  <2>3. CASE UNCHANGED commerce
    BY <2>3 DEF RevokedFreed, commerce
  <2>4. QED
    BY <2>2, <2>3, OtherSteps
<1>3. RowsInv /\ ClaimRows /\ Freed => CleanupAvailable
  <2> SUFFICES ASSUME RowsInv, ClaimRows, Freed, NEW a \in Actions, a \in Unresolved,
                      attempt[a].state = "none"
               PROVE  Withdrawable(a)
    BY DEF CleanupAvailable
  <2>1. TypeOK /\ RowAgrees(a) /\ ClaimRow(a) /\ RevokedFreed(a)
    BY DEF RowsInv, RowsAgree, ClaimRows
  <2>2. reservation[a] = "held"
    BY <2>1 DEF Unresolved, RowAgrees, ClaimRow, Dispatched
  <2>3. grant[a].status # "revoked"
    BY <2>1, <2>2 DEF RevokedFreed
  <2>4. grant[a].status \in GrantStatuses
    BY <2>1 DEF TypeOK, GrantType
  <2>5. QED
    BY <2>1, <2>2, <2>3, <2>4
    DEF Withdrawable, Releasable, RowAgrees, GrantStatuses
<1>4. QED
  BY <1>1, <1>2, <1>3, RowsCorrect, ClaimRowsCorrect, PTL DEF Spec
-----------------------------------------------------------------------------
(* The ledger.                                                             *)

Exposing == {"reserved", "signed", "sent", "claimed"}

(* What counts against the limits is the same in both.                     *)
LEMMA SameExposure == Book!Exposed = Unresolved
BY DEF Book!Exposed, Unresolved, Stage

(* The rolling limit of an action is one of a policy revision.             *)
LEMMA LimitKnown ==
    ASSUME RowsInv, NEW a \in Actions, action[a].status # "none"
    PROVE  LimitOf(a) \in {Terms[p][r].rolling : p \in Policies, r \in 1..MaxRevision}
<1>1. action[a].session \in Sessions /\ action[a].revision \in 1..MaxRevision
  BY DEF RowsInv, SessionKnown, TypeOK, ActionType
<1>2. PolicyOf(a) \in Policies
  BY <1>1, BindingAssumption DEF PolicyOf
<1>3. QED
  BY <1>1, <1>2 DEF LimitOf, TermsOf

(* A handler moves its own line of the ledger only.                        *)
LEMMA OtherLines ==
    ASSUME TypeOK, NEW a \in Actions, Handlers(a), NEW b \in Actions \ {a}
    PROVE  /\ Stage(b)' = Stage(b) /\ LimitOf(b)' = LimitOf(b)
           /\ Authorized(b)' = Authorized(b)
<1>1. UNCHANGED authority /\ action'[b] = action[b]
      /\ reservation'[b] = reservation[b] /\ attempt'[b] = attempt[b]
  BY HandlersFrame
<1>2. QED
  BY <1>1 DEF Stage, LimitOf, Authorized, ChainCurrent, TermsOf, PolicyOf, authority

(* A handler of an action that exists leaves its limit and its authority.  *)
LEMMA OwnLine ==
    ASSUME RowsInv, NEW a \in Actions, Handlers(a),
           action[a].status # "none", action'[a].status # "none"
    PROVE  LimitOf(a)' = LimitOf(a) /\ Authorized(a)' = Authorized(a)
<1>1. UNCHANGED authority
  BY HandlersFrame DEF RowsInv
<1>2. /\ action'[a].session  = action[a].session
      /\ action'[a].revision = action[a].revision
      /\ action'[a].expires  = action[a].expires
  BY HandlersKeepRow DEF RowKept
<1>3. QED
  BY <1>1, <1>2
  DEF LimitOf, Authorized, ChainCurrent, TermsOf, PolicyOf, authority

(* A line that moves by itself moves as the ledger says.                   *)
Moves(a) ==
    \/ Stage(a)' = Stage(a)
    \/ Stage(a) \in {"asked", "reserved"} /\ Stage(a)' = "closed"
    \/ Authorized(a) /\ Stage(a) = "reserved" /\ Stage(a)' = "signed"
    \/ Authorized(a) /\ Stage(a) = "signed" /\ Stage(a)' = "sent"
    \/ Authorized(a) /\ Stage(a) = "sent" /\ Stage(a)' = "claimed"

LEMMA MoveKept ==
    ASSUME RowsInv, NEW a \in Actions, Handlers(a),
           action[a].status # "none", action'[a].status # "none", Moves(a)
    PROVE  [Book!Next]_(Book!ledger)
<1> DEFINE entry == [b \in Actions |-> Stage(b)]
           limit == [b \in Actions |-> LimitOf(b)]
           valid == {b \in Actions : Authorized(b)}
<1>1. /\ \A b \in Actions \ {a} : /\ Stage(b)' = Stage(b)
                                  /\ Authorized(b)' = Authorized(b)
      /\ \A b \in Actions : LimitOf(b)' = LimitOf(b)
      /\ Authorized(a)' = Authorized(a)
  BY OtherLines, OwnLine DEF RowsInv
<1>2. limit' = limit /\ valid' = valid
  BY <1>1
<1>3. entry' = [entry EXCEPT ![a] = Stage(a)']
  BY <1>1
<1>4. entry[a] = Stage(a) /\ (a \in valid <=> Authorized(a))
  OBVIOUS
<1> HIDE DEF entry, limit, valid
<1>5. CASE Stage(a)' = Stage(a)
  <2>1. entry' = entry
    BY <1>1, <1>5 DEF entry
  <2>2. QED
    BY <1>2, <2>1 DEF Book!ledger, entry, limit, valid
<1>6. CASE Stage(a) \in {"asked", "reserved"} /\ Stage(a)' = "closed"
  <2>1. Book!Close(a)
    BY <1>2, <1>3, <1>4, <1>6 DEF Book!Close, entry, limit, valid
  <2>2. QED
    BY <2>1 DEF Book!Next
<1>7. CASE Authorized(a) /\ Stage(a) = "reserved" /\ Stage(a)' = "signed"
  <2>1. Book!Sign(a)
    BY <1>2, <1>3, <1>4, <1>7 DEF Book!Sign, Book!Advance, entry, limit, valid
  <2>2. QED
    BY <2>1 DEF Book!Next
<1>8. CASE Authorized(a) /\ Stage(a) = "signed" /\ Stage(a)' = "sent"
  <2>1. Book!Send(a)
    BY <1>2, <1>3, <1>4, <1>8 DEF Book!Send, Book!Advance, entry, limit, valid
  <2>2. QED
    BY <2>1 DEF Book!Next
<1>9. CASE Authorized(a) /\ Stage(a) = "sent" /\ Stage(a)' = "claimed"
  <2>1. Book!Claim(a)
    BY <1>2, <1>3, <1>4, <1>9 DEF Book!Claim, Book!Advance, entry, limit, valid
  <2>2. QED
    BY <2>1 DEF Book!Next
<1>10. QED
  BY <1>5, <1>6, <1>7, <1>8, <1>9 DEF Moves

(* What the assessment of the budget admits fits the limit of the ledger.  *)
LEMMA AdmittedFits ==
    ASSUME NEW t \in TermsType, NEW a \in Actions, WithinBudget(t, a)
    PROVE  Book!Fits(a, t.rolling)
<1>1. Cardinality(Book!Exposed) <= RowLimit
  BY SameExposure DEF WithinBudget, ReadableExposure
<1>2. ASSUME t.rolling # NoLimit
      PROVE  DebitSum[Book!Exposed \cup {a}] <= t.rolling
  <2>1. t.rolling \in Nat /\ Unresolved \in SUBSET Actions
    BY <1>2 DEF TermsType, Unresolved
  <2>2. DebitSum[Unresolved] + Debit[a] <= t.rolling
    BY <1>2 DEF WithinBudget
  <2>3. QED
    BY <2>1, <2>2, AdmissionCovers, SameExposure
<1>3. QED
  BY <1>1, <1>2 DEF Book!Fits, Book!Cardinality, Cardinality

(* An authorization enters a line, already reserved or waiting to be.      *)
LEMMA AuthorizeEnters ==
    ASSUME RowsInv, AttemptKeepsExposure, NEW a \in Actions,
           NEW s \in Sessions, NEW e \in 1..(MaxTime + 1), Authorize(a, s, e)
    PROVE  Book!Next
<1> DEFINE t == Terms[SessionPolicy[s]][policy[SessionPolicy[s]].revision]
           entry == [b \in Actions |-> Stage(b)]
           limit == [b \in Actions |-> LimitOf(b)]
           valid == {b \in Actions : Authorized(b)}
<1>1. TypeOK /\ RowAgrees(a) /\ action[a].status = "none" /\ Handlers(a)
  BY DEF RowsInv, RowsAgree, Authorize, Admissible, Handlers
<1>2. reservation[a] = "none" /\ attempt[a].state = "none"
  BY <1>1 DEF RowAgrees, Unresolved, TypeOK, ReservationStatuses,
     AttemptKeepsExposure, ExposureKept
<1>3. SessionPolicy[s] \in Policies /\ policy[SessionPolicy[s]].revision \in 1..MaxRevision
  BY <1>1, BindingAssumption DEF TypeOK
<1>4. t \in TermsType
  BY <1>3, RevisionTyped
<1>5. /\ action'[a].session = s /\ action'[a].expires = e
      /\ action'[a].revision = policy[SessionPolicy[s]].revision
      /\ action'[a].status # "none" /\ UNCHANGED authority
  BY <1>1 DEF Authorize, NewAction, TypeOK
<1>6. LimitOf(a)' = t.rolling
  BY <1>5 DEF LimitOf, TermsOf, PolicyOf, authority
<1>7. Authorized(a)'
  <2>1. e > now /\ chainUp[s] /\ policy[SessionPolicy[s]].status = "active" /\ listed
    BY DEF Authorize, Admissible
  <2>2. now < e
    BY <1>1, <2>1, NumberAssumption DEF TypeOK
  <2>3. QED
    BY <1>5, <2>1, <2>2 DEF Authorized, ChainCurrent, PolicyOf, authority
<1>8. \A b \in Actions \ {a} : /\ Stage(b)' = Stage(b) /\ LimitOf(b)' = LimitOf(b)
                               /\ Authorized(b)' = Authorized(b)
  BY <1>1, OtherLines
<1>9. /\ limit' = [limit EXCEPT ![a] = t.rolling] /\ valid' = valid \cup {a}
      /\ entry' = [entry EXCEPT ![a] = Stage(a)'] /\ entry[a] = Stage(a)
  BY <1>6, <1>7, <1>8
<1>10. Stage(a) = "none"
  BY <1>1, <1>2 DEF Stage
<1>11. t.rolling \in {Terms[p][r].rolling : p \in Policies, r \in 1..MaxRevision}
  BY <1>3
<1>12. Book!Fits(a, t.rolling)
  BY <1>4, AdmittedFits DEF Authorize
<1> HIDE DEF entry, limit, valid, t
<1>13. CASE NewAction(a, s, "pending_approval", e) /\ UNCHANGED reservation
  <2>1. Stage(a)' = "asked"
    BY <1>1, <1>2, <1>13 DEF Stage, NewAction, TypeOK
  <2>2. Book!Ask(a, t.rolling)
    BY <1>9, <1>10, <2>1 DEF Book!Ask, entry, limit, valid
  <2>3. QED
    BY <1>11, <2>2 DEF Book!Next
<1>14. CASE reservation' = [reservation EXCEPT ![a] = "held"]
  <2>1. Stage(a)' = "reserved"
    BY <1>1, <1>2, <1>14 DEF Stage, Authorize, TypeOK
  <2>2. Book!Reserve(a, t.rolling)
    BY <1>9, <1>10, <1>12, <2>1 DEF Book!Reserve, entry, limit, valid
  <2>3. QED
    BY <1>11, <2>2 DEF Book!Next
<1>15. QED
  BY <1>13, <1>14 DEF Authorize

(* An approval reserves a line that was waiting, against what is exposed   *)
(* when it is given.                                                       *)
LEMMA ApproveReserves ==
    ASSUME RowsInv, AttemptKeepsExposure, NEW a \in Actions,
           NEW h \in Humans, Approve(a, h)
    PROVE  Book!Next
<1> DEFINE l == TermsOf(a).rolling
           entry == [b \in Actions |-> Stage(b)]
           limit == [b \in Actions |-> LimitOf(b)]
           valid == {b \in Actions : Authorized(b)}
<1>1. /\ TypeOK /\ RowAgrees(a) /\ Handlers(a) /\ ChainCurrent(a)
      /\ action[a].status = "pending_approval"
  BY DEF RowsInv, RowsAgree, Approve, Decidable, Handlers
<1>2. reservation[a] = "none" /\ attempt[a].state = "none"
  BY <1>1 DEF RowAgrees, Unresolved, TypeOK, ReservationStatuses,
     AttemptKeepsExposure, ExposureKept
<1>3. /\ action'[a].status = "reserved_not_granted" /\ reservation'[a] = "held"
      /\ attempt' = attempt
  BY <1>1 DEF Approve, TypeOK
<1>4. Stage(a) = "asked" /\ Stage(a)' = "reserved" /\ Authorized(a) /\ LimitOf(a) = l
  BY <1>1, <1>2, <1>3 DEF Stage, Authorized, LimitOf
<1>5. LimitOf(a)' = LimitOf(a) /\ Authorized(a)' = Authorized(a)
  BY <1>1, <1>3, OwnLine
<1>6. \A b \in Actions \ {a} : /\ Stage(b)' = Stage(b) /\ LimitOf(b)' = LimitOf(b)
                               /\ Authorized(b)' = Authorized(b)
  BY <1>1, OtherLines
<1>7. /\ limit' = [limit EXCEPT ![a] = l] /\ valid' = valid \cup {a} /\ a \in valid
      /\ entry' = [entry EXCEPT ![a] = "reserved"] /\ entry[a] = "asked" /\ limit[a] = l
  BY <1>4, <1>5, <1>6
<1>8. l \in {Terms[p][r].rolling : p \in Policies, r \in 1..MaxRevision}
  BY <1>1, <1>4, LimitKnown
<1>9. TermsOf(a) \in TermsType
  BY <1>1, TermsTyped DEF RowsInv, SessionKnown
<1>10. Book!Fits(a, l)
  BY <1>9, AdmittedFits DEF Approve
<1> HIDE DEF entry, limit, valid, l
<1>11. Book!Reserve(a, l)
  BY <1>7, <1>10 DEF Book!Reserve, entry, limit, valid
<1>12. QED
  BY <1>8, <1>11 DEF Book!Next

(* The other handlers move one line by one stage, or leave the book alone. *)
LEMMA HandlersMove ==
    ASSUME RowsInv, AttemptKeepsExposure, ClaimRows, NEW a \in Actions,
           \/ \E h \in Humans : Reject(a, h)
           \/ Cancel(a) \/ IssueGrant(a) \/ ReplaceGrant(a) \/ RevokeGrant(a)
           \/ \E g \in 1..MaxGeneration, x \in Attempts : ClaimGrant(a, g, x)
           \/ \E x \in Attempts : PersistAttempt(a, x)
           \/ \E arrives \in BOOLEAN : RecordDispatch(a, arrives)
           \/ SendPayment(a)
           \/ \E o \in {"pending", "committed"} : RecordObservation(a, o)
    PROVE  [Book!Next]_(Book!ledger)
<1>1. /\ TypeOK /\ RowAgrees(a) /\ ExposureKept(a) /\ ClaimRow(a)
      /\ Handlers(a)
  BY DEF RowsInv, RowsAgree, AttemptKeepsExposure, ClaimRows, Handlers
<1>2. action[a].status \in {"none", "pending_approval"} => reservation[a] = "none"
  BY <1>1 DEF RowAgrees, Unresolved, TypeOK, ReservationStatuses
<1>3. action[a].status # "grant_issued" => attempt[a].state = "none"
  BY <1>1 DEF ExposureKept
<1>4. ASSUME action[a].status # "none", action'[a].status # "none", Moves(a)
      PROVE  [Book!Next]_(Book!ledger)
  BY <1>1, <1>4, MoveKept
<1>5. ASSUME NEW h \in Humans, Reject(a, h)
      PROVE  [Book!Next]_(Book!ledger)
  <2>1. /\ action[a].status = "pending_approval" /\ action'[a].status = "rejected"
        /\ reservation' = reservation
    BY <1>1, <1>5 DEF Reject, Decidable, TypeOK
  <2>2. Stage(a) = "asked" /\ Stage(a)' = "closed"
    BY <1>2, <2>1 DEF Stage
  <2>3. QED
    BY <1>4, <2>1, <2>2 DEF Moves
<1>6. CASE Cancel(a)
  <2>1. /\ action[a].status \in {"pending_approval", "reserved_not_granted"}
        /\ action'[a].status = "cancelled"
    BY <1>1, <1>6 DEF Cancel, TypeOK
  <2>2. CASE action[a].status = "pending_approval"
    <3>1. reservation'[a] = "none" /\ reservation[a] = "none"
      BY <1>2, <1>6, <2>2 DEF Cancel
    <3>2. Stage(a) = "asked" /\ Stage(a)' = "closed"
      BY <2>1, <2>2, <3>1 DEF Stage
    <3>3. QED
      BY <1>4, <2>1, <3>2 DEF Moves
  <2>3. CASE action[a].status = "reserved_not_granted"
    <3>1. reservation[a] = "held" /\ reservation'[a] = "released"
      BY <1>1, <1>6, <2>3 DEF Cancel, Releasable, TypeOK
    <3>2. Stage(a) = "reserved" /\ Stage(a)' = "closed"
      BY <1>3, <2>3, <3>1 DEF Stage
    <3>3. QED
      BY <1>4, <2>1, <3>2 DEF Moves
  <2>4. QED
    BY <2>1, <2>2, <2>3
<1>7. CASE IssueGrant(a)
  <2>1. /\ action[a].status # "none" /\ action'[a].status # "none"
        /\ reservation[a] = "held" /\ UNCHANGED <<reservation, attempt>>
    BY <1>1, <1>7 DEF IssueGrant, TypeOK
  <2>2. QED
    BY <1>4, <2>1 DEF Moves, Stage
<1>8. CASE ReplaceGrant(a) \/ SendPayment(a)
  <2>1. UNCHANGED <<action, reservation, attempt, authority>>
    BY <1>8 DEF ReplaceGrant, SendPayment
  <2>2. UNCHANGED Book!ledger
    BY <2>1 DEF Book!ledger, Stage, LimitOf, Authorized, ChainCurrent, TermsOf,
       PolicyOf, authority
  <2>3. QED
    BY <2>2
<1>9. CASE RevokeGrant(a)
  <2>1. action[a].status = "grant_issued" /\ UNCHANGED attempt
    BY <1>1, <1>9 DEF RevokeGrant, RowAgrees
  <2>2. CASE NothingPaid(a)
    <3>1. /\ action'[a].status = "cancelled" /\ reservation'[a] = "released"
          /\ reservation[a] = "held" /\ attempt[a].state = "none"
      BY <1>1, <1>9, <2>1, <2>2 DEF RevokeGrant, NothingPaid, Releasable, TypeOK
    <3>2. Stage(a) = "reserved" /\ Stage(a)' = "closed"
      BY <3>1 DEF Stage
    <3>3. QED
      BY <1>4, <2>1, <3>1, <3>2 DEF Moves
  <2>3. CASE ~NothingPaid(a)
    <3>1. /\ action'[a].status = "grant_issued"
          /\ reservation'[a] = reservation[a]
      BY <1>1, <1>9, <2>1, <2>3 DEF RevokeGrant, TypeOK, ActionType
    <3>2. Stage(a)' = Stage(a)
      BY <2>1, <3>1 DEF Stage
    <3>3. QED
      BY <1>4, <2>1, <3>1, <3>2 DEF Moves
  <2>4. QED
    BY <2>2, <2>3
<1>10. ASSUME NEW g \in 1..MaxGeneration, NEW x \in Attempts, ClaimGrant(a, g, x)
       PROVE  [Book!Next]_(Book!ledger)
  <2>1. /\ action[a].status = "grant_issued" /\ ChainCurrent(a)
        /\ reservation[a] = "held" /\ reservation'[a] = "claimed"
        /\ attempt[a].id = x /\ attempt[a].state # "persisted"
        /\ UNCHANGED <<action, attempt>>
    BY <1>1, <1>10 DEF ClaimGrant, GrantUsable, PaidWith, TypeOK
  <2>2. attempt[a].state # "none"
    BY <1>1, <2>1, BindingAssumption DEF ClaimRow
  <2>3. Stage(a) = "sent" /\ Stage(a)' = "claimed" /\ Authorized(a)
    BY <2>1, <2>2 DEF Stage, Authorized
  <2>4. QED
    BY <1>4, <2>1, <2>3 DEF Moves
<1>11. ASSUME NEW x \in Attempts, PersistAttempt(a, x)
       PROVE  [Book!Next]_(Book!ledger)
  <2>1. /\ action[a].status = "grant_issued" /\ ChainCurrent(a)
        /\ reservation[a] = "held" /\ UNCHANGED <<action, reservation>>
        /\ attempt[a].state = "none" /\ attempt'[a].state = "persisted"
    BY <1>1, <1>11 DEF PersistAttempt, GrantUsable, TypeOK
  <2>2. Stage(a) = "reserved" /\ Stage(a)' = "signed" /\ Authorized(a)
    BY <2>1 DEF Stage, Authorized
  <2>3. QED
    BY <1>4, <2>1, <2>2 DEF Moves
<1>12. ASSUME NEW arrives \in BOOLEAN, RecordDispatch(a, arrives)
       PROVE  [Book!Next]_(Book!ledger)
  <2>1. /\ action[a].status = "grant_issued" /\ ChainCurrent(a)
        /\ reservation[a] = "held" /\ UNCHANGED <<action, reservation>>
        /\ attempt[a].state = "persisted" /\ attempt'[a].state = "unknown"
    BY <1>1, <1>12 DEF RecordDispatch, Dispatchable, GrantUsable, TypeOK, AttemptType
  <2>2. Stage(a) = "signed" /\ Stage(a)' = "sent" /\ Authorized(a)
    BY <2>1 DEF Stage, Authorized
  <2>3. QED
    BY <1>4, <2>1, <2>2 DEF Moves
<1>13. ASSUME NEW o \in {"pending", "committed"}, RecordObservation(a, o)
       PROVE  [Book!Next]_(Book!ledger)
  <2>1. /\ UNCHANGED <<action, reservation>>
        /\ attempt[a].state \in {"unknown", "pending"}
        /\ attempt'[a].state \in {"pending", "committed"}
    BY <1>1, <1>13 DEF RecordObservation, Observable, TypeOK, AttemptType
  <2>2. action[a].status = "grant_issued"
    BY <1>3, <2>1
  <2>3. Stage(a)' = Stage(a)
    BY <2>1 DEF Stage
  <2>4. QED
    BY <1>4, <2>1, <2>2, <2>3 DEF Moves
<1>14. QED
  BY <1>5, <1>6, <1>7, <1>8, <1>9, <1>10, <1>11, <1>12, <1>13

(* Eleven handlers over seven tables implement one ledger: money is        *)
(* reserved within the limit the action is subject to, a line advances one *)
(* stage at a time under authority only, and closes only before a payment  *)
(* was signed (0010, 0012, 0015).                                          *)
THEOREM LedgerIsKept == Spec => KeepsLedger
<1>1. Init => Book!Init
  BY DEF Init, Book!Init, Stage, LimitOf, Authorized, NoAction, NoPayment
<1>2. ASSUME RowsInv, AttemptKeepsExposure, ClaimRows, [Next]_vars
      PROVE  [Book!Next]_(Book!ledger)
  <2>1. ASSUME NEW a \in Actions, Handlers(a)
        PROVE  [Book!Next]_(Book!ledger)
    BY <1>2, <2>1, AuthorizeEnters, ApproveReserves, HandlersMove DEF Handlers
  <2>2. CASE UNCHANGED commerce
    <3>1. \A a \in Actions : /\ Stage(a)' = Stage(a) /\ LimitOf(a)' = LimitOf(a)
                             /\ Authorized(a)' => Stage(a) # "none"
      BY <2>2 DEF Stage, LimitOf, Authorized, TermsOf, PolicyOf, commerce
    <3>2. Book!AuthorityChanges
      BY <3>1 DEF Book!AuthorityChanges
    <3>3. QED
      BY <3>2 DEF Book!Next
  <2>3. QED
    BY <1>2, <2>1, <2>2, OtherSteps
<1>3. QED
  BY <1>1, <1>2, RowsCorrect, PaymentsKeepExposure, ClaimRowsCorrect, PTL
  DEF Spec, KeepsLedger, Book!Spec
=============================================================================
