------------------------------ MODULE Commerce ------------------------------
(***************************************************************************)
(* The commerce core of the control plane: budget authorization, approval, *)
(* cancellation, authorization grants and payment attempts of one subject  *)
(* agent and one exposure line (network, asset).                           *)
(*                                                                         *)
(* Every handler is one PostgreSQL transaction that holds the buyer        *)
(* organization row FOR UPDATE from its preamble to its commit, so every   *)
(* handler is one action; what interleaves is the order of transactions,   *)
(* the clock, the chain of authority and the listing behind them.  A       *)
(* refused call changes nothing and is a stuttering step.                  *)
(*                                                                         *)
(* Operators whose name starts with Bug belong to no specification: each   *)
(* is the definition after it with a plausible mistake, and shows that the *)
(* property it is listed with notices that mistake.                        *)
(***************************************************************************)
EXTENDS Integers, FiniteSets

CONSTANTS
    Actions,        \* commerce action ids, each already bound to a requirement
    Sessions,       \* commerce sessions of the subject agent
    Policies,       \* budget policy roots of the subject agent
    Humans,         \* accounts that are owner or operator of the organization
    Attempts,       \* payment attempt ids chosen by the buyer
    Nobody,         \* null of an account
    NoAttempt,      \* null of an attempt id
    NoSession,      \* null of a session
    NoLimit,        \* a NULL per-action or rolling limit
    SessionPolicy,  \* the policy a session was opened for
    Requester,      \* the parent human of a session
    Debit,          \* amount + fee of the action's requirement
    Fee,            \* the fee alone
    DebitSum,       \* SQL sum(debit) over a set of actions
    Terms,          \* Terms[p][r]: the immutable revision r of policy p
    MaxRevision,    \* bound: revisions of a policy
    MaxGeneration,  \* 2^31 - 1 in the code: token generations of a grant
    RowLimit,       \* 4096 in the code: exposure rows an assessment may read
    GrantTtl,       \* 300 seconds in the code
    MaxTime         \* bound: the clock

TermsType == [feeLimit  : Nat,
              perAction : Nat \cup {NoLimit},
              rolling   : Nat \cup {NoLimit},
              mode      : {"never", "always", "above"},
              threshold : Nat,
              separate  : BOOLEAN]

ASSUME BindingAssumption ==
    /\ SessionPolicy \in [Sessions -> Policies]
    /\ Requester \in [Sessions -> Humans]
    /\ Terms \in [Policies -> [1..MaxRevision -> TermsType]]
    /\ Nobody \notin Humans /\ NoAttempt \notin Attempts
    /\ NoSession \notin Sessions /\ NoLimit \notin Nat

ASSUME NumberAssumption ==
    /\ IsFiniteSet(Actions)
    /\ Debit \in [Actions -> Nat \ {0}] /\ Fee \in [Actions -> Nat]
    /\ MaxRevision \in Nat \ {0} /\ MaxGeneration \in Nat \ {0}
    /\ RowLimit \in Nat /\ GrantTtl \in Nat \ {0} /\ MaxTime \in Nat

(* A sum over rows: additive over disjoint sets of rows.                   *)
ASSUME SumAssumption ==
    /\ DebitSum \in [SUBSET Actions -> Nat]
    /\ \A a \in Actions : DebitSum[{a}] = Debit[a]
    /\ \A T \in SUBSET Actions : \A S \in SUBSET T :
          DebitSum[T] = DebitSum[S] + DebitSum[T \ S]

VARIABLES
    now,            \* clock_timestamp()
    policy,         \* budget_policy_roots: [status, revision]
    chainUp,        \* per session: the whole buyer chain of authority holds
    listed,         \* the seller's provider, listing and version are current
    action,         \* commerce_actions: [status, session, revision, expires]
    approval,       \* commerce_approvals: [status, decidedBy]
    reservation,    \* budget_reservations: the status
    grant,          \* authorization_grants: [status, generation, expires]
    tokens,         \* authorization_grant_tokens: generations not retired
    claim,          \* authorization_grant_claims: [attempt, at]
    attempt,        \* payment_attempts: [state, id]
    payment         \* the buyer process: may it send, has it sent

vars == <<now, policy, chainUp, listed, action, approval, reservation,
          grant, tokens, claim, attempt, payment>>

authority == <<now, policy, chainUp, listed>>

PolicyStatuses      == {"none", "active", "paused", "revoked"}
ActionStatuses      == {"none", "pending_approval", "reserved_not_granted",
                        "grant_issued", "rejected", "cancelled"}
ApprovalStatuses    == {"none", "pending", "approved", "rejected", "expired"}
ReservationStatuses == {"none", "held", "claimed", "released"}
GrantStatuses       == {"none", "issued", "claimed", "revoked"}
AttemptStates       == {"none", "persisted", "unknown", "pending", "committed"}

NoPolicy  == [status |-> "none", revision |-> 1]
NoAction  == [status |-> "none", session |-> NoSession, revision |-> 1,
              expires |-> 0]
NoApprove == [status |-> "none", decidedBy |-> Nobody]
NoGrant   == [status |-> "none", generation |-> 1, expires |-> 0]
NoClaim   == [attempt |-> NoAttempt, at |-> 0]
NoPayment == [state |-> "none", id |-> NoAttempt]

Init ==
    /\ now = 0
    /\ policy      = [p \in Policies |-> NoPolicy]
    /\ chainUp     = [s \in Sessions |-> FALSE]
    /\ listed      = TRUE
    /\ action      = [a \in Actions |-> NoAction]
    /\ approval    = [a \in Actions |-> NoApprove]
    /\ reservation = [a \in Actions |-> "none"]
    /\ grant       = [a \in Actions |-> NoGrant]
    /\ tokens      = [a \in Actions |-> {}]
    /\ claim       = [a \in Actions |-> NoClaim]
    /\ attempt     = [a \in Actions |-> NoPayment]
    /\ payment     = [a \in Actions |-> "none"]

-----------------------------------------------------------------------------
(* What the handlers read.                                                 *)

Lesser(m, n) == IF m <= n THEN m ELSE n

PolicyOf(a) == SessionPolicy[action[a].session]
TermsOf(a)  == Terms[PolicyOf(a)][action[a].revision]

(* Rows the assessment sums: held, claimed and unknown reservations of any *)
(* age.  No statement writes 'unknown', nor a committed budget event.      *)
Unresolved == {a \in Actions : reservation[a] \in {"held", "claimed"}}

NeedsApproval(t, a) ==
    \/ t.mode = "always"
    \/ t.mode = "above" /\ Debit[a] > t.threshold

BugReadableExposure == Cardinality(Unresolved) <= RowLimit + 1

(* assess_action_budget returned something other than 'denied'.  A deficit *)
(* (exposure already above the limit) is denied like a projected excess.   *)
ReadableExposure == Cardinality(Unresolved) <= RowLimit

WithinBudget(t, a) ==
    /\ ReadableExposure
    /\ Fee[a] <= t.feeLimit
    /\ t.perAction # NoLimit => Debit[a] <= t.perAction
    /\ t.rolling # NoLimit => DebitSum[Unresolved] + Debit[a] <= t.rolling

(* The chain an existing action is re-proved against: its own session, its *)
(* policy still active at the pinned revision, its listing, and every      *)
(* expiry of the chain, whose least is the action's own.                   *)
ChainCurrent(a) ==
    /\ chainUp[action[a].session]
    /\ policy[PolicyOf(a)].status = "active"
    /\ policy[PolicyOf(a)].revision = action[a].revision
    /\ listed
    /\ now < action[a].expires

-----------------------------------------------------------------------------
(* Authorization, decision and cancellation.                               *)

Admissible(a, s) ==
    /\ action[a].status = "none"
    /\ chainUp[s]
    /\ policy[SessionPolicy[s]].status = "active"
    /\ listed

NewAction(a, s, status, e) ==
    action' = [action EXCEPT ![a] =
        [status |-> status, session |-> s, expires |-> e,
         revision |-> policy[SessionPolicy[s]].revision]]

(* The machine presents its commerce token.  e is the least expiry of      *)
(* requirement, sessions, policy revision and parent session.              *)
Authorize(a, s, e) ==
    LET t == Terms[SessionPolicy[s]][policy[SessionPolicy[s]].revision] IN
    /\ Admissible(a, s)
    /\ WithinBudget(t, a)
    /\ e > now
    /\ \/ /\ NeedsApproval(t, a)
          /\ NewAction(a, s, "pending_approval", e)
          /\ approval' = [approval EXCEPT ![a] =
                [status |-> "pending", decidedBy |-> Nobody]]
          /\ UNCHANGED reservation
       \/ /\ ~NeedsApproval(t, a)
          /\ NewAction(a, s, "reserved_not_granted", e)
          /\ reservation' = [reservation EXCEPT ![a] = "held"]
          /\ UNCHANGED approval
    /\ UNCHANGED <<authority, grant, tokens, claim, attempt, payment>>

(* Common to approve and reject: a separate approver is another human than *)
(* the one the session belongs to, and the whole chain is still current.   *)
BugDecidable(a, h) ==
    /\ action[a].status = "pending_approval"
    /\ approval[a].status = "pending"
    /\ ChainCurrent(a)

Decidable(a, h) ==
    /\ action[a].status = "pending_approval"
    /\ approval[a].status = "pending"
    /\ TermsOf(a).separate => h # Requester[action[a].session]
    /\ ChainCurrent(a)

BugApprove(a, h) ==
    /\ Decidable(a, h)
    /\ reservation' = [reservation EXCEPT ![a] = "held"]
    /\ approval' = [approval EXCEPT ![a] =
            [status |-> "approved", decidedBy |-> h]]
    /\ action' = [action EXCEPT ![a].status = "reserved_not_granted"]
    /\ UNCHANGED <<authority, grant, tokens, claim, attempt, payment>>

(* Approving assesses the budget again against what is unresolved now.     *)
Approve(a, h) ==
    /\ Decidable(a, h)
    /\ WithinBudget(TermsOf(a), a)
    /\ reservation' = [reservation EXCEPT ![a] = "held"]
    /\ approval' = [approval EXCEPT ![a] =
            [status |-> "approved", decidedBy |-> h]]
    /\ action' = [action EXCEPT ![a].status = "reserved_not_granted"]
    /\ UNCHANGED <<authority, grant, tokens, claim, attempt, payment>>

BugReject(a, h) ==
    /\ Decidable(a, h)
    /\ action' = [action EXCEPT ![a].status = "rejected"]
    /\ UNCHANGED <<authority, approval, reservation, grant, tokens, claim,
                   attempt, payment>>

Reject(a, h) ==
    /\ Decidable(a, h)
    /\ approval' = [approval EXCEPT ![a] =
            [status |-> "rejected", decidedBy |-> h]]
    /\ action' = [action EXCEPT ![a].status = "rejected"]
    /\ UNCHANGED <<authority, reservation, grant, tokens, claim, attempt,
                   payment>>

(* Only an unclaimed held reservation may be given back.                   *)
BugReleasable(a) == reservation[a] = "held" /\ now < action[a].expires

Releasable(a) == reservation[a] = "held"

CancelsRequest(a) == action[a].status = "pending_approval"

CancelsReservation(a) ==
    action[a].status = "reserved_not_granted" /\ Releasable(a)

(* A fresh human withdraws an action before a grant exists; neither expiry *)
(* nor the state of the chain matters.                                     *)
Cancel(a) ==
    /\ \/ /\ CancelsRequest(a)
          /\ approval' = [approval EXCEPT ![a].status =
                IF @ = "pending" THEN "expired" ELSE @]
          /\ UNCHANGED reservation
       \/ /\ CancelsReservation(a)
          /\ reservation' = [reservation EXCEPT ![a] = "released"]
          /\ UNCHANGED approval
    /\ action' = [action EXCEPT ![a].status = "cancelled"]
    /\ UNCHANGED <<authority, grant, tokens, claim, attempt, payment>>

-----------------------------------------------------------------------------
(* Grants.                                                                 *)

IssueGrant(a) ==
    /\ action[a].status = "reserved_not_granted"
    /\ ChainCurrent(a)
    /\ reservation[a] = "held"
    /\ grant[a].status = "none"
    /\ grant' = [grant EXCEPT ![a] =
            [status |-> "issued", generation |-> 1,
             expires |-> Lesser(action[a].expires, now + GrantTtl)]]
    /\ tokens' = [tokens EXCEPT ![a] = {1}]
    /\ action' = [action EXCEPT ![a].status = "grant_issued"]
    /\ UNCHANGED <<authority, approval, reservation, claim, attempt, payment>>

(* A grant that may still authorize something.                             *)
GrantUsable(a) ==
    /\ action[a].status = "grant_issued"
    /\ reservation[a] = "held"
    /\ grant[a].status = "issued"
    /\ now < grant[a].expires

BugTokensAfterReplace(a) == tokens[a] \cup {grant[a].generation + 1}

TokensAfterReplace(a) ==
    (tokens[a] \ {grant[a].generation}) \cup {grant[a].generation + 1}

Replaceable(a) ==
    /\ grant[a].generation \in tokens[a]
    /\ grant[a].generation < MaxGeneration

(* Retire the current token and store the next one; the expiry stays.  A   *)
(* payment attempt does not prevent it.                                    *)
ReplaceGrant(a) ==
    /\ GrantUsable(a)
    /\ ChainCurrent(a)
    /\ claim[a] = NoClaim
    /\ Replaceable(a)
    /\ tokens' = [tokens EXCEPT ![a] = TokensAfterReplace(a)]
    /\ grant' = [grant EXCEPT ![a].generation = @ + 1]
    /\ UNCHANGED <<authority, action, approval, reservation, claim, attempt,
                   payment>>

BugPaidWith(a, x) == attempt[a].id = x

PaidWith(a, x) == attempt[a].id = x /\ attempt[a].state # "persisted"

(* The provider presents a token of generation g and the attempt id x it   *)
(* was paid with.  The buyer's chain must still hold too, so what the buyer *)
(* paid for can become unclaimable.  The token is not retired.             *)
ClaimGrant(a, g, x) ==
    /\ GrantUsable(a)
    /\ ChainCurrent(a)
    /\ g \in tokens[a] /\ g = grant[a].generation
    /\ PaidWith(a, x)
    /\ claim' = [claim EXCEPT ![a] = [attempt |-> x, at |-> now]]
    /\ grant' = [grant EXCEPT ![a].status = "claimed"]
    /\ reservation' = [reservation EXCEPT ![a] = "claimed"]
    /\ UNCHANGED <<authority, action, approval, tokens, attempt, payment>>

BugNothingPaid(a) == grant[a].status # "claimed" /\ Releasable(a)

(* Nothing can have been paid: never claimed, and no payment attempt in    *)
(* any state.                                                              *)
NothingPaid(a) ==
    /\ grant[a].status # "claimed"
    /\ Releasable(a)
    /\ attempt[a].state = "none"

Revocable(a) == grant[a].status \in {"issued", "claimed"}

(* A human revokes the grant whatever became of the chain.  Exposure is    *)
(* given back only if nothing can have been paid.                          *)
RevokeGrant(a) ==
    /\ Revocable(a)
    /\ grant' = [grant EXCEPT ![a].status = "revoked"]
    /\ tokens' = [tokens EXCEPT ![a] = {}]
    /\ reservation' = [reservation EXCEPT ![a] =
            IF NothingPaid(a) THEN "released" ELSE @]
    /\ action' = [action EXCEPT ![a].status =
            IF NothingPaid(a) /\ @ = "grant_issued" THEN "cancelled" ELSE @]
    /\ UNCHANGED <<authority, approval, claim, attempt, payment>>

-----------------------------------------------------------------------------
(* Payment attempts, and the buyer process that signs and sends.           *)

(* One attempt per grant, and an attempt id is used once.  An exact replay *)
(* returns the row and changes nothing.                                    *)
PersistAttempt(a, x) ==
    /\ GrantUsable(a)
    /\ ChainCurrent(a)
    /\ attempt[a].state = "none"
    /\ \A b \in Actions : attempt[b].id # x
    /\ attempt' = [attempt EXCEPT ![a] = [state |-> "persisted", id |-> x]]
    /\ UNCHANGED <<authority, action, approval, reservation, grant, tokens,
                   claim, payment>>

BugDispatchable(a) == GrantUsable(a) /\ attempt[a].state = "persisted"

Dispatchable(a) ==
    /\ GrantUsable(a)
    /\ ChainCurrent(a)
    /\ attempt[a].state = "persisted"

(* persisted -> unknown, exactly once: the second call is refused, so the  *)
(* reply that lets the process send is given once, and may be lost.        *)
RecordDispatch(a, replyArrives) ==
    /\ Dispatchable(a)
    /\ attempt' = [attempt EXCEPT ![a].state = "unknown"]
    /\ payment' = [payment EXCEPT ![a] =
            IF replyArrives THEN "permitted" ELSE @]
    /\ UNCHANGED <<authority, action, approval, reservation, grant, tokens,
                   claim>>

(* The buyer process sends the signed payment it was permitted to send, or *)
(* stops for good before it does.                                          *)
SendPayment(a) ==
    /\ payment[a] = "permitted"
    /\ payment' = [payment EXCEPT ![a] = "sent"]
    /\ UNCHANGED <<authority, action, approval, reservation, grant, tokens,
                   claim, attempt>>

BugObservable(a) == attempt[a].state \in {"unknown", "pending", "committed"}

Observable(a) == attempt[a].state \in {"unknown", "pending"}

(* The settlement observer records what the gateway says of a dispatched   *)
(* attempt: only pending or committed, never backwards.                    *)
RecordObservation(a, observed) ==
    /\ Observable(a)
    /\ observed \in {"pending", "committed"}
    /\ attempt' = [attempt EXCEPT ![a].state = observed]
    /\ UNCHANGED <<authority, action, approval, reservation, grant, tokens,
                   claim, payment>>

-----------------------------------------------------------------------------
(* The authority the handlers depend on.                                   *)

commerce == <<action, approval, reservation, grant, tokens, claim, attempt,
              payment>>

(* At most one active policy of the agent (a partial unique index).        *)
NoneActive == \A p \in Policies : policy[p].status # "active"

CreatePolicy(p) ==
    /\ policy[p].status = "none" /\ NoneActive
    /\ policy' = [policy EXCEPT ![p].status = "active"]
    /\ UNCHANGED <<now, chainUp, listed, commerce>>

(* A revision is appended to an active or a paused policy.                 *)
RevisePolicy(p) ==
    /\ policy[p].status \in {"active", "paused"}
    /\ policy[p].revision < MaxRevision
    /\ policy' = [policy EXCEPT ![p].revision = @ + 1]
    /\ UNCHANGED <<now, chainUp, listed, commerce>>

PausePolicy(p) ==
    /\ policy[p].status = "active"
    /\ policy' = [policy EXCEPT ![p].status = "paused"]
    /\ UNCHANGED <<now, chainUp, listed, commerce>>

ResumePolicy(p) ==
    /\ policy[p].status = "paused" /\ NoneActive
    /\ policy' = [policy EXCEPT ![p].status = "active"]
    /\ UNCHANGED <<now, chainUp, listed, commerce>>

RevokePolicy(p) ==
    /\ policy[p].status \in {"active", "paused"}
    /\ policy' = [policy EXCEPT ![p].status = "revoked"]
    /\ UNCHANGED <<now, chainUp, listed, commerce>>

(* Logout, expiry or revocation of a session or a credential, a suspended  *)
(* member or agent; and a new or restored one.  One of these may end       *)
(* several sessions at once, and restore others.                           *)
ChainChanges(S) ==
    /\ chainUp' = [s \in Sessions |-> IF s \in S THEN ~chainUp[s] ELSE chainUp[s]]
    /\ UNCHANGED <<now, policy, listed, commerce>>

(* The seller pauses, supersedes or republishes the listing.               *)
ListingChanges ==
    /\ listed' = ~listed
    /\ UNCHANGED <<now, policy, chainUp, commerce>>

Tick ==
    /\ now < MaxTime
    /\ now' = now + 1
    /\ UNCHANGED <<policy, chainUp, listed, commerce>>

-----------------------------------------------------------------------------

Handlers(a) ==
    \/ \E s \in Sessions, e \in 1..(MaxTime + 1) : Authorize(a, s, e)
    \/ \E h \in Humans : Approve(a, h) \/ Reject(a, h)
    \/ Cancel(a)
    \/ IssueGrant(a)
    \/ ReplaceGrant(a)
    \/ \E g \in 1..MaxGeneration, x \in Attempts : ClaimGrant(a, g, x)
    \/ RevokeGrant(a)
    \/ \E x \in Attempts : PersistAttempt(a, x)
    \/ \E arrives \in BOOLEAN : RecordDispatch(a, arrives)
    \/ SendPayment(a)
    \/ \E o \in {"pending", "committed"} : RecordObservation(a, o)

PolicyOperations(p) ==
    \/ CreatePolicy(p) \/ RevisePolicy(p) \/ PausePolicy(p)
    \/ ResumePolicy(p) \/ RevokePolicy(p)

Next ==
    \/ \E a \in Actions : Handlers(a)
    \/ \E p \in Policies : PolicyOperations(p)
    \/ \E S \in (SUBSET Sessions) \ {{}} : ChainChanges(S)
    \/ ListingChanges
    \/ Tick

Spec == Init /\ [][Next]_vars

-----------------------------------------------------------------------------
(* Properties.                                                             *)

ActionType  == [status : ActionStatuses, session : Sessions \cup {NoSession},
                revision : 1..MaxRevision, expires : Nat]
ApproveType == [status : ApprovalStatuses, decidedBy : Humans \cup {Nobody}]
GrantType   == [status : GrantStatuses, generation : 1..MaxGeneration,
                expires : Nat]
ClaimType   == [attempt : Attempts \cup {NoAttempt}, at : Nat]
AttemptType == [state : AttemptStates, id : Attempts \cup {NoAttempt}]

(* Every row of the tables stays in the domain its CHECK constraints give  *)
(* it.                                                                     *)
TypeOK ==
    /\ now \in 0..MaxTime
    /\ policy \in [Policies -> [status : PolicyStatuses,
                                revision : 1..MaxRevision]]
    /\ chainUp \in [Sessions -> BOOLEAN]
    /\ listed \in BOOLEAN
    /\ action \in [Actions -> ActionType]
    /\ approval \in [Actions -> ApproveType]
    /\ reservation \in [Actions -> ReservationStatuses]
    /\ grant \in [Actions -> GrantType]
    /\ tokens \in [Actions -> SUBSET (1..MaxGeneration)]
    /\ claim \in [Actions -> ClaimType]
    /\ attempt \in [Actions -> AttemptType]
    /\ payment \in [Actions -> {"none", "permitted", "sent"}]

(* The limit an action was admitted under covers the debits of S.          *)
Covers(a, S) ==
    \/ TermsOf(a).rolling = NoLimit
    \/ DebitSum[S] <= TermsOf(a).rolling

(* However many sessions, policies and revisions followed each other, and  *)
(* in whatever order actions were approved, paid and released, the         *)
(* unresolved exposure of the agent fits the rolling limit some action in  *)
(* it was admitted under, and so does every part of it: the assessment is  *)
(* never made against a stale sum (0010, assess_action_budget).            *)
ExposureCovered ==
    \A S \in SUBSET Unresolved : S # {} => \E a \in S : Covers(a, S)

(* An assessment refuses to read more than RowLimit rows, so there is never *)
(* more than one row beyond it (0010, the LIMIT 4097 probes).              *)
UnresolvedRowsBounded == Cardinality(Unresolved) <= RowLimit + 1

ApprovedFirst(a) ==
    reservation[a] # "none" /\ NeedsApproval(TermsOf(a), a) =>
        /\ approval[a].status = "approved"
        /\ approval[a].decidedBy \in Humans
        /\ TermsOf(a).separate =>
              approval[a].decidedBy # Requester[action[a].session]

(* No debit that its pinned terms make subject to approval is ever         *)
(* reserved without a decision, and with separate_approver set the one who *)
(* decided is not the human the requesting session belongs to (0010,       *)
(* decide_commerce_action_core).                                           *)
ApprovedBeforeReserved == \A a \in Actions : ApprovedFirst(a)

ExposureKept(a) ==
    /\ attempt[a].state # "none" =>
          a \in Unresolved /\ action[a].status = "grant_issued"
    /\ payment[a] # "none" =>
          attempt[a].state \in {"unknown", "pending", "committed"}

(* Once a signature may have left the buyer, in any state of the attempt   *)
(* and whatever is revoked or expires afterwards, its debit keeps counting *)
(* against the budget and its action is not reported as cancelled (0015,   *)
(* the three exposure triggers and revoke_authorization_grant).            *)
AttemptKeepsExposure == \A a \in Actions : ExposureKept(a)

RowAgrees(a) ==
    LET st == action[a].status IN
    /\ a \in Unresolved <=> st \in {"reserved_not_granted", "grant_issued"}
    /\ reservation[a] = "released" => st = "cancelled"
    /\ approval[a].status = "pending" <=> st = "pending_approval"
    /\ approval[a].status = "rejected" <=> st = "rejected"
    /\ st = "grant_issued" => grant[a].status # "none"
    /\ grant[a].status \in {"issued", "claimed"} => st = "grant_issued"
    /\ reservation[a] = "claimed" <=> claim[a] # NoClaim
    /\ grant[a].status = "claimed" => claim[a] # NoClaim

(* The rows of one action, written by eight handlers in five tables, tell  *)
(* one story.                                                              *)
RowsAgree == \A a \in Actions : RowAgrees(a)

LiveToken(a) ==
    tokens[a] = IF grant[a].status \in {"issued", "claimed"}
                THEN {grant[a].generation} ELSE {}

(* The raw grant token is worth something for exactly one generation, the  *)
(* current one, however often it was replaced, and for none once the grant *)
(* is revoked (0012 replace and claim, 0015 revoke).                       *)
OneLiveToken == \A a \in Actions : LiveToken(a)

(* A claim names the attempt that was really dispatched for this action,   *)
(* was made inside the validity of grant and action, and no other action   *)
(* is claimed with the same attempt (0015, enforce_claim_payment_attempt). *)
ClaimMatchesPayment ==
    \A a \in Actions : claim[a] # NoClaim =>
        /\ attempt[a].id = claim[a].attempt
        /\ attempt[a].state \in {"unknown", "pending", "committed"}
        /\ claim[a].at < grant[a].expires
        /\ grant[a].expires <= action[a].expires
        /\ \A b \in Actions \ {a} : claim[b].attempt # claim[a].attempt

(* A human can withdraw the action: the guard of Cancel or of RevokeGrant  *)
(* holds, whose other conjuncts only say what the next state is.           *)
Withdrawable(a) ==
    CancelsRequest(a) \/ CancelsReservation(a) \/ Revocable(a)

(* While nothing can have been paid, a human can always give the budget    *)
(* back, even after the policy was revoked, the session ended or the       *)
(* action expired (cancel and revoke do not consult the chain).            *)
CleanupAvailable ==
    \A a \in Actions :
        a \in Unresolved /\ attempt[a].state = "none" => Withdrawable(a)

AttemptRank == [none |-> 0, persisted |-> 1, unknown |-> 2, pending |-> 3,
                committed |-> 4]

(* No step takes back what another party may have acted upon: a terminal   *)
(* action stays terminal, a claimed reservation claimed, a released one    *)
(* released, an attempt never moves backwards, and a replacement never     *)
(* extends a grant (the BEFORE UPDATE triggers of 0010, 0012 and 0015).    *)
NeverTakenBack ==
    [][\A a \in Actions :
        /\ action[a].status \in {"rejected", "cancelled"} =>
              action'[a] = action[a]
        /\ action[a].status # "none" =>
              /\ action'[a].session  = action[a].session
              /\ action'[a].revision = action[a].revision
              /\ action'[a].expires  = action[a].expires
        /\ reservation[a] \in {"claimed", "released"} =>
              reservation'[a] = reservation[a]
        /\ AttemptRank[attempt'[a].state] >= AttemptRank[attempt[a].state]
        /\ grant[a].status # "none" => grant'[a].expires = grant[a].expires
      ]_vars

(* The steps of an action that spend authority.                            *)
SpendsAuthority(a) ==
    \/ reservation[a] = "none" /\ reservation'[a] = "held"
    \/ tokens'[a] \ tokens[a] # {}
    \/ attempt[a].state = "none" /\ attempt'[a].state # "none"
    \/ attempt[a].state = "persisted" /\ attempt'[a].state # "persisted"
    \/ claim'[a] # claim[a]

(* Revocation fails closed: nothing is reserved, granted, dispatched or    *)
(* claimed once the session is over, the policy paused, revoked or revised *)
(* since, the listing withdrawn or the action expired.                     *)
RevocationFailsClosed ==
    [][\A a \in Actions : SpendsAuthority(a) => ChainCurrent(a)']_vars

(* What the ledger of the promise shows of an action.                      *)
Stage(a) ==
    CASE reservation[a] = "released" -> "closed"
      [] reservation[a] = "claimed" -> "claimed"
      [] reservation[a] = "held" ->
            CASE attempt[a].state = "none" -> "reserved"
              [] attempt[a].state = "persisted" -> "signed"
              [] OTHER -> "sent"
      [] OTHER ->
            CASE action[a].status = "none" -> "none"
              [] action[a].status = "pending_approval" -> "asked"
              [] OTHER -> "closed"

LimitOf(a)    == IF action[a].status = "none" THEN NoLimit ELSE TermsOf(a).rolling
Authorized(a) == action[a].status # "none" /\ ChainCurrent(a)

Book == INSTANCE Ledger WITH
    Limits <- {Terms[p][r].rolling : p \in Policies, r \in 1..MaxRevision},
    entry  <- [a \in Actions |-> Stage(a)],
    limit  <- [a \in Actions |-> LimitOf(a)],
    valid  <- {a \in Actions : Authorized(a)}

(* Eleven handlers over seven tables keep one ledger: money is reserved    *)
(* within the limit, advances under authority only, one stage at a time,   *)
(* and is never given back once a payment was signed.                      *)
KeepsLedger == Book!Spec
=============================================================================
