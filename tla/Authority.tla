----------------------------- MODULE Authority -----------------------------
(***************************************************************************)
(* Who may act for an organization: its members, the credentials they      *)
(* issue to their agent, the machine sessions opened with these, and the   *)
(* commerce sessions a human hands to a machine.                           *)
(*                                                                         *)
(* A request is one transaction at READ COMMITTED.  It looks up, without a *)
(* lock, which rows it is about, then locks them one by one, judges each   *)
(* when it has it, and writes and commits when it has them all.  Others    *)
(* commit between any two of these.  Rows that are only ever changed under *)
(* the organization's lock (members, agent, policy, commerce sessions and  *)
(* handoffs) are judged with it and have no lock of their own here.        *)
(*                                                                         *)
(* Operators whose name starts with Bug belong to no specification.        *)
(***************************************************************************)
EXTENDS Naturals

CONSTANTS
    Requests,       \* transactions under way at one time
    MaxAccounts,    \* accounts, numbered in the order of their identifiers
    Humans,         \* browser sessions
    AccountOf,      \* the account of each
    Credentials, Machines, Commerce,    \* rows to be made, by identifier
    Nobody,         \* none of these
    Standings,      \* what members may be made
    InitialMember,  \* the members at first
    InitialHuman,   \* the browser sessions at first
    Switched        \* which of agent and policy change

Accounts == 1 .. MaxAccounts

Standing == [role : {"owner", "operator", "viewer", "none"}, active : BOOLEAN]
Owner(s)    == s.active /\ s.role = "owner"
Trusted(s)  == s.role \in {"owner", "operator"}

ASSUME AuthorityAssumption ==
    /\ MaxAccounts \in Nat
    /\ AccountOf \in [Humans -> Accounts]
    /\ Nobody \notin Humans \cup Credentials \cup Machines \cup Commerce
    /\ Standings \subseteq {s \in Standing : s.role # "none"}
    /\ InitialMember \in [Accounts -> Standing]
    /\ InitialHuman \subseteq Humans /\ Switched \subseteq {"agent", "policy"}
    /\ \E a \in Accounts : Owner(InitialMember[a])

VARIABLES
    human,          \* openarc_auth.sessions
    member,         \* memberships
    up,             \* which of agent and policy are active
    credential,     \* agent_credentials
    machine,        \* agent_sessions
    commerce,       \* commerce_sessions and their handoffs
    tokens,         \* the number of tokens given for each handoff
    req             \* the transactions under way

rows == <<human, member, up, credential, machine, commerce, tokens>>
vars == <<rows, req>>

NoStanding == [role |-> "none", active |-> FALSE]
Idle == [kind |-> "none", human |-> Nobody, target |-> 0, standing |-> NoStanding,
         credential |-> Nobody, machine |-> Nobody, commerce |-> Nobody, held |-> {}]

Init ==
    /\ human = [h \in Humans |-> IF h \in InitialHuman THEN "live" ELSE "none"]
    /\ member = InitialMember
    /\ up = {"agent", "policy"}
    /\ credential = [c \in Credentials |-> [status |-> "none", issuer |-> 0]]
    /\ machine = [m \in Machines |-> [status |-> "none", credential |-> Nobody]]
    /\ commerce = [x \in Commerce |->
                      [parent |-> Nobody, machine |-> Nobody, revoked |-> FALSE]]
    /\ tokens = [x \in Commerce |-> 0]
    /\ req = [r \in Requests |-> Idle]

-----------------------------------------------------------------------------
(* Rows and their locks.                                                   *)

Account(a)    == <<"account", a>>
Session(h)    == <<"session", h>>
Organization  == <<"organization", 0>>
Credential(c) == <<"credential", c>>
Machine(m)    == <<"machine", m>>

Row == {Account(a) : a \in Accounts \cup {0}} \cup {Organization}
          \cup {Session(h) : h \in Humans} \cup {Credential(c) : c \in Credentials}
          \cup {Machine(m) : m \in Machines}

(* The rows a transaction locks: the account it names and that of its      *)
(* human, and what it has found itself to be about.                        *)
Rows(q) ==
    {Account(q.target), Organization}
        \cup {Account(AccountOf[h]) : h \in {q.human} \ {Nobody}}
        \cup {Session(h)    : h \in {q.human} \ {Nobody}}
        \cup {Credential(c) : c \in {q.credential} \ {Nobody}}
        \cup {Machine(m)    : m \in {q.machine} \ {Nobody}}

(* All lock accounts first, in ascending order.  The exchange goes on with *)
(* the credential and the machine session, everybody else with the         *)
(* human's session and the organization.                                   *)
Level(q, row) ==
    CASE row[1] = "account"      -> 0
      [] row[1] = "session"      -> IF q.kind = "exchange" THEN 3 ELSE 1
      [] row[1] = "organization" -> IF q.kind = "exchange" THEN 4 ELSE 2
      [] row[1] = "credential"   -> IF q.kind = "exchange" THEN 1 ELSE 3
      [] row[1] = "machine"      -> IF q.kind = "exchange" THEN 2 ELSE 4

BugBefore(q, x, y) ==
    IF Level(q, x) = 0 /\ Level(q, y) = 0
    THEN x[2] # y[2] /\ q.human # Nobody /\ x[2] = AccountOf[q.human]
    ELSE Level(q, x) < Level(q, y)

Before(q, x, y) ==
    IF Level(q, x) = 0 /\ Level(q, y) = 0 THEN x[2] < y[2]
    ELSE Level(q, x) < Level(q, y)

NextRow(q, row) ==
    /\ row \in Rows(q) \ q.held
    /\ \A x \in Rows(q) \ q.held : x = row \/ Before(q, row, x)

BugFreeSession(row) == row[1] = "session" \/ \A r \in Requests : row \notin req[r].held

BugFreeOrganization(row) ==
    row[1] = "organization" \/ \A r \in Requests : row \notin req[r].held

Free(row) == \A r \in Requests : row \notin req[r].held

-----------------------------------------------------------------------------
(* Transactions.                                                           *)

InOffice(a) == member[a].active /\ Trusted(member[a])
Actor(q)    == AccountOf[q.human]

ByHuman == {"member", "issueCredential", "revokeCredential", "issue", "revoke"}

BugOwnerLeft(q) == \E a \in Accounts : Owner(member[a])

(* One active owner remains; counted after the update.                     *)
OwnerLeft(q) ==
    Owner(q.standing) \/ \E a \in Accounts \ {q.target} : Owner(member[a])

(* What is judged under the organization's lock.                           *)
Admitted(q) ==
    CASE q.kind = "member" ->
            /\ Owner(member[Actor(q)]) /\ OwnerLeft(q)
            /\ member[q.target].role = "none" => q.standing.active
      [] q.kind = "issueCredential"  -> InOffice(Actor(q)) /\ "agent" \in up
      [] q.kind = "revokeCredential" -> Trusted(member[Actor(q)])
      [] q.kind = "issue"  -> InOffice(Actor(q)) /\ up = {"agent", "policy"}
      [] q.kind = "revoke" -> InOffice(Actor(q))
      [] q.kind = "open"   -> InOffice(q.target) /\ "agent" \in up
      [] q.kind = "exchange" ->
            /\ InOffice(Actor(q)) /\ InOffice(q.target) /\ up = {"agent", "policy"}
            /\ commerce[q.commerce].machine = Nobody /\ ~commerce[q.commerce].revoked
      [] q.kind = "use" -> InOffice(Actor(q)) /\ InOffice(q.target) /\ "agent" \in up

BugJudged(q, row) ==
    CASE row[1] = "account"      -> TRUE
      [] row[1] = "session"      -> human[row[2]] = "live"
      [] row[1] = "organization" ->
            IF q.kind = "exchange"
            THEN /\ InOffice(Actor(q)) /\ InOffice(q.target) /\ up = {"agent", "policy"}
                 /\ ~commerce[q.commerce].revoked
            ELSE Admitted(q)
      [] row[1] = "credential"   ->
            q.kind # "revokeCredential" => credential[row[2]].status = "live"
      [] row[1] = "machine"      ->
            /\ machine[row[2]].status = "live"
            /\ q.kind = "use" => ~commerce[q.commerce].revoked /\ "policy" \in up

(* What is judged of a row once it is locked.                              *)
Judged(q, row) ==
    CASE row[1] = "account"      -> TRUE
      [] row[1] = "session"      -> human[row[2]] = "live"
      [] row[1] = "organization" -> Admitted(q)
      [] row[1] = "credential"   ->
            q.kind # "revokeCredential" => credential[row[2]].status = "live"
      [] row[1] = "machine"      ->
            /\ machine[row[2]].status = "live"
            /\ q.kind = "use" => ~commerce[q.commerce].revoked /\ "policy" \in up

Lock(r, row) ==
    /\ req[r].kind # "none" /\ NextRow(req[r], row) /\ Free(row)
    /\ Judged(req[r], row)
    /\ req' = [req EXCEPT ![r].held = @ \cup {row}]
    /\ UNCHANGED rows

Start(r, q) ==
    /\ req[r] = Idle /\ req' = [req EXCEPT ![r] = q]
    /\ UNCHANGED rows

(* The look-ups without a lock.                                            *)
AskMember(r, h, a, s) ==
    /\ human[h] = "live"
    /\ Start(r, [Idle EXCEPT !.kind = "member", !.human = h, !.target = a,
                             !.standing = s])

AskIssue(r, h, kind) ==
    /\ human[h] = "live"
    /\ Start(r, [Idle EXCEPT !.kind = kind, !.human = h, !.target = AccountOf[h]])

AskRevokeCredential(r, h, c) ==
    /\ human[h] = "live" /\ credential[c].status # "none"
    /\ Start(r, [Idle EXCEPT !.kind = "revokeCredential", !.human = h,
                             !.target = AccountOf[h], !.credential = c])

AskRevoke(r, h, x) ==
    /\ human[h] = "live" /\ commerce[x].parent # Nobody
    /\ Start(r, [Idle EXCEPT !.kind = "revoke", !.human = h,
                             !.target = AccountOf[h], !.commerce = x])

AskOpen(r, c) ==
    /\ credential[c].status # "none"
    /\ Start(r, [Idle EXCEPT !.kind = "open", !.target = credential[c].issuer,
                             !.credential = c])

(* Exchange of a handoff by a machine, and use of the commerce session.    *)
AskCommerce(r, kind, m, x) ==
    /\ commerce[x].parent # Nobody
    /\ IF kind = "use" THEN commerce[x].machine = m ELSE machine[m].status # "none"
    /\ Start(r, [Idle EXCEPT !.kind = kind, !.human = commerce[x].parent,
                    !.target = credential[machine[m].credential].issuer,
                    !.credential = machine[m].credential, !.machine = m,
                    !.commerce = x])

Ready(r) == req[r].kind # "none" /\ req[r].held = Rows(req[r])

Commit(r, kind) ==
    /\ Ready(r) /\ req[r].kind = kind
    /\ req' = [req EXCEPT ![r] = Idle]

(* commit_membership_set: a change ends the sessions of its target.        *)
CommitMember(r) ==
    LET q == req[r] IN
    /\ Commit(r, "member")
    /\ member' = [member EXCEPT ![q.target] = q.standing]
    /\ human' = [h \in Humans |->
            IF /\ AccountOf[h] = q.target /\ human[h] = "live"
               /\ member[q.target] # q.standing
            THEN "gone" ELSE human[h]]
    /\ UNCHANGED <<up, credential, machine, commerce, tokens>>

CommitIssueCredential(r, c) ==
    /\ Commit(r, "issueCredential") /\ credential[c].status = "none"
    /\ credential' = [credential EXCEPT ![c] =
            [status |-> "live", issuer |-> Actor(req[r])]]
    /\ UNCHANGED <<human, member, up, machine, commerce, tokens>>

BugCommitRevokeCredential(r) ==
    /\ Commit(r, "revokeCredential")
    /\ credential' = [credential EXCEPT ![req[r].credential].status = "revoked"]
    /\ UNCHANGED <<human, member, up, machine, commerce, tokens>>

CommitRevokeCredential(r) ==
    LET c == req[r].credential IN
    /\ Commit(r, "revokeCredential")
    /\ credential' = [credential EXCEPT ![c].status = "revoked"]
    /\ machine' = [m \in Machines |->
            IF credential[c].status = "live" /\ machine[m].credential = c
            THEN [machine[m] EXCEPT !.status = "revoked"]
            ELSE machine[m]]
    /\ UNCHANGED <<human, member, up, commerce, tokens>>

(* create_agent_session.                                                   *)
CommitOpen(r, m) ==
    /\ Commit(r, "open") /\ machine[m].status = "none"
    /\ machine' = [machine EXCEPT ![m] =
            [status |-> "live", credential |-> req[r].credential]]
    /\ UNCHANGED <<human, member, up, credential, commerce, tokens>>

CommitIssue(r, x) ==
    /\ Commit(r, "issue") /\ commerce[x].parent = Nobody
    /\ commerce' = [commerce EXCEPT ![x].parent = req[r].human]
    /\ UNCHANGED <<human, member, up, credential, machine, tokens>>

CommitExchange(r) ==
    LET x == req[r].commerce IN
    /\ Commit(r, "exchange")
    /\ commerce' = [commerce EXCEPT ![x].machine = req[r].machine]
    /\ tokens' = [tokens EXCEPT ![x] = @ + 1]
    /\ UNCHANGED <<human, member, up, credential, machine>>

CommitRevoke(r) ==
    /\ Commit(r, "revoke")
    /\ commerce' = [commerce EXCEPT ![req[r].commerce].revoked = TRUE]
    /\ UNCHANGED <<human, member, up, credential, machine, tokens>>

(* What is authorized under a commerce session is the subject of Commerce. *)
CommitUse(r) == Commit(r, "use") /\ UNCHANGED rows

(* A refusal, a time-out, or the victim of a deadlock.                     *)
GiveUp(r) ==
    /\ req[r].kind # "none"
    /\ req' = [req EXCEPT ![r] = Idle]
    /\ UNCHANGED rows

-----------------------------------------------------------------------------
(* What commits with a single of these locks.                              *)

Login(h) ==
    /\ human[h] = "none" /\ Free(Account(AccountOf[h]))
    /\ human' = [human EXCEPT ![h] = "live"]
    /\ UNCHANGED <<member, up, credential, machine, commerce, tokens, req>>

(* logout, which locks no account.                                         *)
Logout(h) ==
    /\ human[h] = "live" /\ Free(Session(h))
    /\ human' = [human EXCEPT ![h] = "gone"]
    /\ UNCHANGED <<member, up, credential, machine, commerce, tokens, req>>

(* An agent is suspended or reactivated, a policy paused or resumed.       *)
Switch(what) ==
    /\ Free(Organization)
    /\ up' = IF what \in up THEN up \ {what} ELSE up \cup {what}
    /\ UNCHANGED <<human, member, credential, machine, commerce, tokens, req>>

(* revoke_agent_session.                                                   *)
CloseMachine(m) ==
    /\ machine[m].status = "live" /\ Free(Machine(m))
    /\ machine' = [machine EXCEPT ![m].status = "revoked"]
    /\ UNCHANGED <<human, member, up, credential, commerce, tokens, req>>

-----------------------------------------------------------------------------
Ask(r) ==
    \/ \E h \in Humans :
          \/ \E a \in Accounts, s \in Standings : AskMember(r, h, a, s)
          \/ \E kind \in {"issueCredential", "issue"} : AskIssue(r, h, kind)
          \/ \E c \in Credentials : AskRevokeCredential(r, h, c)
          \/ \E x \in Commerce : AskRevoke(r, h, x)
    \/ \E c \in Credentials : AskOpen(r, c)
    \/ \E kind \in {"exchange", "use"}, m \in Machines, x \in Commerce :
          AskCommerce(r, kind, m, x)

Finish(r) ==
    \/ CommitMember(r)
    \/ \E c \in Credentials : CommitIssueCredential(r, c)
    \/ CommitRevokeCredential(r)
    \/ \E m \in Machines : CommitOpen(r, m)
    \/ \E x \in Commerce : CommitIssue(r, x)
    \/ CommitExchange(r) \/ CommitRevoke(r) \/ CommitUse(r)

Next ==
    \/ \E r \in Requests :
          Ask(r) \/ (\E row \in Rows(req[r]) : Lock(r, row)) \/ Finish(r) \/ GiveUp(r)
    \/ \E h \in Humans : Login(h) \/ Logout(h)
    \/ \E what \in Switched : Switch(what)
    \/ \E m \in Machines : CloseMachine(m)

Spec == Init /\ [][Next]_vars

-----------------------------------------------------------------------------
(* Properties.                                                             *)

Kinds == ByHuman \cup {"none", "open", "exchange", "use"}
States == {"none", "live", "revoked"}

(* Types of the rows and of the transactions under way.                    *)
TypeOK ==
    /\ human \in [Humans -> {"none", "live", "gone"}]
    /\ member \in [Accounts -> Standing]
    /\ up \subseteq {"agent", "policy"}
    /\ credential \in [Credentials -> [status : States, issuer : Accounts \cup {0}]]
    /\ machine \in [Machines -> [status : States, credential : Credentials \cup {Nobody}]]
    /\ commerce \in [Commerce -> [parent : Humans \cup {Nobody},
                                  machine : Machines \cup {Nobody}, revoked : BOOLEAN]]
    /\ tokens \in [Commerce -> Nat]
    /\ req \in [Requests ->
          [kind : Kinds, human : Humans \cup {Nobody}, target : Accounts \cup {0},
           standing : Standing, credential : Credentials \cup {Nobody},
           machine : Machines \cup {Nobody}, commerce : Commerce \cup {Nobody},
           held : SUBSET Row]]
    /\ \A r \in Requests : req[r].held \subseteq Rows(req[r])

(* When a transaction commits, all it was admitted by still stands, though *)
(* it was judged row by row while others committed, and a session that is  *)
(* logged out or a machine session that is closed asks for no other lock.  *)
AuthorityAtCommit ==
    \A r \in Requests : Ready(r) =>
        LET q == req[r] IN
        /\ q.kind \in ByHuman \cup {"exchange", "use"} => human[q.human] = "live"
        /\ q.kind \in ByHuman \ {"revokeCredential"} => InOffice(Actor(q))
        /\ q.kind = "member" => Owner(member[Actor(q)])
        /\ q.kind \in {"open", "exchange", "use"} =>
              InOffice(q.target) /\ credential[q.credential].status = "live"
        /\ q.kind \in {"exchange", "use"} =>
              /\ InOffice(Actor(q)) /\ up = {"agent", "policy"}
              /\ machine[q.machine].status = "live" /\ ~commerce[q.commerce].revoked

(* The organization has an active owner, whoever demotes or suspends whom, *)
(* themselves included, at the same time.                                  *)
OwnersRemain == \E a \in Accounts : Owner(member[a])

(* A handoff gives one token, to one machine, whoever presents it at the   *)
(* same time and however often.                                            *)
OneTokenPerHandoff == \A x \in Commerce : tokens[x] <= 1

(* A machine session in force was opened with a credential in force: a     *)
(* revocation ends all of them, one that is being opened included.         *)
NoneOutlivesItsCredential ==
    \A m \in Machines : machine[m].status = "live" =>
        credential[machine[m].credential].status = "live"

(* Though it locks and judges row by row, a transaction is what one step   *)
(* would be that judges everything when it commits.                        *)
Atomic == INSTANCE Chain

TakesEffectAtOnce == Atomic!Spec

(* Transactions wait for each other in a circle only if one of them is an  *)
(* exchange that waits for the organization and another a revocation that  *)
(* waits for its credential.                                               *)
WaitsFor(r) ==
    {s \in Requests : /\ req[r].kind # "none"
                      /\ \E row \in req[s].held : NextRow(req[r], row)}

OneKindOfCircle ==
    \A S \in SUBSET Requests :
        S # {} /\ (\A r \in S : WaitsFor(r) \cap S # {}) =>
            \E r, s \in S :
                /\ req[r].kind = "exchange" /\ NextRow(req[r], Organization)
                /\ req[s].kind = "revokeCredential"
                /\ NextRow(req[s], Credential(req[r].credential))
=============================================================================
