------------------------------- MODULE Chain -------------------------------
(***************************************************************************)
(* What an organization is promised of the authority behind a commerce     *)
(* session: every transaction takes effect at one instant, and everything  *)
(* it is admitted by holds at that instant.                                *)
(***************************************************************************)
EXTENDS Naturals

CONSTANTS Accounts, Humans, AccountOf, Credentials, Machines, Commerce, Nobody,
          Standings, Switched, InitialMember, InitialHuman

VARIABLES human, member, up, credential, machine, commerce, tokens

chain == <<human, member, up, credential, machine, commerce, tokens>>

(* The members, and who may use what was given to whom.                    *)
IsOwner(a) == member[a].active /\ member[a].role = "owner"
Serves(a)  == member[a].active /\ member[a].role \in {"owner", "operator"}

Present(h) == human[h] = "live" /\ Serves(AccountOf[h])
Backed(c)  == credential[c].status = "live" /\ Serves(credential[c].issuer)
Acts(m)    == machine[m].status = "live" /\ Backed(machine[m].credential)

-----------------------------------------------------------------------------
SetMember(h, a, s) ==
    /\ human[h] = "live" /\ IsOwner(AccountOf[h])
    /\ member[a].role = "none" => s.active
    /\ member' = [member EXCEPT ![a] = s] /\ \E b \in Accounts : IsOwner(b)'
    /\ human' = [i \in Humans |-> IF AccountOf[i] = a /\ human[i] = "live" /\ s # member[a]
                                  THEN "gone" ELSE human[i]]
    /\ UNCHANGED <<up, credential, machine, commerce, tokens>>

IssueCredential(h, c) ==
    /\ Present(h) /\ "agent" \in up /\ credential[c].status = "none"
    /\ credential' = [credential EXCEPT ![c] = [status |-> "live", issuer |-> AccountOf[h]]]
    /\ UNCHANGED <<human, member, up, machine, commerce, tokens>>

(* A suspended member may still revoke.                                    *)
RevokeCredential(h, c) ==
    /\ human[h] = "live" /\ member[AccountOf[h]].role \in {"owner", "operator"}
    /\ credential[c].status # "none"
    /\ credential' = [credential EXCEPT ![c].status = "revoked"]
    /\ machine' = [m \in Machines |->
            IF machine[m].credential = c THEN [machine[m] EXCEPT !.status = "revoked"]
                                         ELSE machine[m]]
    /\ UNCHANGED <<human, member, up, commerce, tokens>>

Open(c, m) ==
    /\ Backed(c) /\ "agent" \in up /\ machine[m].status = "none"
    /\ machine' = [machine EXCEPT ![m] = [status |-> "live", credential |-> c]]
    /\ UNCHANGED <<human, member, up, credential, commerce, tokens>>

Issue(h, x) ==
    /\ Present(h) /\ up = {"agent", "policy"} /\ commerce[x].parent = Nobody
    /\ commerce' = [commerce EXCEPT ![x].parent = h]
    /\ UNCHANGED <<human, member, up, credential, machine, tokens>>

(* The machine acts, the human who offered is still there, and no machine  *)
(* has been given the token before.                                        *)
Exchange(m, x) ==
    /\ commerce[x].parent # Nobody /\ Present(commerce[x].parent) /\ Acts(m)
    /\ up = {"agent", "policy"} /\ ~commerce[x].revoked
    /\ commerce[x].machine = Nobody /\ tokens[x] = 0
    /\ commerce' = [commerce EXCEPT ![x].machine = m]
    /\ tokens' = [tokens EXCEPT ![x] = 1]
    /\ UNCHANGED <<human, member, up, credential, machine>>

Revoke(h, x) ==
    /\ Present(h) /\ commerce[x].parent # Nobody
    /\ commerce' = [commerce EXCEPT ![x].revoked = TRUE]
    /\ UNCHANGED <<human, member, up, credential, machine, tokens>>

-----------------------------------------------------------------------------
Login(h) ==
    /\ human[h] = "none" /\ human' = [human EXCEPT ![h] = "live"]
    /\ UNCHANGED <<member, up, credential, machine, commerce, tokens>>

Logout(h) ==
    /\ human[h] = "live" /\ human' = [human EXCEPT ![h] = "gone"]
    /\ UNCHANGED <<member, up, credential, machine, commerce, tokens>>

Switch(what) ==
    /\ up' = IF what \in up THEN up \ {what} ELSE up \cup {what}
    /\ UNCHANGED <<human, member, credential, machine, commerce, tokens>>

Close(m) ==
    /\ machine[m].status = "live" /\ machine' = [machine EXCEPT ![m].status = "revoked"]
    /\ UNCHANGED <<human, member, up, credential, commerce, tokens>>

-----------------------------------------------------------------------------
Init ==
    /\ human = [h \in Humans |-> IF h \in InitialHuman THEN "live" ELSE "none"]
    /\ member = InitialMember /\ up = {"agent", "policy"}
    /\ credential = [c \in Credentials |-> [status |-> "none", issuer |-> 0]]
    /\ machine = [m \in Machines |-> [status |-> "none", credential |-> Nobody]]
    /\ commerce = [x \in Commerce |->
                      [parent |-> Nobody, machine |-> Nobody, revoked |-> FALSE]]
    /\ tokens = [x \in Commerce |-> 0]

Next ==
    \/ \E h \in Humans :
          \/ \E a \in Accounts, s \in Standings : SetMember(h, a, s)
          \/ \E c \in Credentials : IssueCredential(h, c) \/ RevokeCredential(h, c)
          \/ \E x \in Commerce : Issue(h, x) \/ Revoke(h, x)
          \/ Login(h) \/ Logout(h)
    \/ \E m \in Machines :
          \/ \E c \in Credentials : Open(c, m)
          \/ \E x \in Commerce : Exchange(m, x)
          \/ Close(m)
    \/ \E what \in Switched : Switch(what)

Spec == Init /\ [][Next]_chain
=============================================================================
