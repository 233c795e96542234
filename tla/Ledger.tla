------------------------------- MODULE Ledger -------------------------------
(***************************************************************************)
(* What the control plane promises of money: an entry for every action     *)
(* that advances one stage at a time, and only while there is authority    *)
(* for it; is reserved only if all that is exposed then fits its limit;    *)
(* and is given back only before a payment was signed.                     *)
(***************************************************************************)
EXTENDS Naturals, FiniteSets

CONSTANTS Actions, DebitSum, Limits, NoLimit, RowLimit

VARIABLES
    entry,      \* the stage of each action
    limit,      \* the limit each action is subject to, from its first step
    valid       \* the actions there is authority for

ledger == <<entry, limit, valid>>

Stages == {"none", "asked", "reserved", "signed", "sent", "claimed", "closed"}

(* What counts against the limits.                                         *)
Exposed == {a \in Actions : entry[a] \in {"reserved", "signed", "sent", "claimed"}}

Fits(a, l) ==
    /\ Cardinality(Exposed) <= RowLimit
    /\ l # NoLimit => DebitSum[Exposed \cup {a}] <= l

-----------------------------------------------------------------------------
Ask(a, l) ==
    /\ entry[a] = "none" /\ entry' = [entry EXCEPT ![a] = "asked"]
    /\ limit' = [limit EXCEPT ![a] = l] /\ valid' = valid \cup {a}

Reserve(a, l) ==
    /\ \/ entry[a] = "none"
       \/ entry[a] = "asked" /\ limit[a] = l /\ a \in valid
    /\ Fits(a, l)
    /\ entry' = [entry EXCEPT ![a] = "reserved"]
    /\ limit' = [limit EXCEPT ![a] = l] /\ valid' = valid \cup {a}

Advance(a, from, to) ==
    /\ entry[a] = from /\ a \in valid
    /\ entry' = [entry EXCEPT ![a] = to] /\ UNCHANGED <<limit, valid>>

Sign(a)  == Advance(a, "reserved", "signed")
Send(a)  == Advance(a, "signed", "sent")
Claim(a) == Advance(a, "sent", "claimed")

(* Refused, withdrawn, or given back: authority is not needed.             *)
Close(a) ==
    /\ entry[a] \in {"asked", "reserved"}
    /\ entry' = [entry EXCEPT ![a] = "closed"] /\ UNCHANGED <<limit, valid>>

(* Time passes; policies, sessions and listings come and go.               *)
AuthorityChanges ==
    /\ UNCHANGED <<entry, limit>>
    /\ valid' \subseteq {a \in Actions : entry[a] # "none"}

-----------------------------------------------------------------------------
Init ==
    /\ entry = [a \in Actions |-> "none"] /\ limit = [a \in Actions |-> NoLimit]
    /\ valid = {}

Next ==
    \/ AuthorityChanges
    \/ \E a \in Actions :
          \/ \E l \in Limits : Ask(a, l) \/ Reserve(a, l)
          \/ Sign(a) \/ Send(a) \/ Claim(a) \/ Close(a)

Spec == Init /\ [][Next]_ledger
=============================================================================
