--------------------------- MODULE MCControlPlane ---------------------------
(* One action of one session between two transactions, under a policy that *)
(* asks for approval; the human who issued the handoff may give it.        *)
EXTENDS ControlPlane, TLC

CONSTANTS r1, r2, h1, c1, m1, x1, p1, a1, i1

MCAccountOf == h1 :> 1
MCMember    == 1 :> [role |-> "owner", active |-> TRUE]
MCSessionPolicy == x1 :> p1
MCRequester     == x1 :> 1
MCDebit    == a1 :> 2
MCFee      == a1 :> 1
MCDebitSum == {} :> 0 @@ {a1} :> 2
MCTerms    == p1 :> [r \in 1 .. MaxRevision |->
                 [feeLimit |-> 1, perAction |-> NoLimit, rolling |-> 4,
                  mode |-> "always", threshold |-> 0, separate |-> FALSE]]
Symmetry   == Permutations({r1, r2})
=============================================================================
