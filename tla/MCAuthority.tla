---------------------------- MODULE MCAuthority ----------------------------
(* Two transactions; two members with a browser session each.              *)
EXTENDS Authority, TLC

CONSTANTS r1, r2, h1, h2, c1, m1, x1

MCAccountOf == h1 :> 1 @@ h2 :> 2
MCMember    == 1 :> [role |-> "owner", active |-> TRUE]
            @@ 2 :> [role |-> "owner", active |-> TRUE]
MCStandings == {[role |-> "operator", active |-> FALSE]}
Symmetry    == Permutations({r1, r2})
=============================================================================
