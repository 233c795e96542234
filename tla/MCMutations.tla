---------------------------- MODULE MCMutations ----------------------------
(* Two changes of one console; two accounts, of which one may write the    *)
(* organization's agents and logs in twice.                                *)
EXTENDS Mutations, TLC

CONSTANTS m1, m2, a1, a2, b1, ann, bob

MCSessions == {a1, a2, b1}
MCAccountOf == (a1 :> ann) @@ (a2 :> ann) @@ (b1 :> bob)
Twins == Permutations(Mutations) \cup Permutations({a1, a2})
=============================================================================
