----------------------------- MODULE MCAccounts -----------------------------
(* Two requests.  For the logins, two accounts that have a session each and *)
(* may use one browser, and a passkey of neither; for the settings, one     *)
(* account with a session and two codes, and two passkeys it might add.     *)
EXTENDS Accounts, TLC

CONSTANTS r1, r2, p1, p2, p3, w1

Owners   == p1 :> 1 @@ p2 :> 2 @@ p3 :> 0
Sessions == <<1, 2>>
NoCodes  == << >>
Symmetry == Permutations({r1, r2})

OneOwner     == p1 :> 1 @@ p2 :> 0 @@ p3 :> 0
OneSession   == <<1>>
Codes        == <<1, 1>>
FreeSymmetry == Symmetry \cup Permutations({p2, p3})
=============================================================================
