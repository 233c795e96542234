----------------------------- MODULE MCCommerce -----------------------------
(* Small instances of Commerce: values of its constants for TLC.           *)
EXTENDS Commerce, FiniteSetsExt, TLC

CONSTANTS a1, a2, a3, a4, s1, s2, p1, p2, h1, h2, x1, x2


(* Actions of the same debit differ in nothing.                            *)
MCSymmetry == Permutations({a1, a2, a4})

MCTerms(per, rolling, mode, threshold, separate) ==
    [feeLimit |-> 1, perAction |-> per, rolling |-> rolling, mode |-> mode,
     threshold |-> threshold, separate |-> separate]

(* Three actions of debit 2 and one of debit 3.                             *)
MCDebit == [a \in Actions |-> IF a = a3 THEN 3 ELSE 2]
MCFee   == [a \in Actions |-> 1]
MCDebitSum == [S \in SUBSET Actions |->
                  MapThenSumSet(LAMBDA a : MCDebit[a], S)]

MCSessionPolicy == [s \in Sessions |-> IF s = s2 THEN p2 ELSE p1]
MCRequester     == [s \in Sessions |-> h1]

(* p1 is tightened by its second revision; p2 lifts its limit.            *)
MCBudgetTerms ==
    [p \in Policies |-> [r \in 1..MaxRevision |->
        IF p = p1 /\ r = 1 THEN MCTerms(NoLimit, 4, "above", 2, TRUE)
        ELSE IF p = p1 THEN MCTerms(3, 2, "never", 0, FALSE)
        ELSE MCTerms(3, IF r = 1 THEN 5 ELSE NoLimit, "never", 0, FALSE)]]

(* The first revision asks a separate approver for every action.           *)
MCGrantTerms ==
    [p \in Policies |-> [r \in 1..MaxRevision |->
        IF r = 1 THEN MCTerms(NoLimit, NoLimit, "always", 0, TRUE)
        ELSE MCTerms(NoLimit, 3, "never", 0, FALSE)]]
=============================================================================
