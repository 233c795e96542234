------------------------------ MODULE MCOutbox ------------------------------
(* Finite instances of Outbox.                                             *)
EXTENDS Outbox, TLC

CONSTANTS j1, j2, w1, w2

MCBackoff == [n \in 1..MaxAttempts |-> IF n = 1 THEN 1 ELSE 2]
=============================================================================
