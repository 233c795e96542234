---------------------------- MODULE MCObservation ----------------------------
(* Finite instances of Observation.                                        *)
EXTENDS Observation, TLC

CONSTANTS w1, w2, x1, x2
=============================================================================
