------------------------------- MODULE MCVault -------------------------------
(* Tabs of one origin, and a record of its workspace.                        *)
EXTENDS Vault

CONSTANTS t1, t2, r1
=============================================================================
