------------------------------ MODULE MCVault ------------------------------
(***************************************************************************)
(* A daemon with a goroutine that handles a client's scan, and a terminal  *)
(* session that scans.                                                     *)
(***************************************************************************)
EXTENDS Vault

CONSTANTS d, t, h, m

MCProc == [w \in Workers |-> IF w = m THEN t ELSE d]
=============================================================================
