------------------------------ MODULE MCReview ------------------------------
(***************************************************************************)
(* One listing whose broker takes both mails and forms, and windows of one *)
(* and two days.                                                           *)
(***************************************************************************)
EXTENDS Review, TLC

MCRepop == [r \in Records |-> 2]

Alike == Permutations(Scrubs)
=============================================================================
