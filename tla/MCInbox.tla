------------------------------ MODULE MCInbox ------------------------------
(***************************************************************************)
(* One broker with one demand; one message cannot be parsed, the other has *)
(* two confirmation links.                                                 *)
(***************************************************************************)
EXTENDS Inbox

MCOf == [a \in Actions |-> "b"]

MCFrom == [m \in Msgs |-> "b"]

MCToken == [m \in Msgs |-> None]

MCLinks == [m \in Msgs |-> IF m \in Linked THEN 2 ELSE 0]
=============================================================================
