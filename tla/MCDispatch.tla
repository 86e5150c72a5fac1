----------------------------- MODULE MCDispatch -----------------------------
(***************************************************************************)
(* The instances: one demand for a pool of two workers and a terminal      *)
(* session, over two lives of the daemon, for what is counted; two         *)
(* demands, one of them broken, over a channel of one place with one       *)
(* worker or two, for what must get through.                               *)
(***************************************************************************)
EXTENDS Dispatch, TLC

MCActions == 1..2

Alike == Permutations(Workers)
=============================================================================
