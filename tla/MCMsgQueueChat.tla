--------------------------- MODULE MCMsgQueueChat ---------------------------
(* The terminals of the runs are alike.                                      *)
EXTENDS MsgQueueChat

Alike == Permutations(Terminals)
=============================================================================
