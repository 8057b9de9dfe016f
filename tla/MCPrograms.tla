---------------------------- MODULE MCPrograms ------------------------------
(* malloc may return any unused node, and the processes are alike.           *)
EXTENDS Programs, TLC

Alike == Permutations(Node) \cup Permutations(Procs)
=============================================================================
