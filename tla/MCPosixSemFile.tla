--------------------------- MODULE MCPosixSemFile ---------------------------
(* Two runs of Module3/09 at most at a time; which processes may fail.       *)
EXTENDS PosixSemFile

CONSTANTS r1, r2

Run1 == {Parent(r1), Child(r1)}
Children == {Child(r) : r \in Runs}
=============================================================================
