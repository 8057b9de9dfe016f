--------------------------- MODULE MCShmHandshake ---------------------------
(* Which processes of the runs may be signalled or killed.                   *)
EXTENDS ShmHandshakeProofs

CONSTANTS r1, r2

\* The safety properties say nothing of the states beyond.
Unshared == ~shared

None == {}
Parents == {Parent(r) : r \in Runs}
Everybody == Procs
FirstRun == {Parent(r1), Child(r1)}
FirstParent == {Parent(r1)}
FirstChild == {Child(r1)}
=============================================================================
