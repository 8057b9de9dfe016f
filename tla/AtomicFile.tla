----------------------------- MODULE AtomicFile -----------------------------
(***************************************************************************)
(* What the semaphore of Module3/08 and Module3/09 is there to provide: a  *)
(* file that changes in two atomic ways only, a line is added at its end,  *)
(* or one pass marks every line in it.  No line ever disappears.           *)
(***************************************************************************)
EXTENDS Integers, Sequences

VARIABLES lines,        \* the lines of the file, [id, done] each
          added         \* how many lines were ever added

vars == <<lines, added>>

Init == lines = <<>> /\ added = 0

Add == /\ added' = added + 1
       /\ lines' = Append(lines, [id |-> added + 1, done |-> FALSE])

Pass == /\ lines' = [i \in DOMAIN lines |-> [lines[i] EXCEPT !.done = TRUE]]
        /\ UNCHANGED added

Next == Add \/ Pass

Spec == Init /\ [][Next]_vars
=============================================================================
