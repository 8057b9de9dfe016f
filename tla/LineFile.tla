------------------------------ MODULE LineFile ------------------------------
(***************************************************************************)
(* The text file the producers and consumers of Module3/08 and Module3/09  *)
(* share.  A line is its number, given in the order of production, and the *)
(* mark in its first column: '0' before, '1' after it was analysed.  The   *)
(* random numbers on a line are left out, and all lines have one length.   *)
(***************************************************************************)
EXTENDS Integers, Sequences

CONSTANT MaxLines       \* MAX_LINES, the lines one consumer pass reads

ASSUME MaxLinesAssumption == MaxLines \in Nat \ {0}

Lines == [id : Nat \ {0}, done : BOOLEAN]

\* A line as the producer appends it, with the mark "0:".
NewLine(n) == [id |-> n, done |-> FALSE]

\* What the fgets loop returns: reading ends at MAX_LINES, wherever the file ends.
ReadAll(f) == IF Len(f) <= MaxLines THEN f ELSE SubSeq(f, 1, MaxLines)

\* The lines a pass prints: those whose mark is still '0'.
Unmarked(lines) == { lines[i].id : i \in { j \in DOMAIN lines : ~lines[j].done } }

\* Mutant: the mark is not set.
MarkedNot(lines) == lines

\* Mutant: the loop that rewrites the file stops one line early.
MarkedShort(lines) ==
    [i \in 1 .. Len(lines) - 1 |-> [lines[i] EXCEPT !.done = TRUE]]

\* The lines after the pass has put '1' in every first column.
Marked(lines) == [i \in DOMAIN lines |-> [lines[i] EXCEPT !.done = TRUE]]

\* fputs of the lines from offset 0 over what the file holds when they are flushed.
Overwrite(f, lines) ==
    IF Len(f) <= Len(lines) THEN lines
    ELSE lines \o SubSeq(f, Len(lines) + 1, Len(f))
=============================================================================
