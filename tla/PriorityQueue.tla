---------------------------- MODULE PriorityQueue ----------------------------
(***************************************************************************)
(* What Module2/4/4.2 promises of its queue (README.md, points 1 to 4): one *)
(* first-in-first-out line of messages for each priority, 0 the most       *)
(* urgent; a message is taken from the front of a line, and which line is  *)
(* fixed by the operation called.  Which priorities there are is left      *)
(* open.  "call" is the operation that was called last, with its arguments.*)
(***************************************************************************)
EXTENDS Naturals, Sequences

CONSTANTS Text, Priority, Asked   \* the priorities that can be asked for

VARIABLES waiting, call

vars == <<waiting, call>>

Init == /\ waiting = [p \in Priority |-> <<>>]
        /\ call = [op |-> "none"]

Calls(c) == call' = c

Empty == \A p \in Priority : waiting[p] = <<>>

MostUrgent(p) == /\ waiting[p] # <<>>
                 /\ \A q \in Priority : q < p => waiting[q] = <<>>

Take(p) == waiting' = [waiting EXCEPT ![p] = Tail(@)]

Add(t, p) == /\ Calls([op |-> "push", text |-> t, priority |-> p])
             /\ waiting' = [waiting EXCEPT ![p] = Append(@, t)]

\* There was no memory for a new message.
Refuse == /\ Calls([op |-> "refused"])
          /\ UNCHANGED waiting

Pop == /\ Calls([op |-> "pop"])
       /\ \/ Empty /\ UNCHANGED waiting
          \/ \E p \in Priority : MostUrgent(p) /\ Take(p)

ByPriority(x) == /\ Calls([op |-> "byPriority", priority |-> x])
                 /\ IF x \in Priority /\ waiting[x] # <<>>
                    THEN Take(x)
                    ELSE UNCHANGED waiting

\* "Not lower than x" is "not after x", so the most urgent message qualifies
\* whenever any message does.
NotLower(x) == /\ Calls([op |-> "notLower", priority |-> x])
               /\ \/ /\ \A p \in Priority : p <= x => waiting[p] = <<>>
                     /\ UNCHANGED waiting
                  \/ \E p \in Priority : p <= x /\ MostUrgent(p) /\ Take(p)

Next == \/ \E t \in Text, p \in Priority : Add(t, p)
        \/ Refuse
        \/ Pop
        \/ \E x \in Asked : ByPriority(x) \/ NotLower(x)

Spec == Init /\ [][Next]_vars
=============================================================================
