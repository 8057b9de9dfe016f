------------------------------ MODULE CoolQueue ------------------------------
(***************************************************************************)
(* The priority queue of Module2/4/4.2: a doubly linked list kept in order *)
(* of priority (coolQ.c) and the menu that drives it (main.c).  Memory is  *)
(* a finite set of nodes, malloc gives any unused one or fails.  One       *)
(* action is one call of push, pop or an extract function with what its    *)
(* caller does with the result; the loops of generateMessages and          *)
(* freeQueue and the three calls of testExtraction are steps of their own. *)
(***************************************************************************)
EXTENDS Integers, Sequences, FiniteSets, FiniteSetsExt

CONSTANTS Node, NULL, Free,   \* the memory, the null pointer, unused memory
          Text,               \* the messages
          MaxPriority,        \* 255 in the code
          MaxCount            \* bound: messages asked of generateMessages

Pointer == Node \cup {NULL}

NodeType == [text : Text, priority : 0 .. MaxPriority + 1, prev : Pointer, next : Pointer]

\* What is assumed of the constants.
QueueAssumption == /\ MaxPriority \in Nat
                   /\ MaxCount \in Nat
                   /\ NULL \notin Node
                   /\ Free \notin NodeType

VARIABLES heap,    \* what each node of memory holds
          head,    \* main's "queue"
          pc,      \* where the program is
          todo,    \* messages generateMessages has still to push
          call     \* history: the operation called last

vars == <<heap, head, pc, todo, call>>

\* Mutant: menuPush does not test for numbers below 0.
EnteredBelow == -1 .. MaxPriority + 1

\* What "scanf" and menuPush's test of the range let through, and what
\* "rand() % 256" gives.
Entered == 0 .. MaxPriority + 1
Drawn == 0 .. MaxPriority

\* What the unchecked scanf of options 4 and 5 leaves in "priority".
Asked == -1 .. MaxPriority + 2

Call == [op : {"none", "refused", "pop"}]
        \cup [op : {"push"}, text : Text, priority : 0 .. MaxPriority + 1]
        \cup [op : {"byPriority", "notLower"}, priority : Asked]

TypeOK == /\ heap \in [Node -> NodeType \cup {Free}]
          /\ head \in Pointer
          /\ pc \in {"menu", "generate", "pop", "byPriority", "notLower",
                     "free", "ended", "stuck"}
          /\ todo \in 0 .. MaxCount
          /\ call \in Call

Init == /\ heap = [n \in Node |-> Free]
        /\ head = NULL
        /\ pc = "menu"
        /\ todo = 0
        /\ call = [op |-> "none"]
-----------------------------------------------------------------------------
Spare == {n \in Node : heap[n] = Free}
Used == Node \ Spare

\* The nodes in the order in which "temp = temp->next" comes to them.
Chain ==
  LET from[n \in Used \cup {NULL}] ==
        IF n = NULL THEN <<>> ELSE <<n>> \o from[heap[n].next]
  IN  from[head]

\* The node a loop "while(temp != NULL)" stops at, the first that is in found.
Seek(found) ==
  LET there == {i \in DOMAIN Chain : Chain[i] \in found}
  IN  IF there = {} THEN NULL ELSE Chain[Min(there)]

End == Seek({n \in Used : heap[n].next = NULL})

\* Mutant: push goes before the messages of its own priority.
AfterOrEqual(n, p) == heap[n].priority >= p

\* push's loop stops at the first message that is less urgent than p.
After(n, p) == ~(heap[n].priority <= p)

\* The list h with n put between two neighbours, either of which may be NULL.
Linked(h, n, before, after) ==
  [m \in Node |->
     CASE m = n      -> [h[n] EXCEPT !.prev = before, !.next = after]
       [] m = before -> [h[m] EXCEPT !.next = n]
       [] m = after  -> [h[m] EXCEPT !.prev = n]
       [] OTHER      -> h[m]]

\* Mutant: the predecessor is mended, the successor still points back to n.
UnlinkedHalf(n) ==
  LET before == IF n = head THEN NULL ELSE heap[n].prev
  IN  [m \in Node |->
         CASE m = n      -> Free
           [] m = before -> [heap[m] EXCEPT !.next = heap[n].next]
           [] OTHER      -> heap[m]]

\* The list without n, whose memory is given back: the body the two extract
\* functions share, and the free() that every caller of them ends with.
Unlinked(n) ==
  LET before == IF n = head THEN NULL ELSE heap[n].prev
      after  == heap[n].next
  IN  [m \in Node |->
         CASE m = n      -> Free
           [] m = before -> [heap[m] EXCEPT !.next = after]
           [] m = after  -> [heap[m] EXCEPT !.prev = before]
           [] OTHER      -> heap[m]]

TakeOut(n) == /\ heap' = Unlinked(n)
              /\ head' = IF n = head THEN heap[n].next ELSE head
-----------------------------------------------------------------------------
\* push: behind the last message that is at least as urgent.
Push(t, p) ==
  \/ /\ \E n \in Spare :
          LET temp   == Seek({m \in Used : After(m, p)})
              before == CASE temp = NULL -> End
                          [] temp = head -> NULL
                          [] OTHER       -> heap[temp].prev
              made   == [heap EXCEPT ![n] = [text |-> t, priority |-> p,
                                             prev |-> NULL, next |-> NULL]]
          IN  /\ heap' = Linked(made, n, before, temp)
              /\ head' = IF before = NULL THEN n ELSE head
     /\ call' = [op |-> "push", text |-> t, priority |-> p]
  \/ /\ call' = [op |-> "refused"]                       \* malloc failed
     /\ UNCHANGED <<heap, head>>

Pop == /\ call' = [op |-> "pop"]
       /\ IF head = NULL THEN UNCHANGED <<heap, head>> ELSE TakeOut(head)

\* An extract function, and the caller that prints and frees what it got.
Extract(found) ==
  LET item == Seek(found)
  IN  IF item = NULL THEN UNCHANGED <<heap, head>> ELSE TakeOut(item)

ExtractByPriority(x) == /\ call' = [op |-> "byPriority", priority |-> x]
                        /\ Extract({n \in Used : heap[n].priority = x})

ExtractNotLower(x) == /\ call' = [op |-> "notLower", priority |-> x]
                      /\ Extract({n \in Used : heap[n].priority <= x})
-----------------------------------------------------------------------------
Goto(from, to) == pc = from /\ pc' = to

MenuPush == /\ Goto("menu", "menu")
            /\ \E t \in Text, p \in Entered : Push(t, p)
            /\ UNCHANGED todo

MenuExtract == /\ Goto("menu", "menu")
               /\ \/ Pop
                  \/ \E x \in Asked : ExtractByPriority(x) \/ ExtractNotLower(x)
               /\ UNCHANGED todo

\* An unread "count" keeps whatever value it had.
MenuGenerate == /\ Goto("menu", "generate")
                /\ todo' \in 0 .. MaxCount
                /\ UNCHANGED <<heap, head, call>>

GenerateMessages ==
  \/ /\ Goto("generate", "generate")
     /\ todo > 0
     /\ todo' = todo - 1
     /\ \E t \in Text, p \in Drawn : Push(t, p)
  \/ /\ Goto("generate", "menu")
     /\ todo = 0
     /\ UNCHANGED <<heap, head, todo, call>>

MenuTest == Goto("menu", "pop") /\ UNCHANGED <<heap, head, todo, call>>

\* testExtraction: one call of each of the three ways to take a message out.
TestExtraction ==
  /\ \/ Goto("pop", "byPriority") /\ Pop
     \/ Goto("byPriority", "notLower") /\ \E x \in Drawn : ExtractByPriority(x)
     \/ Goto("notLower", "menu") /\ \E x \in Drawn : ExtractNotLower(x)
  /\ UNCHANGED todo

Exit == Goto("menu", "free") /\ UNCHANGED <<heap, head, todo, call>>

FreeQueue == \/ Goto("free", "free") /\ head # NULL /\ Pop /\ UNCHANGED todo
             \/ /\ Goto("free", "ended")
                /\ head = NULL
                /\ UNCHANGED <<heap, head, todo, call>>

\* The input ends, and "while (getchar() != '\n')" never does.
InputEnds == Goto("menu", "stuck") /\ UNCHANGED <<heap, head, todo, call>>

Next == \/ MenuPush \/ MenuExtract \/ MenuGenerate \/ MenuTest \/ Exit \/ InputEnds
        \/ GenerateMessages \/ TestExtraction \/ FreeQueue

Spec == Init /\ [][Next]_vars
-----------------------------------------------------------------------------
\* The messages of one priority, from the first of them in the list to the last.
Line(p) ==
  LET mine == {i \in DOMAIN Chain : heap[Chain[i]].priority = p}
  IN  IF mine = {} THEN <<>>
      ELSE [i \in 1 .. Max(mine) - Min(mine) + 1 |-> heap[Chain[Min(mine) + i - 1]].text]

\* The list can be walked both ways, and every node malloc has given and free
\* has not taken back is on it: nothing leaks, nothing freed is still linked.
\* The links are rewritten by six different pieces of push and the extracts.
ListIntact ==
  /\ Used = {Chain[i] : i \in DOMAIN Chain}
  /\ head # NULL => heap[head].prev = NULL
  /\ \A n \in Used :
        heap[n].next # NULL => heap[heap[n].next].prev = n

\* A queue with one line of messages for each priority: whatever mixture of
\* pushes and extractions, each operation takes the message README.md says it
\* takes, messages of one priority leave in the order they came, and the
\* insertion keeps the list sorted, on which pop's "first" depends.  There is
\* a line for every priority menuPush accepts (Entered), one more than the 0
\* to MaxPriority of README.md:3.
PQ == INSTANCE PriorityQueue WITH Priority <- Entered,
                                  waiting <- [p \in Entered |-> Line(p)]

ImplementsPriorityQueue == PQ!Spec
=============================================================================
