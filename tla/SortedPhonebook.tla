--------------------------- MODULE SortedPhonebook ---------------------------
(***************************************************************************)
(* The phone book of Module2/4/4.1: a doubly linked list that a new        *)
(* contact enters in front of the first whose surname is not before its    *)
(* own.  Memory is a finite set of nodes, calloc gives any unused one or   *)
(* fails.  One action is one turn of main's menu or of the editor's.       *)
(* An edit behind the memory of the first contact (phonebook[id] of a      *)
(* pointer to one node) is undefined, and nothing is said of what follows. *)
(***************************************************************************)
EXTENDS Integers, Sequences, FiniteSets, FiniteSetsExt

CONSTANTS Node, NULL, Free,     \* the memory, the null pointer, unused memory
          Surname, Note         \* surnames in their order, and all the rest of a contact

NodeType == [surname : Surname, note : Note, prev : Node \cup {NULL}, next : Node \cup {NULL}]

\* What is assumed of the constants.
PhonebookAssumption ==
    Surname \subseteq Int /\ NULL \notin Node /\ Free \notin NodeType /\ IsFiniteSet(Node)

VARIABLES
    heap,       \* what each node of memory holds
    head,       \* main's "phonebook"
    pc,         \* where the program is
    call        \* history: the operation called last

vars == <<heap, head, pc, call>>

Init ==
    /\ heap = [n \in Node |-> Free] /\ head = NULL
    /\ pc = "menu" /\ call = [op |-> "none"]

-----------------------------------------------------------------------------
Used == {n \in Node : heap[n] # Free}

\* The nodes of the list in order.
Chain ==
    LET from[n \in Used \cup {NULL}] == IF n = NULL THEN <<>> ELSE <<n>> \o from[heap[n].next]
    IN  from[head]

\* The numbers scanf() may give, one below the list's and one above it among them.
Asked == -1 .. Len(Chain)

\* The node "index < id" stops at, NULL at the end of the list.
Walk(id) == CASE id < 0           -> head
              [] id >= Len(Chain) -> NULL
              [] OTHER            -> Chain[id + 1]

\* Mutant: a contact goes behind those of its own surname.
FirstAfter(s) ==
    LET later == {i \in DOMAIN Chain : heap[Chain[i]].surname > s}
    IN  IF later = {} THEN NULL ELSE Chain[Min(later)]

\* Mutant: the comparison is turned round.
FirstBefore(s) ==
    LET there == {i \in DOMAIN Chain : ~ (s < heap[Chain[i]].surname)}
    IN  IF there = {} THEN NULL ELSE Chain[Min(there)]

\* The node addMenu's loop stops at.
FirstNotBefore(s) ==
    LET there == {i \in DOMAIN Chain : ~ (s > heap[Chain[i]].surname)}
    IN  IF there = {} THEN NULL ELSE Chain[Min(there)]

\* Mutant: the node in front of a new one still points past it when it is linked in the
\* middle.
InsertedHalf(n, contact, current) ==
    LET before == IF current = NULL THEN Chain[Len(Chain)] ELSE heap[current].prev
    IN  [m \in Node |->
           CASE m = n       -> [contact EXCEPT !.prev = before, !.next = current]
             [] m = current -> [heap[m] EXCEPT !.prev = n]
             [] m = before  -> IF current = NULL THEN [heap[m] EXCEPT !.next = n] ELSE heap[m]
             [] OTHER       -> heap[m]]

\* The list with the new node n in front of current: at the beginning (prev is NULL), at
\* the end (current is NULL) or between two.
Inserted(n, contact, current) ==
    LET before == IF current = NULL THEN Chain[Len(Chain)] ELSE heap[current].prev
    IN  [m \in Node |->
           CASE m = n       -> [contact EXCEPT !.prev = before, !.next = current]
             [] m = current -> [heap[m] EXCEPT !.prev = n]
             [] m = before  -> [heap[m] EXCEPT !.next = n]
             [] OTHER       -> heap[m]]

addMenu(s, t) ==
    /\ pc = "menu"
    /\ \/ \E n \in Node \ Used :
             LET contact == [surname |-> s, note |-> t, prev |-> NULL, next |-> NULL]
                 current == FirstNotBefore(s)
             IN  /\ heap' = IF head = NULL THEN [heap EXCEPT ![n] = contact]
                                           ELSE Inserted(n, contact, current)
                 /\ head' = IF current = head THEN n ELSE head
                 /\ call' = [op |-> "add", contact |-> [surname |-> s, note |-> t]]
       \/ /\ call' = [op |-> "refused"]                     \* calloc() failed
          /\ UNCHANGED <<heap, head>>
    /\ UNCHANGED pc

\* deleteContact(): the neighbours are joined, and the memory is given back.
Without(n) ==
    [m \in Node |->
       CASE m = n            -> Free
         [] m = heap[n].prev -> [heap[m] EXCEPT !.next = heap[n].next]
         [] m = heap[n].next -> [heap[m] EXCEPT !.prev = heap[n].prev]
         [] OTHER            -> heap[m]]

deleteMenu(id) ==
    /\ pc = "menu"
    /\ call' = [op |-> "delete", id |-> id]
    /\ LET node == Walk(id)
       IN  IF node = NULL THEN UNCHANGED <<heap, head>>
           ELSE /\ heap' = Without(node)
                /\ head' = IF heap[node].prev = NULL THEN heap[node].next ELSE head
    /\ UNCHANGED pc

\* editContact() up to its menu: the walk finds the contact, phonebook[id] is the contact
\* of the walk for id 0 only.
editContact(id) ==
    /\ pc = "menu" /\ Walk(id) # NULL
    /\ pc' = IF id = 0 THEN "edit" ELSE "undefined"
    /\ UNCHANGED <<heap, head, call>>

\* One turn of the editor; a surname is replaced where the contact is.
EditField ==
    /\ pc = "edit"
    /\ \/ \E s \in Surname : heap' = [heap EXCEPT ![head].surname = s]
       \/ \E t \in Note : heap' = [heap EXCEPT ![head].note = t]
    /\ call' = [op |-> "edit"]
    /\ UNCHANGED <<head, pc>>

EditEnds ==
    /\ pc = "edit" /\ pc' = "menu"
    /\ UNCHANGED <<heap, head, call>>

Exit ==
    /\ pc = "menu" /\ pc' = "free"
    /\ UNCHANGED <<heap, head, call>>

\* freePhonebook(): one node; head stands for "current".
FreeNode ==
    /\ pc = "free"
    /\ IF head = NULL
       THEN pc' = "ended" /\ UNCHANGED <<heap, head, call>>
       ELSE /\ heap' = [heap EXCEPT ![head] = Free] /\ head' = heap[head].next
            /\ call' = [op |-> "delete", id |-> 0] /\ UNCHANGED pc

\* The input ends, and "while (getchar() != '\n')" never does.
InputEnds ==
    /\ pc \in {"menu", "edit"} /\ pc' = "stuck"
    /\ UNCHANGED <<heap, head, call>>

Next ==
    \/ \E s \in Surname, t \in Note : addMenu(s, t)
    \/ \E id \in Asked : deleteMenu(id) \/ editContact(id)
    \/ EditField \/ EditEnds \/ Exit \/ FreeNode \/ InputEnds

Spec == Init /\ [][Next]_vars

-----------------------------------------------------------------------------
(* Properties.                                                               *)

TypeOK ==
    /\ heap \in [Node -> NodeType \cup {Free}]
    /\ head \in Node \cup {NULL}
    /\ pc \in {"menu", "edit", "free", "ended", "stuck", "undefined"}
    /\ call \in [op : {"none", "refused", "edit"}]
          \cup [op : {"add"}, contact : [surname : Surname, note : Note]]
          \cup [op : {"delete"}, id : -1 .. Cardinality(Node)]

\* Every node calloc has given and free has not taken back is on the list (nothing leaks,
\* nothing freed is still linked), and the list can be walked both ways: addMenu links a
\* node at three places, and deleteContact takes the first one for the one without "prev".
ListIntact ==
    /\ Used = {Chain[i] : i \in DOMAIN Chain}
    /\ pc # "free" =>
          /\ head # NULL => heap[head].prev = NULL
          /\ \A n \in Used : heap[n].next # NULL => heap[heap[n].next].prev = n

\* The list is a sequence of contacts: a new one is put in at the place its surname gives
\* it, deleting and editing change the one that was asked for, and the others stay as they
\* are (addMenu, deleteMenu, editContact).
SB == INSTANCE SurnameBook WITH
          Asked <- -1 .. Cardinality(Node),
          book <- [i \in DOMAIN Chain |-> [surname |-> heap[Chain[i]].surname,
                                           note |-> heap[Chain[i]].note]]

ImplementsSurnameBook == SB!Spec

\* "A phone book with the contacts sorted by surname" (README.md:3) is what the list is up
\* to the first edit of a surname (EditField): adding at the beginning, at the end or in
\* between, deleting and freeing keep the order.
BookInOrder == SB!OrderKept
=============================================================================
