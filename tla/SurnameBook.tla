----------------------------- MODULE SurnameBook -----------------------------
(***************************************************************************)
(* What each operation of Module2/4/4.1 does to its phone book: a sequence *)
(* of contacts, with numbers from 0 on that deletion and editing go by.  A *)
(* contact is put in at the place its surname gives it; the editor leaves  *)
(* a contact with a new surname where it is.  So the order of surnames is  *)
(* no part of the specification, but what OrderKept says of it follows.    *)
(* "call" is the operation called last.                                    *)
(***************************************************************************)
EXTENDS Integers, Sequences

CONSTANTS Surname, Note,    \* surnames in their order, and all the rest of a contact
          Asked             \* the numbers that can be asked for

VARIABLES book, call

vars == <<book, call>>

Contact == [surname : Surname, note : Note]

Init == book = <<>> /\ call = [op |-> "none"]

\* In front of the first contact that does not come before the new one.
Add(c) ==
    /\ call' = [op |-> "add", contact |-> c]
    /\ \E i \in 1 .. Len(book) + 1 :
          /\ \A j \in 1 .. i - 1 : book[j].surname < c.surname
          /\ i <= Len(book) => book[i].surname >= c.surname
          /\ book' = SubSeq(book, 1, i - 1) \o <<c>> \o SubSeq(book, i, Len(book))

Refuse == call' = [op |-> "refused"] /\ UNCHANGED book

\* The contact a number stands for: the first one for numbers below 0, too.
Place(id) == IF id < 0 THEN 1 ELSE id + 1

Delete(id) ==
    /\ call' = [op |-> "delete", id |-> id]
    /\ LET i == Place(id)
       IN  book' = IF i <= Len(book) THEN SubSeq(book, 1, i - 1) \o SubSeq(book, i + 1, Len(book))
                                     ELSE book

\* The first contact gets a new value in one field; the order is not mended.
EditFirst ==
    /\ call' = [op |-> "edit"] /\ book # <<>>
    /\ \/ \E s \in Surname : book' = [book EXCEPT ![1].surname = s]
       \/ \E n \in Note : book' = [book EXCEPT ![1].note = n]

Next ==
    \/ \E c \in Contact : Add(c)
    \/ \E id \in Asked : Delete(id)
    \/ Refuse \/ EditFirst

Spec == Init /\ [][Next]_vars

\* The contacts are in the order of their surnames.
InOrder == \A i, j \in DOMAIN book : i < j => book[i].surname <= book[j].surname

\* The step gives a contact another surname.
SurnameEdited == call'.op = "edit" /\ \E i \in DOMAIN book : book'[i].surname # book[i].surname

\* Once the contacts are in order, as they are in the beginning, only the editor can put
\* them out of it.
OrderKept == [][InOrder => InOrder' \/ SurnameEdited]_vars
=============================================================================
