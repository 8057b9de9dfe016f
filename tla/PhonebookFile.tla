---------------------------- MODULE PhonebookFile ----------------------------
(***************************************************************************)
(* Module3/03: a phone book in an array, loaded from the file "filebook"   *)
(* when the program starts and written back when its user leaves.  Runs    *)
(* started in the same directory use the same file and no lock.  One       *)
(* action is one command of the menu, one read() or one write(), or the    *)
(* opening of the file with what follows it before the next of these.      *)
(***************************************************************************)
EXTENDS Integers, Sequences, FiniteSets

CONSTANTS
    Runs,           \* the terminals the program is started on
    Contacts,       \* what a contact may be
    Empty,          \* a slot without a contact: phoneNumber[0] = '\0'
    InitialSize,    \* 10 in the code
    Failures,       \* what may fail, of "open", "read", "write", "memory" and "input"
    Killable,       \* TRUE when processes may be killed
    MaxSize,        \* bound: how large the array grows
    MaxCommands,    \* bound: how many commands change a book
    MaxStarts       \* bound: how many times the program is started

\* What is assumed of the constants.
BookAssumption ==
    /\ Empty \notin Contacts /\ Killable \in BOOLEAN
    /\ Failures \subseteq {"open", "read", "write", "memory", "input"}
    /\ InitialSize \in Nat \ {0} /\ {MaxSize, MaxCommands, MaxStarts} \subseteq Nat
    /\ InitialSize <= MaxSize

VARIABLES
    file,       \* the slots in the file, <<>> also when there is none
    pc,         \* where each run is
    book,       \* its array, as far as it is read
    i,          \* while it loads, contactsCount; while it saves, the slots written
    saved,      \* history: the book of the run that saved last
    torn,       \* history: TRUE when the file may be something else
    alone,      \* history: the runs whose use of the file nobody has disturbed
    commands,   \* how many commands were given
    starts      \* how many times the program was started

vars == <<file, pc, book, i, saved, torn, alone, commands, starts>>

Slots == Contacts \cup {Empty}
Blank(n) == [k \in 1 .. n |-> Empty]

Init ==
    /\ file = <<>> /\ saved = <<>> /\ torn = FALSE /\ alone = {}
    /\ pc = [r \in Runs |-> "off"] /\ book = [r \in Runs |-> <<>>] /\ i = [r \in Runs |-> 0]
    /\ commands = 0 /\ starts = 0

Become(r, place) == pc' = [pc EXCEPT ![r] = place]

-----------------------------------------------------------------------------
(* loadPhonebook                                                             *)

\* open() and fstat().  A file that cannot be opened is taken for one that is not there.
\* A run that gets no memory here ends, and is as good as not started.
Start(r) ==
    /\ pc[r] \in {"off", "done"} /\ starts < MaxStarts
    /\ \/ /\ file # <<>>
          /\ Become(r, "load") /\ book' = [book EXCEPT ![r] = <<>>]
          /\ i' = [i EXCEPT ![r] = Len(file)]
          /\ alone' = IF torn THEN alone \ {r} ELSE alone \cup {r}
       \/ /\ file = <<>> \/ "open" \in Failures
          /\ Become(r, "menu") /\ book' = [book EXCEPT ![r] = Blank(InitialSize)]
          /\ UNCHANGED <<i, alone>>
    /\ starts' = starts + 1
    /\ UNCHANGED <<file, saved, torn, commands>>

Loaded(r, slot) == Append(book[r], slot)

\* One turn of the loop.  A read() that fails or finds less than a contact ends the run.
Read(r) ==
    /\ pc[r] = "load"
    /\ LET n == Len(book[r]) + 1
       IN  \/ /\ n <= Len(file)
              /\ book' = [book EXCEPT ![r] = Loaded(r, file[n])]
              /\ Become(r, IF Len(book'[r]) >= i[r] THEN "menu" ELSE "load")
           \/ /\ n > Len(file) \/ "read" \in Failures
              /\ Become(r, "done") /\ UNCHANGED book
    /\ UNCHANGED <<file, i, saved, torn, alone, commands, starts>>

-----------------------------------------------------------------------------
(* The menu.                                                                 *)

Command(r) ==
    /\ pc[r] = "menu" /\ commands < MaxCommands
    /\ commands' = commands + 1
    /\ UNCHANGED <<file, i, saved, torn, alone, starts>>

Size(r) == Len(book[r])
FirstEmpty(r) == {k \in 1 .. Size(r) : book[r][k] = Empty /\ \A j \in 1 .. k - 1 : book[r][j] # Empty}

\* addMenu: into the first empty slot, or into an array twice as large; without memory for
\* it the run ends and saves nothing.
Add(r) ==
    /\ Command(r)
    /\ \E c \in Contacts :
          \/ /\ \E k \in FirstEmpty(r) : book' = [book EXCEPT ![r][k] = c]
             /\ UNCHANGED pc
          \/ /\ FirstEmpty(r) = {} /\ 2 * Size(r) <= MaxSize
             /\ book' = [book EXCEPT ![r] = Append(@, c) \o Blank(Size(r) - 1)]
             /\ UNCHANGED pc
          \/ /\ FirstEmpty(r) = {} /\ "memory" \in Failures
             /\ Become(r, "done") /\ UNCHANGED book

\* The test of an identifier lets Size(r) through, which is behind the last slot.  What is
\* there is memory of the library: the run goes on with its book, or it is aborted.
Stray(r) == UNCHANGED book /\ (UNCHANGED pc \/ Become(r, "done"))

\* editContact; an identifier counts from 0.
Edit(r) ==
    /\ Command(r)
    /\ \/ /\ \E k \in 1 .. Size(r), c \in Contacts :
                book[r][k] # Empty /\ book' = [book EXCEPT ![r][k] = c]
          /\ UNCHANGED pc
       \/ Stray(r)

\* Up to five contacts are given to deleteContact.
Delete(r) ==
    /\ Command(r)
    /\ \E ids \in {s \in SUBSET (0 .. Size(r)) : s # {} /\ Cardinality(s) <= 5} :
          LET left == [k \in 1 .. Size(r) |-> IF k - 1 \in ids THEN Empty ELSE book[r][k]]
          IN  /\ book' = [book EXCEPT ![r] = left]
              /\ UNCHANGED pc \/ (Size(r) \in ids /\ Become(r, "done"))

\* At the end of the input the loop that skips the rest of a line never ends.
EndOfInput(r) ==
    /\ "input" \in Failures /\ pc[r] = "menu" /\ Become(r, "stuck")
    /\ UNCHANGED <<file, book, i, saved, torn, alone, commands, starts>>

-----------------------------------------------------------------------------
(* savePhonebook                                                             *)

Writers == {r \in Runs : pc[r] = "save"}

\* open() with O_TRUNC; when it fails the run ends.
Exit(r) ==
    /\ pc[r] = "menu"
    /\ \/ /\ Become(r, "save") /\ i' = [i EXCEPT ![r] = 0]
          /\ file' = <<>> /\ torn' = TRUE
          /\ alone' = IF Writers = {} THEN {r} ELSE {}
       \/ /\ "open" \in Failures /\ Become(r, "done")
          /\ UNCHANGED <<file, i, torn, alone>>
    /\ UNCHANGED <<book, saved, commands, starts>>

AllWritten(r, n) == n >= Size(r)

\* Mutant: empty slots are not written.
WrittenPacked(s, n, slot) == IF slot = Empty THEN s ELSE Append(s, slot)

\* The file s with slot written after the first n; a gap reads as zeros.
Written(s, n, slot) ==
    [k \in 1 .. (IF Len(s) > n THEN Len(s) ELSE n + 1) |->
        IF k = n + 1 THEN slot ELSE IF k <= Len(s) THEN s[k] ELSE Empty]

\* One turn of the loop.  A write() that fails, or writes less than a contact, ends the run.
Write(r) ==
    /\ pc[r] = "save"
    /\ \/ LET n == i[r] + 1
          IN  /\ file' = Written(file, i[r], book[r][n])
              /\ i' = [i EXCEPT ![r] = n]
              /\ Become(r, IF AllWritten(r, n) THEN "done" ELSE "save")
              /\ torn' = ~(AllWritten(r, n) /\ r \in alone)
              /\ saved' = IF torn' THEN saved ELSE book[r]
       \/ /\ "write" \in Failures /\ Become(r, "done")
          /\ UNCHANGED <<file, i, torn, saved>>
    /\ UNCHANGED <<book, alone, commands, starts>>

Dies(r) ==
    /\ Killable /\ pc[r] \notin {"off", "done"} /\ Become(r, "done")
    /\ UNCHANGED <<file, book, i, saved, torn, alone, commands, starts>>

-----------------------------------------------------------------------------
Next ==
    \E r \in Runs :
        \/ Start(r) \/ Read(r) \/ Add(r) \/ Edit(r) \/ Delete(r)
        \/ EndOfInput(r) \/ Exit(r) \/ Write(r) \/ Dies(r)

Spec == Init /\ [][Next]_vars

-----------------------------------------------------------------------------
(* Properties.                                                               *)

Books == UNION {[1 .. n -> Slots] : n \in 0 .. MaxSize}

TypeOK ==
    /\ {file, saved} \subseteq Books /\ torn \in BOOLEAN /\ alone \subseteq Runs
    /\ pc \in [Runs -> {"off", "load", "menu", "save", "stuck", "done"}]
    /\ book \in [Runs -> Books] /\ i \in [Runs -> 0 .. MaxSize]
    /\ commands \in 0 .. MaxCommands /\ starts \in 0 .. MaxStarts

\* A run begins with the book of the run that saved last, contact by contact and each
\* under its old identifier, whatever runs were killed, failed or gave up in between; but
\* for a file that a save has left in part, and a save that fell into the loading.
LoadsWhole ==
    [][\A r \in alone : pc[r] = "load" /\ pc'[r] = "menu" => book'[r] = saved]_vars
=============================================================================
