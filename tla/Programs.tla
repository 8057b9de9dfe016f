------------------------------- MODULE Programs -------------------------------
(***************************************************************************)
(* Programs that have nothing to do with each other, side by side: a       *)
(* behaviour is one of the program "which", and the variables of the       *)
(* others stay as they are.                                                *)
(***************************************************************************)
EXTENDS Integers, Sequences, FiniteSets

CONSTANTS
    NULL, Free, NoContact,          \* no node or file, unused memory, an empty slot
    Node,                           \* the memory of the two lists
    Procs,                          \* the processes, terminals or addresses
    Text,                           \* messages, contacts, notes
    MaxPriority, MaxCount,          \* of CoolQueue
    Surname,                        \* of SortedPhonebook
    Killable,                       \* TRUE when processes may be killed
    Failures, InitialSize, MaxSize, MaxCommands, BookStarts,    \* of PhonebookFile
    Faults, MaxLines, MaxFlight, MaxCopies, EchoStarts,         \* of RawEcho
    MaxLength, MaxDeficit, MaxLoads                             \* of CharDevice

VARIABLES
    which,
    q_heap, q_head, q_pc, q_todo, q_call,
    s_heap, s_head, s_pc, s_call,
    b_file, b_pc, b_book, b_i, b_saved, b_torn, b_alone, b_commands, b_starts,
    e_server, e_clients, e_up, e_pc, e_spoken, e_reply, e_lapsed, e_lines, e_copies, e_starts,
    d_module, d_refs, d_already_open, d_len, d_temp, d_pc, d_file, d_count, d_seen, d_got,
    d_shared, d_raced, d_loads

CQ == INSTANCE CoolQueue WITH
    heap <- q_heap, head <- q_head, pc <- q_pc, todo <- q_todo, call <- q_call

SP == INSTANCE SortedPhonebook WITH
    Note <- Text,
    heap <- s_heap, head <- s_head, pc <- s_pc, call <- s_call

PF == INSTANCE PhonebookFile WITH
    Runs <- Procs, Contacts <- Text, Empty <- NoContact, MaxStarts <- BookStarts,
    file <- b_file, pc <- b_pc, book <- b_book, i <- b_i, saved <- b_saved, torn <- b_torn,
    alone <- b_alone, commands <- b_commands, starts <- b_starts

RE == INSTANCE RawEcho WITH
    Clients <- Procs, MaxStarts <- EchoStarts,
    server <- e_server, clients <- e_clients, up <- e_up, pc <- e_pc, spoken <- e_spoken,
    reply <- e_reply, lapsed <- e_lapsed, lines <- e_lines, copies <- e_copies,
    starts <- e_starts

CD == INSTANCE CharDevice WITH
    None <- NULL,
    module <- d_module, refs <- d_refs, already_open <- d_already_open, len <- d_len,
    temp <- d_temp, pc <- d_pc, file <- d_file, count <- d_count, seen <- d_seen,
    got <- d_got, shared <- d_shared, raced <- d_raced, loads <- d_loads

\* What is assumed of the constants.
ASSUME ProgramsAssumption ==
    /\ CQ!QueueAssumption /\ SP!PhonebookAssumption /\ PF!BookAssumption
    /\ RE!EchoAssumption /\ CD!DeviceAssumption

cqVars == <<q_heap, q_head, q_pc, q_todo, q_call>>
spVars == <<s_heap, s_head, s_pc, s_call>>
pfVars == <<b_file, b_pc, b_book, b_i, b_saved, b_torn, b_alone, b_commands, b_starts>>
reVars == <<e_server, e_clients, e_up, e_pc, e_spoken, e_reply, e_lapsed, e_lines, e_copies,
    e_starts>>
cdVars == <<d_module, d_refs, d_already_open, d_len, d_temp, d_pc, d_file, d_count, d_seen,
    d_got, d_shared, d_raced, d_loads>>
vars == <<which, cqVars, spVars, pfVars, reVars, cdVars>>

Init ==
    /\ which \in {"CQ", "SP", "PF", "RE", "CD"}
    /\ CQ!Init /\ SP!Init /\ PF!Init /\ RE!Init /\ CD!Init

Next ==
    /\ UNCHANGED which
    /\ \/ which = "CQ" /\ CQ!Next /\ UNCHANGED <<spVars, pfVars, reVars, cdVars>>
       \/ which = "SP" /\ SP!Next /\ UNCHANGED <<cqVars, pfVars, reVars, cdVars>>
       \/ which = "PF" /\ PF!Next /\ UNCHANGED <<cqVars, spVars, reVars, cdVars>>
       \/ which = "RE" /\ RE!Next /\ UNCHANGED <<cqVars, spVars, pfVars, cdVars>>
       \/ which = "CD" /\ CD!Next /\ UNCHANGED <<cqVars, spVars, pfVars, reVars>>

Spec == Init /\ [][Next]_vars

-----------------------------------------------------------------------------
\* The variables of the five programs keep their types.
TypeOK == CQ!TypeOK /\ SP!TypeOK /\ PF!TypeOK /\ RE!TypeOK /\ CD!TypeOK

\* Both doubly linked lists stay whole: no node is lost, no freed one is still linked.
ListIntact == CQ!ListIntact /\ SP!ListIntact

\* The list of messages is a first-in-first-out line for each priority menuPush accepts,
\* and the list of contacts a sequence of which each operation changes one, as asked for.
ListsImplement == CQ!ImplementsPriorityQueue /\ SP!ImplementsSurnameBook

\* The contacts stay in the order of their surnames until a surname is edited.
BookInOrder == SP!BookInOrder

\* The phone book that is loaded is the one that was saved.
LoadsWhole == PF!LoadsWhole

\* The echo server counts the lines of a client from one.
CountsFromOne == RE!CountsFromOne

\* The character device: its message is read once, and it keeps its module loaded.
ReadOnce == CD!ReadOnce
HeldWhileOpen == CD!HeldWhileOpen
=============================================================================
