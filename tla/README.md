# Formal models of the EltexCourse26 programs

The repository holds the exercises of a course: small C programs, most of them
exercises in interprocess communication. They have no tests. This project models
those whose behaviour is hard to test, in TLA+, checks the models with TLC, and
proves the safety properties of all but two of them (05 and lab3, of which only liveness
is asked) with TLAPS.

Paths such as `08/consumer.c:43` are below `src/Module3/`; other paths are below `src/`.

## 1. Inventory

### Programs modelled

**08, a file under a System V semaphore.** `producer` appends lines of random
numbers, marked `0:`, to a file; `consumer` reads the whole file, prints minimum
and maximum of every unmarked line, marks it with `1` and rewrites the file.
State: the file, the semaphore set that the file's name stands for, the flag
`stop` of each process. Interaction: the file, `semop()`, `^C`. Hard: no result of
`semop()` is looked at; the producer removes the set when it ends; every
producer sets the semaphore to 1; the consumer empties the file before it writes
it; at most `MAX_LINES` lines are read. Correct means: one process at a time uses
the file, a line is printed once, none is lost, `^C` ends a program.

**09, a file under a named POSIX semaphore.** One program forks into the same
producer (parent) and consumer (child). Runs on different terminals share
`data.txt` and the name `/example_sem`. Hard: the name is unlinked by every run
that ends; the semaphore of a dead process is taken over as it is; `sem_wait()` is
restarted after a signal; the parent has to stop its child and wait for it.

**10 and 11, a handshake over shared memory.** The parent writes 3 to 12
numbers, the child finds their minimum and maximum, the parent prints them; the
field `state` (0, 1, 2) says whose turn it is. 10 uses System V, 11 POSIX calls.
Hard: there is no lock, only the order of the accesses; `^C` comes at any moment
and to each process separately; runs on other terminals use the same segment.

**06, a chat over one System V message queue.** The server receives messages of
type 10 and sends each to all other clients, as messages whose type is the
client's identifier. Clients read their messages after each line, without waiting.
State: the queue, `clients[]` of the server, the program counters. Hard: both
directions share one bounded queue; programs die by `^C`, and the queue stays.

**12, a chat for two over UDP.** The server keeps a table of two addresses; a
client is a parent that sends lines and a child that prints what arrives. Hard:
datagrams may be lost, repeated and overtaken; clients end without a word; the table
moves its second entry to the first place.

**Module2/4/4.2, a priority queue.** A doubly linked list sorted by priority, and a
menu. Sequential; hard are the links over long mixtures of calls, the order among
equal priorities, and `malloc()` that fails.

**07, two clients over POSIX message queues.** `client1` unlinks the names of two
queues, makes both anew and speaks first; `client2` opens them and listens first.
State: what the names stand for, the queues, the place of each program. Hard: a
queue outlives its name; runs on other terminals use the same names, also between
the two `mq_open()` of one program; `^C` and `^D` come at any time. Correct means:
the two take turns, and "shutdown" of either ends both.

**Cross-task_1, an echo server over raw sockets.** The server keeps a list of
clients, told apart by address and port, with a counter each; "shutdown" takes a
client out. State: the list, the datagrams under way. Hard: the client types
"shutdown" with a newline, which is no goodbye for the server, and says goodbye
when it ends; the network; a client that comes back under its old port. Correct
means: lines are counted from one after each connection.

**03, a phone book in a file.** An array of contacts, loaded when the program starts
and written back, slot by slot, when its user leaves. Hard: the file is emptied
first; calls fail in the middle; two runs use one file without a lock. Correct means:
what was saved last is loaded, under the same identifiers.

**05, a counter of signals.** Handlers count `wait` down from 3, `main` looks at it
once in a turn. Hard: handlers interrupt `main` and each other. Correct means: the
program ends when it finds 0.

**Module2/4/4.1, a sorted phone book.** A doubly linked list into which contacts are put
in the order of surnames, and a menu with an editor, which does not mend the order.
Sequential; hard are the links, as in 4.2, and the order.

**Module5/lab4, a character device.** One message of a kernel module, read in pieces
and written by processes. State: `len`, `temp`, `already_open`, the usage count of the
module. Hard: read and write take no lock, only `open()` excludes; processes share an
open file; the module may be unloaded. Correct means: a message is read once
between two ends of file, and a module in use stays.

**Module5/lab3, keyboard lights.** A timer's callback that lights the keyboard and arms
the timer again; a value set through sysfs. Hard: the callback runs beside the writers
of the value and beside the unloading. Correct means: the lights blink with
the value that was set, until the module is unloaded.

### Programs not modelled

| Program | Why |
|---|---|
| 02, a small shell | keeps nothing from one line to the next, and runs one child at a time |
| Module2 2.1, 6.1, 6.2: array phone book | `phonebook.c` of 03 without its file; `PhonebookFile` has its commands |
| Module5 lab2: `/proc` buffer | read and write of lab4 without the exclusive `open()`, so that nothing is promised of two processes |
| Module5 lab3: `kbleds.c`, `sysfs.c` | first versions; the Makefile builds `kbleds_sysfs.c` |
| Module5 lab5: netlink echo | a published example, one message and one answer |
| 01 (one `fork()`), 14 (a sniffer), Module5 lab1 (hello), Module2 2.2, 2.3, 6.3 (calculators) | no state that outlives one input |
| `09/producer.c`, `09/consumer.c` | not built; the loops of `09/main.c` |
| Module1, Module4 | reports and configurations, no program |

`PROJECT.json` lists every component, every hazard with its line, and the
properties that cover it.

## 2. Modules

| Module | Models | Relation |
|---|---|---|
| `LineFile` | the lines of the file of 08 and 09, reading, marking, rewriting | used by the next two |
| `SemFile` | 08 | implements `AtomicFile` |
| `PosixSemFile` | 09 | implements `AtomicFile` while guarded |
| `AtomicFile` | what the semaphore is for: add a line, mark all lines | abstract |
| `ShmHandshake` | 10 and 11 | |
| `MsgQueueChat` | 06 | implements `ChatRoom` |
| `ChatRoom` | a room with a mailbox for each member | abstract |
| `UdpChat` | 12 | |
| `CoolQueue` | Module2/4/4.2 | implements `PriorityQueue` |
| `PriorityQueue` | one first-in-first-out line for each priority | abstract |
| `MqPingPong` | 07 | |
| `RawEcho` | Cross-task_1 | |
| `PhonebookFile` | 03 | |
| `SignalCounter` | 05 | |
| `SortedPhonebook` | Module2/4/4.1 | implements `SurnameBook` |
| `SurnameBook` | a sequence of contacts, each put in where its surname belongs | abstract |
| `CharDevice` | Module5/lab4 | |
| `KbLeds` | Module5/lab3, `kbleds_sysfs.c` | |
| `LineFileLemmas`, `SemFileProofs`, `PosixSemFileProofs`, `ShmHandshakeProofs`, `MsgQueueChatProofs`, `UdpChatProofs`, `MqPingPongProofs` | proofs, see section 4 | each extends the module named |
| `Programs` | 03, 4.1, 4.2, Cross-task_1 and lab4 side by side | instances of the modules, see section 3 |
| `ProgramsProofs` | proofs about these five | extends `Programs` |
| `MCProgress` | 10 and 11, 12, 05 and lab3 side by side | instances of the modules, see section 3 |
| `MCMessageQueues` | 07 and 06 side by side | extends `MqPingPong`, an instance of `MsgQueueChat`, see section 3 |
| other `MC...` | model values, symmetry, sets for the configurations | extend the module named |

**Granularity.** In `SemFile`, `PosixSemFile` and `MsgQueueChat` an action is one
system call that others can see, with the local work before the next. The reading
of the file (open, `fgets` loop, close) is one action, `fopen("w")` another and the
writing a third, because others could see the file between them. In
`ShmHandshake` an action is one access to shared memory, or two next to each other
where no other process can tell the difference. The Makefiles do not optimise, so
loads and stores are made in the order of the program, and x86 keeps the order of
stores. In `UdpChat` an action handles one datagram or one typed line. In
`CoolQueue` it is one call of a queue operation with what its caller does with the
result, in `SortedPhonebook` one turn of the menu or the editor. In `MqPingPong` an
action is one system call, in `RawEcho` one datagram or one line, in `PhonebookFile`
one command, one `read()` or one `write()`. The kernel is optimised: in `CharDevice`
and `KbLeds` an action is one access to a variable that others use, and where the
code names a variable twice the second value may be the first one. In
`SignalCounter` `wait -= 1` reads and writes, and other handlers may come in between.

**Data.** Numbers on a line, names, texts and formats are left out, or are members of
small sets. In `SemFile` and `PosixSemFile` a line is its number and its mark; lines
have one length, shorter than `MAX_LEN`. In `ShmHandshake` the numbers are kept,
because the printed result is about them. A message of 07 is its priority, a line of
Cross-task_1 its number, a contact of 03 a model value, a contact of 4.1 its surname
and all the rest, a message of lab4 its length.

**Signals.** The programs are built without `-std`, so `signal()` has BSD
semantics: `sem_wait()`, `wait()` and `recvfrom()` are restarted after a handler,
`semop()` never is. 06 and 12 install no handler, so `^C` kills.

**Correspondence.** Every definition that stands for code is in the `map` of
`PROJECT.json` with its lines. 10 and 11 have the same logic line by line; the map
names one of the two. Some things to know:

* `lapses` (`SemFile`, `PosixSemFile`) and `lapsed` (`UdpChat`) are history: they
  record the accidents after which a promise is off, each at the action where it
  happens, so that a property can say exactly what it does not cover.
* `shown`, `again`, `produced` (08, 09), `generated`, `printed`, `wrong`, `shared`
  (10, 11), `got` (06), `heard`, `told` (12), `call` (4.1, 4.2), `quit` (07), `reply`,
  `lapsed` (Cross-task_1), `saved`, `torn`, `alone` (03), `got`, `shared`, `raced` (lab4)
  and `stray` (lab3) are history too; no action reads them, except for the bounds, and
  except that a kernel module whose code still runs is not loaded again (`stray`).
* In `SemFile`, `handle[p] # cur` means that the set of a process was removed.
* In `ShmHandshake`, `PosixRuns` are the runs that remove the name (11); the others
  remove the segment by its identifier (10).
* In `MsgQueueChat` the loop of the server is the sequence `todo`: the whole table, from
  which each turn takes the first client and passes the sender over (`ServerSend`).
* `MsgQueueChat!ReadLine` takes the buffer as it is at the end of the input: the
  code does not look at the result of `fgets`.
* In `CoolQueue` and `SortedPhonebook` memory is a function from nodes to what they hold,
  or `Free`; `Chain` is what a walk from the head meets. `CoolQueue!Seek` and
  `SortedPhonebook!FirstNotBefore` are the nodes at which the loops of the code stop,
  `End` is where the loop that looks for the last node stops, and `Line(p)` are the texts
  from the first message of priority `p` in the list to the last.
* In `CoolQueue` an input that is not a number leaves `option` as it was, so the
  menu repeats a command: this is a step the menu could take anyway. `scanf` may
  leave `priority` unset, hence `Asked` goes beyond the range on both sides.
* In `PhonebookFile` the run writes `torn` when it empties the file and clears it
  when it has written the last slot and no other run wrote meanwhile (`alone`).
* `SortedPhonebook!editContact` goes to `"undefined"` for every number but 0: the code
  indexes a list. Nothing is followed from there. `PhonebookFile!Stray` is the slot
  behind the array: the run is aborted, or its book stays.
* In `CharDevice` the device is found (`Enter`) before `device_open` counts the module
  as used (`Count`): `chardev_fops` has no owner, so the kernel does not count for it.

## 3. Runs

Passing runs; the sizes are distinct states.

| Run | Shows | Size |
|---|---|---|
| `sem_safety` | 08: `MutexWhileGuarded`, `ShownOnce`, `AtomicWhileGuarded` with a producer and two consumers, three starts (a process may be started again), three lines with `MaxLines` 2, crashes, signals, failing opens | 780 000 |
| `sem_live` | 08: `EveryLineShown` and `StopEnds`, with signals and failing opens | 98 000 |
| `posix` | 09: `MutexWhileGuarded`, `ShownOnce`, `NoOrphan`, `AtomicWhileGuarded`, `StopEnds`; two starts, of two runs or of one that was killed, two lines with `MaxLines` 1 | 145 000 |
| `shm_safety` | 10 and 11: `PrintedRight`, `NoRace`, `CountedOnce`, without `shared` | 1 600 000 |
| `chat_safety` | 06: `InBounds`, `InOrder`, refinement of `ChatRoom`; two terminals, equal identifiers allowed, everybody may die | 1 400 000 |
| `udp_safety` | 12: `ToldState`, `NoGhost`; three clients on a network that loses, repeats and reorders | 1 000 000 |
| `message_queues` | 07: `InTurn` and `BothEnd` with two runs of `client1`, deaths, failing calls, names unlinked and made anew; 06: `Heard` with room in the queue, and a client that leaves and comes back | 113 000 |
| `progress` | what must happen: 10 and 11 `StopEnds`, `AnswerPrinted`, with shared segments; 12 `ShutdownLeaves`, `LeaveNoticed` on a network in order; 05 `Ends`; lab3 `Blinks` | 87 000 |
| `programs` | `ListsImplement`: 4.2 implements `PriorityQueue` and 4.1 `SurnameBook`, both with `ListIntact` on four nodes of memory, and 4.1 with `BookInOrder`, the order of surnames up to the first edit of one; 03 `LoadsWhole`, two runs, every call failing; Cross-task_1 `CountsFromOne` on a network with faults; lab4 `ReadOnce`, `HeldWhileOpen` | 420 000 |

`MCProgress`, `MCMessageQueues` and `Programs` put programs that have nothing to do with each other
side by side: a variable `which` chooses the program at the beginning, and all the
others stay as they are. Their properties are those of the instances. Nothing is
gained or lost by that but a number of separate runs: every state belongs to one
program, and the fairness of the others asks for nothing, as none of their
actions is enabled.

Each property of a passing run has a mutant: a change of one definition, as a
plausible mistake in the code would be, under which TLC finds the property violated.
The types of 06 and 07 and `TwoPlaces` of 12 are proved (section 4), and no run checks
them.

Runs that find the code at odds with what the repository says of it (the
quotations are under `findings` in `PROJECT.json`):

| Run | Finding |
|---|---|
| `shm_orphan` | 10: a run is started after the parent of another was killed, whose child goes on polling the segment; both children answer the same set, the later one after the parent has set `state` to 0, and that parent waits for ever (`CycleRepeats` speaks of one parent at a time, so that no second one interferes) |
| `chat_full` | 06: server and client wait for each other on a full queue |
| `leds_unload` | lab3: a callback that runs while the timer is deleted lights the keyboard or arms the timer again after the module is unloaded |

Further disagreements are in the models, where the properties exclude them by name,
and have no run of their own:

* 08: a `semop()` that fails lets the process in: after `^C` in its sleep
  (`Interrupt`, lapse `EINTR`), or when the producer has removed the set (`PRmid`,
  lapse `RMID`). `08/README.md:5` says the file is used after the semaphore was found
  free. `Guarded` excludes both.
* 08 and 09: a pass over more than `MAX_LINES` lines loses the rest (lapse `CUT`),
  though `08/README.md:8` says that all the data is read.
* 09: a run that ends unlinks the name under the others (lapse `UNLINK`), though
  `09/README.md:4` speaks of one semaphore for all.
* 06: the test of the identifier (`Allowed`) lets 0 and negative numbers through,
  which `msgrcv()` takes for "any message"; `06/README.md:9` allows 20, 30, 40...
  `#connect` of a client still in the table is sent on (`Relayed`), against the
  comment at `06/main.c:42`; `ChatRoom!Relay` allows just this. A client that comes back
  before the server has read the "shutdown" of its last run is struck off while it runs,
  and hears nothing until its next line, though `06/README.md:4` says that messages go to
  the other connected users; `Heard` leaves this out (`LeavesBefore`).
* 12: `shutdown` of a client not in the table registers it (`Talk`, `lapsed`); the
  README of 12 names this itself.
* 07: at the end of its input a client leaves without "shutdown" (`EndOfInput`), and
  the other waits for ever; `BothEnd` speaks of "shutdown", as `07/README.md:11` does.
  A second `client1` may make one of the queues anew between the two `mq_open()` of
  another program, which then listens where nobody speaks (`Paired` excludes it).
* 05: a signal that comes between the count of 0 and the test of it keeps the program
  from ending for ever (`Ends` says `wait < 0`).
* 03: the test of an identifier lets the size of the array through (`Stray`), though
  the program itself names the range `[0 - size-1]` (`03/phonebook.c:53`). A save that
  is cut short leaves a part of the book, which is loaded without a word (`torn`).
* 4.1: `phonebook[id]` takes the list for an array (`editContact`), and an edited surname
  stays where it is (`EditField`, `SurnameBook!EditFirst`), though
  `Module2/4/4.1/README.md:3` promises an order by surnames. So `ListsImplement` says
  nothing of the order, and `BookInOrder` says that it is kept by all steps but these.
* 03, 4.1, 4.2: at the end of the input `while (getchar() != '\n')` never ends (the state
  `"stuck"` of the three models).
* lab3: when `sysfs_create_file()` fails, the error takes the module out with its timer
  armed (`kbleds_init`). `Blinks` speaks of a loaded module.
* 4.2: priority 256 is accepted (`Entered`), against `Module2/4/4.2/README.md:3`; the
  queue that `ListsImplement` speaks of has a line for it as for the others.

**Bounds.** Bounds are CONSTANTS (`MaxStarts`, `MaxLine`, `MaxSets`, `MaxSent`,
`MaxFlight`, `MaxCopies`, `MaxCount`, ...) that appear only in guards of steps that
begin something new. They are large enough for what can go wrong here: a third
process besides the two that conflict, a start into what an earlier run left, a
file longer than `MaxLines`, a second set after the first, a queue that is full, a
third client for a table of two, a list with a first, a middle and a last node and
one more, a second `client1` for the names of 07, a client of 06 that comes back while
another speaks (four starts and five messages, the last of them the line to be heard), an array that is doubled and
loaded by another run, a client that comes back twice, a module loaded again.
`MaxDeficit` (lab4) cuts `temp` off below 0, where only a shared file leads. What
section 4 lists is proved for every value of these bounds. Symmetry is
used only in runs without liveness, over terminals, clients and nodes that no
definition tells apart. `shm_safety` has the constraint `~shared`: its properties say
nothing of the states beyond, and `progress` and `shm_orphan` go there. In
`udp_safety` one line is typed besides the first datagram of each client, which the
server takes for a line too, and a socket of a client holds one answer: what comes
before it is read is dropped. The server is started once there, before or after any
client: one that is started again has an empty table too, and clients that began
before it. In `progress` two lines are typed. Deadlock is not
checked: the programs end, and the bounds stop them.

**Fairness.** Weak fairness of each process that runs, for the scheduler; nothing
makes anybody start, type, or send a signal. Strong fairness of `Lock` in
`SemFile` and `PosixSemFile`: the kernel queues the processes that wait for a
semaphore, so a process cannot be overtaken for ever. `AttentiveSpec` of
`MsgQueueChat` adds a user who presses enter again and again, which `Heard` needs
since a client reads its messages only then. In `progress` the network of 12
has no faults; UDP promises none of it, so `udp_safety` does not. In 07 each process
goes on when it can, and nobody needs to type; in 05 the handlers and `main` go on,
and `fopen()` does not fail for ever; in lab3 the timer expires, the callback
goes on, and an unloading that has begun is carried out.

## 4. Proofs

All theorems are about every behaviour of the specification, for every value of the
constants that the assumption named below allows: any sets of processes, runs, clients
or terminals, each of which may be signalled, killed, or started again; any number of
lines, numbers, messages or datagrams.

| Module | Theorems | Assumption |
|---|---|---|
| `SemFileProofs` | `TypeCorrect`, `MutualExclusionHolds`, `AtomicWhileGuardedHolds`, `ShownOnceHolds` | `SemAssumption`, `MaxLinesAssumption` |
| `PosixSemFileProofs` | `TypeCorrect`, `MutexWhileGuardedHolds`, `AtomicWhileGuardedHolds`, `ShownOnceHolds`, `NoOrphanHolds` | `PosixAssumption`, `MaxLinesAssumption` |
| `ShmHandshakeProofs` | `InvariantHolds`, `TypeCorrect`, `PrintedRightHolds`, `NoRaceHolds`, `CountedOnceHolds` | `ShmAssumption` |
| `MsgQueueChatProofs` | `TypeCorrect`, `InBoundsHolds`, `InOrderHolds`, `ImplementsChatRoomHolds` | `ChatAssumption`; the last two `PositiveIds` |
| `UdpChatProofs` | `TypeCorrect`, `TwoPlacesHolds`, `ToldStateHolds`, `NoGhostHolds` | `UdpAssumption` |
| `MqPingPongProofs` | `TypeCorrect`, `InTurnHolds` | `PingPongAssumption` |
| `ProgramsProofs` | `TypesHold`, `QueueInvHolds`, `QueueImplements`, `ContactsInvHolds`, `ContactsImplement`, `ListIntactHolds`, `ListsImplementHolds` (4.1, 4.2), `BookInOrderHolds` (4.1), `LoadsWholeHolds` (03), `CountsFromOneHolds` (Cross-task_1), `HeldWhileOpenHolds`, `ReadOnceHolds` (lab4) | `ProgramsAssumption` |

The assumptions give the constants their types. Some ask for more: `ChatAssumption` for
finitely many arguments a user may type, and `DeviceAssumption` for finitely many
processes, because a table and a usage count are compared with the number of those that
may be counted; `PhonebookAssumption` (4.1) for a finite memory, because a number that is
asked for is at most the number of contacts, and, as `QueueAssumption` (4.2), for a mark
`Free` that no node in use looks like; `BookAssumption` (03) for an array that is no
larger than `MaxSize` when it is made. `PositiveIds` says that no user gives 0 or a
negative number, which the test of the argument lets through (section 3) and for which
`msgrcv()` hands a client the messages of others: without it `InOrder` is false.
`ProgramsAssumption` is the conjunction of the assumptions of the five programs. Its
theorems are of `Programs`, where `which` chooses one of them: `EachStep` says that a step
is one of this program and leaves the others alone, so each proof is that of its module.

None of the properties is inductive. What the invariants add, and why:

**08** (`SemFileProofs`). `Roles` (which calls each program has), `Exclusion` (every
running process uses the set that exists, the holder's unit is missing from it, and a
set not yet initialised keeps everybody out), `Snapshot` (between its calls a consumer's
`lines[]` is the file, and then the file is empty), and `MarksKept` (outside a pass, a
line that was printed is marked). `Exclusion` is what makes `Snapshot` inductive, as only
the holder changes the file; `Snapshot` gives the refinement of `AtomicFile` step by
step: the pass takes effect when the writing is done. `LineFileLemmas` says what
`ReadAll`, `Marked`, `Unmarked` and `Overwrite` return.

**09** (`PosixSemFileProofs`). `Holder`: every semaphore there ever was has one holder at
most and is 0 while it has one. This holds whatever becomes of the name, as a semaphore
is set once, when it is made. `Named` adds that all use the semaphore of the name until
someone takes the name away, which is all that `MutexWhileGuarded` needs the guard for.
`Childless` (no child before `fork()` and after `wait()`) carries `NoOrphan`; `Snapshot`
and `MarksKept` are as for 08.

**10 and 11** (`ShmHandshakeProofs`). While no run shares its segment: one run is at work
(`OneRun`); the places of its processes fix `state` (`Handover`); `processed` counts its
results (`Counted`); the memory holds the numbers that were listed, as far as the loop
has come (`Listed`); and `best` is the minimum and maximum of the numbers searched so
far (`Searched`), until it is what `min` and `max` hold.

**06** (`MsgQueueChatProofs`). `Table`: no client is twice in the table, nor in what the
loop still has to look at; so the table is an injection into the users, which bounds its
length. For the order: `Numbered` (the messages in the queue for one receiver are in the
order of their numbers; those for the server come after the one it is sending on, and
the others not after it) and `Received` (what a client has got comes before all that is
on its way to it). For `ChatRoom`, a mailbox is what the queue holds for a user, and the
message the loop has still to give it. `MailAppend` and `MailRemove` say what happens to
the messages for one receiver when the queue grows at its end or loses the first of
them; they rest on the lemmas about the numbers of a finite set in ascending order
(`ListExists`, `AscendingIs`), which take the place of an induction over the queue. With
them each step is one of the room: a message of a client is posted, receiving one puts it
into all mailboxes at once, a turn of the loop changes nothing, a client reads, and the
death or start of a server forgets the members.

**12** (`UdpChatProofs`). `NoGhost` (who is in the table and gone has its "shutdown" on
its way) needs the life of every client that no accident has cut off (`Course`): it has
sent nothing before it connects; while it reads lines it is in the table or about to be;
and its "shutdown" is its last datagram and finds it in the table. `TwoPlaces` and
`ToldState` are inductive together with `OffEmpty`, that a server that does not run has
no table.

**07** (`MqPingPongProofs`). `Linked`: two have each other's queues, or one has both and
the other none yet, and nobody else has one of them. `OneTurn`: then there is one turn
between them, at the keyboard of one or as a message under way. That needs `Kinds` (no
queue is the first for one and the second for another), `Opening` (what a process has by
where it is) and `Senders` (every message has a sender that lives or lived there, and a
`client2` speaks only where a `client1` has spoken), since a queue may be full of messages
before the second of two comes.

**lab4** (`ProgramsProofs`). `OneFile` (one open file, which only `fork()` spreads),
`UsageCount` (the usage count is one for the open file and one for every
`device_release()` under way, or less after `try_module_get()` failed) and `ReadSteps`
(what a read or write of a process that is alone finds between its accesses).

**4.2 and 4.1** (`ProgramsProofs`). `Whole` is what makes a list one: there is a sequence
of different nodes, which are all the nodes in use, begins at the head, and along which
`next` and `prev` lead forward and back. `WholeWith` and `WholeWithout` say, once for both
programs, that the four assignments of an insertion and of a deletion make a whole list
of a whole one, with a node more or less at the place; `ChainWalk`, that a walk along
a whole list meets its nodes in their order and ends. `QueueInv` says that the list is
whole and in the order of priorities, `ContactsInv` that it is whole and the editor has a
contact; there is a way back until `freePhonebook` gives the memory back node by node.
From them: push finds the place behind all messages at least as urgent as its own
(`QueuePlace`), so that the line of its priority grows at its end and the others stay
(`LinesPushed`), and each way of extraction takes the first of a line (`LinesTaken`); a
contact is put in front of the first that does not come before it (`ContactsSeek`,
`ContactsAdded`), and a number stands for the place that the walk stops at
(`ContactsWalk`, `ContactsDropped`). That is the refinement of `PriorityQueue` and of
`SurnameBook`, step by step, and `ListIntact`. `BookInOrderHolds` follows from that
refinement: `OrderedInsert` and `OrderedRemove` say that putting a contact in at its place
and taking one out keep an order there is. Nothing is proved by induction over the
length of a list: where one is due, the least place at which something is wrong is looked
at (`Least`).

**03** (`ProgramsProofs`). `BookInv`: what was saved last is in the file unless it is
torn, which it is while somebody writes it (`Torn`); a run that nobody has disturbed has
read as much of the file as it has in its array, or has written as much of its array as
is in the file (`Undisturbed`); and a book has room for a slot more while it is loaded
(`BookSizes`).

**Cross-task_1** (`ProgramsProofs`). `EchoInv`: nobody is twice in the list of clients
(`OneEntry`), a server that does not run has none (`OffNoEntry`), and, for each client
that nothing has cut off, `EchoCourse`: each of its datagrams on the way carries the
number after the one that the counter has when it comes, "shutdown" sets the counter back,
and behind the last of them the counter stands at what the client has said.

**Only model-checked.**

* Liveness, and everything about fairness or `ENABLED`: the prover has no rules for it.
  These are `StopEnds`, `EveryLineShown`, `AnswerPrinted`, `Heard`, `ShutdownLeaves`,
  `LeaveNoticed`, `BothEnd`, `Ends`, `Blinks`.
* The types of what `MCProgress` puts side by side. Those of 10 and 11, and 12 are
  proved of the modules; those of 05 and lab3 are checked only. The types of 07 are
  proved only.
* The three runs of the table of findings: a disagreement is a behaviour, which TLC shows.

## 5. Plan

Done: 1. `LineFile`, `AtomicFile`, `SemFile`; 2. `PosixSemFile`; 3. `ShmHandshake`;
4. `ChatRoom`, `MsgQueueChat`; 5. `UdpChat`; 6. `PriorityQueue`, `CoolQueue`;
7. `MqPingPong`; 8. `RawEcho`; 9. `PhonebookFile`; 10. `SurnameBook`, `SortedPhonebook`;
11. `SignalCounter`; 12. `CharDevice`, `KbLeds`. Proofs: 08, 09, 10 and 11, 06, 12, 07,
lab4, 03, Cross-task_1, 4.2, 4.1. The programs that are left have no state worth a model
(section 1).

Next: properties to be stated first, such as the order in which `UdpChat` tells its clients
what happens.
