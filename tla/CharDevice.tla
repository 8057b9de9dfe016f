----------------------------- MODULE CharDevice ------------------------------
(***************************************************************************)
(* Module5/lab4: a character device that keeps one message, in a module    *)
(* that can be unloaded.  open() lets in one file at a time, but processes *)
(* may share that file (fork), and read and write take no lock: they are   *)
(* steps here.  chardev_fops names no owner, so nothing but device_open    *)
(* itself keeps the module from going.  Only the lengths of messages are   *)
(* kept; what is written fits the buffer.  Of a module that was unloaded   *)
(* under an open file nothing more is said.                                *)
(***************************************************************************)
EXTENDS Integers, FiniteSets

CONSTANTS
    Procs,          \* the processes
    None,           \* no file
    MaxLength,      \* BUF_LEN, 80 in the code
    MaxDeficit,     \* bound: how far below 0 "temp" is followed
    MaxLoads        \* bound: how often the module is loaded

\* What is assumed of the constants.
DeviceAssumption ==
    /\ MaxLength \in Nat \ {0} /\ {MaxDeficit, MaxLoads} \subseteq Nat
    /\ None \notin Procs /\ IsFiniteSet(Procs)

VARIABLES
    module,         \* "out", "live", or "going" when it is being unloaded
    refs,           \* the usage count of the module
    already_open,   \* whether the device is open
    len, temp,      \* the length of the message and what is left of it to be read
    pc,             \* where each process is
    file,           \* the open file a process has, named after the process that opened it
    count,          \* "count" of the read or write under way
    seen,           \* what a read saw in temp
    got,            \* history: how much was read since the last write or end of file
    shared,         \* history: whether an open file was shared by two processes
    raced,          \* history: whether an open() overlapped the unloading
    loads           \* how often the module was loaded

vars == <<module, refs, already_open, len, temp, pc, file, count, seen, got, shared, raced, loads>>
buffer == <<len, temp, count, seen, got>>

Outside == {"out", "entered"}
Sharers(p) == {q \in Procs : file[q] = file[p]}

Init ==
    /\ module = "out" /\ refs = 0 /\ already_open = FALSE /\ len = 0 /\ temp = 0
    /\ pc = [p \in Procs |-> "out"] /\ file = [p \in Procs |-> None]
    /\ count = [p \in Procs |-> 0] /\ seen = [p \in Procs |-> 0]
    /\ got = 0 /\ shared = FALSE /\ raced = FALSE /\ loads = 0

-----------------------------------------------------------------------------
(* The module.                                                               *)

\* A module is loaded with its variables as they were compiled.
chardev_init ==
    /\ module = "out" /\ loads < MaxLoads
    /\ \A p \in Procs : pc[p] = "out"
    /\ module' = "live" /\ refs' = 0 /\ already_open' = FALSE
    /\ len' = 0 /\ temp' = 0 /\ got' = 0 /\ raced' = FALSE /\ loads' = loads + 1
    /\ UNCHANGED <<pc, file, count, seen, shared>>

\* rmmod of a module that nobody uses: from here on try_module_get() fails.
Unload ==
    /\ module = "live" /\ refs = 0
    /\ module' = "going"
    /\ raced' = (raced \/ \E p \in Procs : pc[p] \in {"entered", "taken"})
    /\ UNCHANGED <<refs, already_open, buffer, pc, file, shared, loads>>

\* The device is taken out of the tables, and the memory of the module is given back.
chardev_exit ==
    /\ module = "going" /\ module' = "out"
    /\ UNCHANGED <<refs, already_open, buffer, pc, file, shared, raced, loads>>

-----------------------------------------------------------------------------
(* open() and close().                                                       *)

\* open() has found the device and is about to call device_open().
Enter(p) ==
    /\ pc[p] = "out" /\ module # "out"
    /\ pc' = [pc EXCEPT ![p] = "entered"]
    /\ raced' = (raced \/ module = "going")
    /\ UNCHANGED <<module, refs, already_open, buffer, file, shared, loads>>

\* Mutant: the flag is tested and set, each by an atomic operation of its own.
TestThenSet(p) ==
    /\ module # "out"
    /\ \/ /\ pc[p] = "entered"
          /\ pc' = [pc EXCEPT ![p] = IF already_open THEN "out" ELSE "tested"]
          /\ UNCHANGED <<already_open, file>>
       \/ /\ pc[p] = "tested" /\ pc' = [pc EXCEPT ![p] = "taken"]
          /\ already_open' = TRUE /\ file' = [file EXCEPT ![p] = p]
    /\ UNCHANGED <<module, refs, buffer, shared, raced, loads>>

\* device_open(): atomic_cmpxchg(), and -EBUSY.
Take(p) ==
    /\ pc[p] = "entered" /\ module # "out"
    /\ already_open' = TRUE
    /\ pc' = [pc EXCEPT ![p] = IF already_open THEN "out" ELSE "taken"]
    /\ file' = [file EXCEPT ![p] = IF already_open THEN None ELSE p]
    /\ UNCHANGED <<module, refs, buffer, shared, raced, loads>>

\* Mutant: the module is not counted as used.
Uncounted(p) ==
    /\ pc[p] = "taken" /\ module # "out"
    /\ pc' = [pc EXCEPT ![p] = "open"]
    /\ UNCHANGED <<module, refs, already_open, buffer, file, shared, raced, loads>>

\* device_open(): try_module_get(), whose result is not looked at.
Count(p) ==
    /\ pc[p] = "taken" /\ module # "out"
    /\ refs' = IF module = "live" THEN refs + 1 ELSE refs
    /\ pc' = [pc EXCEPT ![p] = "open"]
    /\ UNCHANGED <<module, already_open, buffer, file, shared, raced, loads>>

\* fork() or dup(): another process has the same open file.
Share(p, q) ==
    /\ pc[p] = "open" /\ pc[q] = "out"
    /\ pc' = [pc EXCEPT ![q] = "open"] /\ file' = [file EXCEPT ![q] = file[p]]
    /\ shared' = TRUE
    /\ UNCHANGED <<module, refs, already_open, buffer, raced, loads>>

\* close() or the end of a process: device_release() for the last one that has the file.
Close(p) ==
    /\ pc[p] = "open" /\ module # "out"
    /\ file' = [file EXCEPT ![p] = None]
    /\ IF Sharers(p) = {p}
       THEN pc' = [pc EXCEPT ![p] = "closing"] /\ already_open' = FALSE
       ELSE pc' = [pc EXCEPT ![p] = "out"] /\ UNCHANGED already_open
    /\ UNCHANGED <<module, refs, buffer, shared, raced, loads>>

\* device_release(): module_put().
Put(p) ==
    /\ pc[p] = "closing" /\ module # "out"
    /\ refs' = IF refs > 0 THEN refs - 1 ELSE refs
    /\ pc' = [pc EXCEPT ![p] = "out"]
    /\ UNCHANGED <<module, already_open, buffer, file, shared, raced, loads>>

-----------------------------------------------------------------------------
(* read() and write().                                                       *)

Moves(p, from, to) ==
    /\ pc[p] = from /\ module # "out"
    /\ pc' = [pc EXCEPT ![p] = to]
    /\ UNCHANGED <<module, refs, already_open, file, shared, raced, loads>>

\* The local variables of a call end with it.
Forget(p) == count' = [count EXCEPT ![p] = 0] /\ seen' = [seen EXCEPT ![p] = 0]

\* device_read(): count is size_t, so temp below 0 is compared as a large number.
Compare(p) ==
    /\ Moves(p, "open", "compared")
    /\ \E c \in 0 .. MaxLength :
          count' = [count EXCEPT ![p] = IF temp >= 0 /\ c > temp THEN temp ELSE c]
    /\ seen' = [seen EXCEPT ![p] = temp]
    /\ UNCHANGED <<len, temp, got>>

\* temp = temp - count: the compiler may use the value it compared or read it again.
Subtract(p) ==
    /\ Moves(p, "compared", "subtracted")
    /\ \E t \in {temp, seen[p]} : t - count[p] >= - MaxDeficit /\ temp' = t - count[p]
    /\ got' = got + count[p]
    /\ UNCHANGED <<len, count, seen>>

\* copy_to_user(), and the end of the file, after which the message can be read again.
Deliver(p) ==
    /\ Moves(p, "subtracted", "open")
    /\ IF count[p] = 0 THEN temp' = len /\ got' = 0 ELSE UNCHANGED <<temp, got>>
    /\ Forget(p)
    /\ UNCHANGED len

\* device_write(): copy_from_user() and the length.
SetLength(p) ==
    /\ Moves(p, "open", "written")
    /\ \E c \in 0 .. MaxLength : count' = [count EXCEPT ![p] = c] /\ len' = c
    /\ UNCHANGED <<temp, seen, got>>

\* temp = len: the length it has set itself or the one that is there now.
SetTemp(p) ==
    /\ Moves(p, "written", "open")
    /\ temp' \in {count[p], len} /\ got' = 0
    /\ Forget(p)
    /\ UNCHANGED len

-----------------------------------------------------------------------------
Next ==
    \/ chardev_init \/ Unload \/ chardev_exit
    \/ \E p \in Procs :
          \/ Enter(p) \/ Take(p) \/ Count(p) \/ Close(p) \/ Put(p)
          \/ Compare(p) \/ Subtract(p) \/ Deliver(p) \/ SetLength(p) \/ SetTemp(p)
          \/ \E q \in Procs : Share(p, q)

Spec == Init /\ [][Next]_vars

-----------------------------------------------------------------------------
(* Properties.                                                               *)

TypeOK ==
    /\ module \in {"out", "live", "going"} /\ refs \in 0 .. Cardinality(Procs)
    /\ already_open \in BOOLEAN /\ len \in 0 .. MaxLength /\ temp \in -MaxDeficit .. MaxLength
    /\ pc \in [Procs -> {"out", "entered", "taken", "open", "closing",
                         "compared", "subtracted", "written"}]
    /\ file \in [Procs -> Procs \cup {None}]
    /\ count \in [Procs -> 0 .. MaxLength] /\ seen \in [Procs -> -MaxDeficit .. MaxLength]
    /\ got \in Nat /\ {shared, raced} \subseteq BOOLEAN /\ loads \in 0 .. MaxLoads

\* A message is read once between two ends of file: what was read of it and what is left
\* make up its length.  Reading and writing take no lock; that open() lets in one file at a
\* time is what keeps their steps apart, unless processes share that file.
ReadOnce ==
    \/ shared \/ \E p \in Procs : pc[p] = "written"
    \/ temp >= 0 /\ temp + got = len

\* The module is not unloaded while a file is open, and nothing keeps it when none is:
\* "decrement the usage count, or else [...] you will never get rid of the module"
\* (chardev.c:89).  device_open counts after the device is found, so an open() that
\* overlaps rmmod is not covered.
HeldWhileOpen ==
    raced \/ /\ (\E p \in Procs : pc[p] \notin Outside) => module = "live"
             /\ (\A p \in Procs : pc[p] \in Outside) => refs = 0
=============================================================================
