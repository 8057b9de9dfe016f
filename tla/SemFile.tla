------------------------------- MODULE SemFile -------------------------------
(***************************************************************************)
(* Module3/08: producers append lines to a file and consumers analyse and  *)
(* rewrite it, under one System V semaphore whose key is made from the     *)
(* file's name.  One action is one system call that other processes can    *)
(* see; the semaphore, the signals and the file are the kernel's.          *)
(*                                                                         *)
(* No result of semop() is looked at in either program, so every call that *)
(* fails lets the process into its critical section: lapses records the    *)
(* events after which one of the promises of the semaphore is off.         *)
(***************************************************************************)
EXTENDS LineFile, FiniteSets

CONSTANTS
    Producers, Consumers,
    Signalled,      \* the processes that may receive SIGINT
    Killable,       \* the processes that may die at any point (SIGKILL)
    OpenFails,      \* the processes whose fopen() may fail
    MaxStarts,      \* bound: how many programs are started
    MaxLine         \* bound: how many lines are produced

Procs == Producers \cup Consumers

ASSUME SemAssumption ==
    /\ Producers \cap Consumers = {}
    /\ Signalled \subseteq Procs /\ Killable \subseteq Procs
    /\ OpenFails \subseteq Procs
    /\ MaxStarts \in Nat /\ MaxLine \in Nat

VARIABLES
    cur,        \* the identifier of the set the key names, 0 when there is none
    val,        \* the value of its semaphore
    made,       \* how many sets were created: identifiers are never reused
    handle,     \* the identifier each process got from semget(), 0 before
    pc,         \* the system call each process is at
    stop,       \* the flag the SIGINT handler sets
    buf,        \* the lines[] array of each consumer
    file,       \* the file on disk
    produced,   \* how many lines were appended
    shown,      \* the lines a consumer has printed ...
    again,      \* ... and those printed more than once
    starts,     \* how many programs were started
    lapses      \* what has gone past the semaphore so far

sem  == <<cur, val, made>>
seen == <<shown, again>>
vars == <<cur, val, made, handle, pc, stop, buf, file, produced, shown, again,
          starts, lapses>>

PCs == {"off", "setval", "loop", "lock", "append", "read", "trunc", "write",
        "unlock", "unlockBreak", "rmid", "done"}

\* EINTR: a sleeper in semop() was interrupted.  RMID: the set was removed under
\* running processes.  SETVAL: an existing set was initialised again.  KILL: a process
\* died in its critical section.  CUT: a pass read less than the file.  NOSAVE: a
\* pass could not open the file to save the marks.
Lapse == {"EINTR", "RMID", "SETVAL", "KILL", "CUT", "NOSAVE"}

\* Between the return of the locking semop() and the unlocking one.
InCS(p) == pc[p] \in {"append", "read", "trunc", "write", "unlock", "unlockBreak"}
Running(p) == pc[p] \notin {"off", "done"}

Init ==
    /\ cur = 0 /\ val = 0 /\ made = 0
    /\ handle = [p \in Procs |-> 0]
    /\ pc = [p \in Procs |-> "off"]
    /\ stop = [p \in Procs |-> FALSE]
    /\ buf = [c \in Consumers |-> <<>>]
    /\ file = <<>> /\ produced = 0
    /\ shown = {} /\ again = {}
    /\ starts = 0
    /\ lapses = {}

-----------------------------------------------------------------------------
(* The kernel's semaphore.                                                   *)

Goto(p, l) == pc' = [pc EXCEPT ![p] = l]

\* semop() fails at once when the set of the identifier was removed.
Gone(p) == handle[p] # cur
Blocked(p) == handle[p] = cur /\ val = 0

Entry(p) == IF p \in Producers THEN "append" ELSE "read"

\* semop(semid, &lock, 1) returns: with the semaphore, or with an error nobody reads.
Lock(p) ==
    /\ pc[p] = "lock"
    /\ Goto(p, Entry(p))
    /\ \/ ~Gone(p) /\ val > 0 /\ val' = val - 1
       \/ Gone(p) /\ UNCHANGED val
    /\ UNCHANGED <<cur, made, handle, stop, buf, file, produced, seen, starts, lapses>>

\* semop(semid, &unlock, 1): the sembuf has no flags and no SEM_UNDO.
Unlock(p) ==
    /\ pc[p] \in {"unlock", "unlockBreak"}
    /\ Goto(p, IF pc[p] = "unlock" THEN "loop" ELSE "rmid")
    /\ val' = IF Gone(p) THEN val ELSE val + 1
    /\ UNCHANGED <<cur, made, handle, stop, buf, file, produced, seen, starts, lapses>>

-----------------------------------------------------------------------------
(* producer.c                                                                *)

\* fopen("a") creates the file, semget(IPC_CREAT) the set unless the key has one.
PStart(p) ==
    /\ pc[p] \in {"off", "done"} /\ starts < MaxStarts
    /\ starts' = starts + 1
    /\ IF cur = 0
       THEN /\ made' = made + 1 /\ cur' = made + 1 /\ val' = 0
            /\ UNCHANGED lapses
       ELSE /\ lapses' = lapses \cup {"SETVAL"}
            /\ UNCHANGED cur /\ UNCHANGED val /\ UNCHANGED made
    /\ handle' = [handle EXCEPT ![p] = cur']
    /\ stop' = [stop EXCEPT ![p] = FALSE]
    /\ Goto(p, "setval")
    /\ UNCHANGED <<buf, file, produced, seen>>

\* Mutant: arg.val counts one holder too many.
InitialValTwo == 2

\* Mutant: arg is not initialised.
InitialValGarbage == -1

\* arg.val
InitialVal == 1

\* semctl(SETVAL, 1), whoever created the set and whoever uses it already.
PSetVal(p) ==
    /\ pc[p] = "setval"
    /\ val' = IF Gone(p) THEN val ELSE InitialVal
    /\ Goto(p, "loop")
    /\ UNCHANGED <<cur, made, handle, stop, buf, file, produced, seen, starts, lapses>>

\* while (!stop).  The bound on lines counts those that are on their way.
PLoop(p) ==
    /\ pc[p] = "loop"
    /\ \/ stop[p] /\ Goto(p, "rmid")
       \/ /\ ~stop[p]
          /\ produced + Cardinality({q \in Producers : pc[q] \in {"lock", "append"}})
               < MaxLine
          /\ Goto(p, "lock")
    /\ UNCHANGED <<sem, handle, stop, buf, file, produced, seen, starts, lapses>>

\* fopen("a") .. fclose(): one write at the end of the file, or the failed open.
PAppend(p) ==
    /\ pc[p] = "append"
    /\ \/ /\ file' = Append(file, NewLine(produced + 1))
          /\ produced' = produced + 1
          /\ Goto(p, "unlock")
       \/ /\ p \in OpenFails
          /\ Goto(p, "unlockBreak")
          /\ UNCHANGED file /\ UNCHANGED produced
    /\ UNCHANGED <<sem, handle, stop, buf, seen, starts, lapses>>

\* semctl(IPC_RMID) wakes every waiter: their identifiers are no longer current.
PRmid(p) ==
    /\ pc[p] = "rmid"
    /\ IF Gone(p) THEN UNCHANGED cur /\ UNCHANGED val /\ UNCHANGED lapses
       ELSE /\ cur' = 0 /\ val' = 0
            /\ lapses' = IF \E q \in Procs \ {p} : Running(q)
                         THEN lapses \cup {"RMID"} ELSE lapses
    /\ Goto(p, "done")
    /\ UNCHANGED <<made, handle, stop, buf, file, produced, seen, starts>>

-----------------------------------------------------------------------------
(* consumer.c                                                                *)

\* semget() without IPC_CREAT: without a set the program ends at once.
CStart(c) ==
    /\ pc[c] \in {"off", "done"} /\ starts < MaxStarts
    /\ cur # 0
    /\ starts' = starts + 1
    /\ handle' = [handle EXCEPT ![c] = cur]
    /\ stop' = [stop EXCEPT ![c] = FALSE]
    /\ Goto(c, "loop")
    /\ UNCHANGED <<sem, buf, file, produced, seen, lapses>>

CLoop(c) ==
    /\ pc[c] = "loop"
    /\ Goto(c, IF stop[c] THEN "done" ELSE "lock")
    /\ UNCHANGED <<sem, handle, stop, buf, file, produced, seen, starts, lapses>>

\* Mutant: the error path forgets to give the semaphore back.
AfterFailedOpenHeld == "loop"

\* Where a pass goes on that cannot open the file: semop(unlock) and the next round.
AfterFailedOpen == "unlock"

\* fopen("r"), the fgets loop, and the loop that prints the unmarked lines.
CRead(c) ==
    /\ pc[c] = "read"
    /\ \/ /\ buf' = [buf EXCEPT ![c] = ReadAll(file)]
          /\ again' = again \cup (shown \cap Unmarked(buf'[c]))
          /\ shown' = shown \cup Unmarked(buf'[c])
          /\ lapses' = IF buf'[c] = file THEN lapses ELSE lapses \cup {"CUT"}
          /\ Goto(c, "trunc")
       \/ /\ c \in OpenFails
          /\ Goto(c, AfterFailedOpen)
          /\ UNCHANGED buf /\ UNCHANGED shown /\ UNCHANGED again /\ UNCHANGED lapses
    /\ UNCHANGED <<sem, handle, stop, file, produced, starts>>

\* fopen("w") empties the file; when it fails the marks are dropped silently.
CTrunc(c) ==
    /\ pc[c] = "trunc"
    /\ \/ /\ file' = <<>>
          /\ Goto(c, "write")
          /\ UNCHANGED buf /\ UNCHANGED lapses
       \/ /\ c \in OpenFails
          /\ lapses' = lapses \cup {"NOSAVE"}
          /\ buf' = [buf EXCEPT ![c] = <<>>]
          /\ Goto(c, "unlock")
          /\ UNCHANGED file
    /\ UNCHANGED <<sem, handle, stop, produced, seen, starts>>

\* Mutant: the pass ends without the unlocking semop().
CWriteNoUnlock(c) ==
    /\ pc[c] = "write"
    /\ file' = Overwrite(file, Marked(buf[c]))
    /\ buf' = [buf EXCEPT ![c] = <<>>]
    /\ Goto(c, "loop")
    /\ UNCHANGED <<sem, handle, stop, produced, seen, starts, lapses>>

\* fputs of all lines, flushed by fclose().
CWrite(c) ==
    /\ pc[c] = "write"
    /\ file' = Overwrite(file, Marked(buf[c]))
    /\ buf' = [buf EXCEPT ![c] = <<>>]
    /\ Goto(c, "unlock")
    /\ UNCHANGED <<sem, handle, stop, produced, seen, starts, lapses>>

-----------------------------------------------------------------------------
(* The environment: ^C, and processes that die.                              *)

\* The handler runs while the process is not asleep in semop().
Signal(p) ==
    /\ p \in Signalled /\ Running(p) /\ ~stop[p]
    /\ stop' = [stop EXCEPT ![p] = TRUE]
    /\ UNCHANGED <<sem, handle, pc, buf, file, produced, seen, starts, lapses>>

\* semop() is never restarted after a handler: it returns EINTR to the sleeper.
Interrupt(p) ==
    /\ p \in Signalled /\ pc[p] = "lock" /\ Blocked(p)
    /\ stop' = [stop EXCEPT ![p] = TRUE]
    /\ lapses' = lapses \cup {"EINTR"}
    /\ Goto(p, Entry(p))
    /\ UNCHANGED <<sem, handle, buf, file, produced, seen, starts>>

\* Without SEM_UNDO the semaphore keeps what a dead process took.
Kill(p) ==
    /\ p \in Killable /\ Running(p)
    /\ lapses' = IF InCS(p) THEN lapses \cup {"KILL"} ELSE lapses
    /\ Goto(p, "done")
    /\ buf' = IF p \in Consumers THEN [buf EXCEPT ![p] = <<>>] ELSE buf
    /\ UNCHANGED <<sem, handle, stop, file, produced, seen, starts>>

-----------------------------------------------------------------------------
Producer(p) == Lock(p) \/ Unlock(p) \/ PSetVal(p) \/ PLoop(p) \/ PAppend(p) \/ PRmid(p)
Consumer(c) == Lock(c) \/ Unlock(c) \/ CLoop(c) \/ CRead(c) \/ CTrunc(c) \/ CWrite(c)

Next ==
    \/ \E p \in Producers : PStart(p) \/ Producer(p)
    \/ \E c \in Consumers : CStart(c) \/ Consumer(c)
    \/ \E p \in Procs : Signal(p) \/ Interrupt(p) \/ Kill(p)

Spec == Init /\ [][Next]_vars

\* A started program runs on, and the waiters of a semaphore are queued by the
\* kernel, so none is passed over for ever.  Nobody has to start or to stop a program.
Fairness ==
    /\ \A p \in Producers : WF_vars(Producer(p)) /\ SF_vars(Lock(p))
    /\ \A c \in Consumers : WF_vars(Consumer(c)) /\ SF_vars(Lock(c))

LiveSpec == Spec /\ Fairness

-----------------------------------------------------------------------------
(* Properties.                                                               *)

TypeOK ==
    /\ cur \in Nat /\ val \in Nat /\ made \in Nat
    /\ handle \in [Procs -> Nat]
    /\ pc \in [Procs -> PCs]
    /\ stop \in [Procs -> BOOLEAN]
    /\ buf \in [Consumers -> Seq(Lines)]
    /\ file \in Seq(Lines) /\ produced \in Nat
    /\ shown \subseteq Nat /\ again \subseteq Nat
    /\ starts \in Nat
    /\ lapses \subseteq Lapse

\* No event has let a process past the semaphore.
Guarded == lapses \cap {"EINTR", "RMID", "SETVAL"} = {}

\* "The file is accessed after the check that the semaphore is free" (README.md:5).
MutualExclusion == \A p, q \in Procs : InCS(p) /\ InCS(q) => p = q

\* Two processes are never in their critical sections at once, as long as no sleeper
\* was interrupted, no set was removed under running processes and none set twice:
\* crashes, restarts, failing fopen() calls and signals elsewhere do no harm.
MutexWhileGuarded == Guarded => MutualExclusion

\* The marks do what they are for: no line is analysed and printed a second time,
\* across passes, consumers, restarts and lines that a pass was too short to read.
ShownOnce == lapses \subseteq {"CUT"} => again = {}

\* The file as the processes outside the critical section are to see it: a consumer
\* that has emptied it still holds its lines.
Writers == {c \in Consumers : pc[c] = "write"}
View == IF Writers = {} THEN file ELSE buf[CHOOSE c \in Writers : TRUE]

AF == INSTANCE AtomicFile WITH lines <- View, added <- produced

\* While the semaphore guards the file and no pass dies or falls short, every step is
\* one of the two atomic changes of AtomicFile, or changes nothing: the pass of a
\* consumer, which truncates and rewrites, takes effect all at once.
AtomicWhileGuarded ==
    [][Guarded' /\ lapses' \cap {"KILL", "CUT"} = {} => [AF!Next]_AF!vars]_vars

\* Neither side starves the other: with a producer and a consumer whose opens succeed at
\* work, every line is appended, and analysed, in the end, although other consumers come,
\* and fail; unless somebody is interrupted or ends, or the semaphore was passed over.
EveryLineShown ==
    \A n \in 1 .. MaxLine :
        (\A procs \in {Producers, Consumers \ OpenFails} : \E p \in procs : pc[p] # "off")
            ~> n \in shown \/ lapses # {} \/ \E p \in Procs : stop[p] \/ pc[p] = "done"

\* A process that has taken the signal stops (README.md:6), even though it may sleep
\* for the semaphore, find the set gone, or fail to open the file.
StopEnds == \A p \in Procs : stop[p] ~> pc[p] = "done"
=============================================================================
