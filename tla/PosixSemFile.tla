---------------------------- MODULE PosixSemFile ----------------------------
(***************************************************************************)
(* Module3/09, main.c: each run of the program forks, the parent appends   *)
(* lines to data.txt and the child analyses and rewrites it.  All runs     *)
(* share the file, and the semaphore that the name "/example_sem" stands   *)
(* for when they open it; the name can be unlinked and made anew while the *)
(* old semaphore is in use.  sem_wait() is restarted after a signal, so it *)
(* returns with the semaphore only.                                        *)
(***************************************************************************)
EXTENDS LineFile, FiniteSets

CONSTANTS
    Runs,           \* the terminals the program is run on
    Killable,       \* the processes that may die at any point (SIGKILL)
    OpenFails,      \* the processes whose fopen() may fail
    ForkFails,      \* the runs whose fork() may fail
    MaxStarts,      \* bound: how many runs are started
    MaxLine         \* bound: how many lines are produced

Roles == {"parent", "child"}
Procs == Runs \X Roles
Parent(r) == <<r, "parent">>
Child(r) == <<r, "child">>

ASSUME PosixAssumption ==
    /\ Killable \subseteq Procs /\ OpenFails \subseteq Procs /\ ForkFails \subseteq Runs
    /\ MaxStarts \in Nat /\ MaxLine \in Nat

VARIABLES
    sems,       \* the value of every semaphore ever made; its index is its identity
    name,       \* the semaphore that "/example_sem" names, 0 when the name is free
    handle,     \* the semaphore each run has opened (sem), shared by parent and child
    pc,         \* the call each process is at
    stop,       \* the flag the SIGINT handler sets, one per process
    buf,        \* the lines[] array of the child of each run
    file,       \* data.txt
    produced,   \* how many lines were appended
    shown,      \* the lines a child has printed ...
    again,      \* ... and those printed more than once
    starts,     \* how many runs were started
    lapses      \* what has made one of the semaphore's promises void

seen == <<shown, again>>
vars == <<sems, name, handle, pc, stop, buf, file, produced, shown, again, starts, lapses>>

PCs == {"off", "fork", "loop", "lock", "append", "read", "trunc", "write", "unlock",
        "unlockBreak", "kill", "wait", "unlink", "done"}

\* UNLINK: the name was removed while another process used its semaphore.  KILL: a
\* process died in its critical section.  CUT: a pass read less than the file.
\* NOSAVE: a pass could not open the file to save the marks.
Lapse == {"UNLINK", "KILL", "CUT", "NOSAVE"}

InCS(p) == pc[p] \in {"append", "read", "trunc", "write", "unlock", "unlockBreak"}
Running(p) == pc[p] \notin {"off", "done"}

Init ==
    /\ sems = <<>> /\ name = 0
    /\ handle = [r \in Runs |-> 0]
    /\ pc = [p \in Procs |-> "off"]
    /\ stop = [p \in Procs |-> FALSE]
    /\ buf = [r \in Runs |-> <<>>]
    /\ file = <<>> /\ produced = 0
    /\ shown = {} /\ again = {}
    /\ starts = 0 /\ lapses = {}

Goto(p, l) == pc' = [pc EXCEPT ![p] = l]

-----------------------------------------------------------------------------
(* main()                                                                    *)

\* Mutant: every run makes a semaphore of its own.
JoinsNever == FALSE

\* sem_open(O_CREAT) takes the semaphore of the name, if there is one, as it is.
Joins == name # 0

\* Mutant: the semaphore lets two in.
InitialValTwo == 2

\* The last argument of sem_open().
InitialVal == 1

\* fopen("a") and sem_open(): the initial value counts for a new semaphore only.
Open(r) ==
    /\ ~Running(Parent(r)) /\ ~Running(Child(r)) /\ starts < MaxStarts
    /\ starts' = starts + 1
    /\ IF Joins THEN UNCHANGED sems /\ UNCHANGED name
       ELSE sems' = Append(sems, InitialVal) /\ name' = Len(sems) + 1
    /\ handle' = [handle EXCEPT ![r] = name']
    /\ stop' = [stop EXCEPT ![Parent(r)] = FALSE]
    /\ Goto(Parent(r), "fork")
    /\ UNCHANGED <<buf, file, produced, seen, lapses>>

\* sem_unlink("/example_sem"), whichever semaphore the name stands for by now.
Unlink(r) ==
    /\ name' = 0
    /\ lapses' = IF \E p \in Procs \ {Parent(r)} : Running(p)
                 THEN lapses \cup {"UNLINK"} ELSE lapses
    /\ Goto(Parent(r), "done")
    /\ UNCHANGED <<sems, handle, stop, buf, file, produced, seen, starts>>

\* The child inherits the semaphore, the handler and the flag.
Fork(r) ==
    /\ pc[Parent(r)] = "fork"
    /\ pc' = [pc EXCEPT ![Parent(r)] = "loop", ![Child(r)] = "loop"]
    /\ stop' = [stop EXCEPT ![Child(r)] = stop[Parent(r)]]
    /\ UNCHANGED <<sems, name, handle, buf, file, produced, seen, starts, lapses>>

ForkFailed(r) == pc[Parent(r)] = "fork" /\ r \in ForkFails /\ Unlink(r)

\* Mutant: the signal goes to the parent itself.
StopSentSelf(r) == [stop EXCEPT ![Parent(r)] = TRUE]

\* What kill(pid, SIGINT) does to the flags.
StopSent(r) == [stop EXCEPT ![Child(r)] = TRUE]

\* The parent has left its loop.
Kill(r) ==
    /\ pc[Parent(r)] = "kill"
    /\ stop' = StopSent(r)
    /\ Goto(Parent(r), "wait")
    /\ UNCHANGED <<sems, name, handle, buf, file, produced, seen, starts, lapses>>

\* Mutant: the parent removes the semaphore without waiting for the child.
ChildEndedUnchecked(r) == TRUE

\* wait(NULL) returns when the child has ended.
ChildEnded(r) == ~Running(Child(r))

Wait(r) ==
    /\ pc[Parent(r)] = "wait" /\ ChildEnded(r)
    /\ Goto(Parent(r), "unlink")
    /\ UNCHANGED <<sems, name, handle, stop, buf, file, produced, seen, starts, lapses>>

Close(r) == pc[Parent(r)] = "unlink" /\ Unlink(r)

-----------------------------------------------------------------------------
(* producer() and consumer()                                                 *)

\* while (!stop), in both functions.  The bound on lines counts those on their way.
Loop(p) ==
    /\ pc[p] = "loop"
    /\ \/ /\ stop[p]
          /\ Goto(p, IF p[2] = "parent" THEN "kill" ELSE "done")
       \/ /\ ~stop[p]
          /\ p[2] = "parent" =>
                produced + Cardinality({r \in Runs : pc[Parent(r)] \in {"lock", "append"}})
                    < MaxLine
          /\ Goto(p, "lock")
    /\ UNCHANGED <<sems, name, handle, stop, buf, file, produced, seen, starts, lapses>>

\* sem_wait(sem)
Lock(p) ==
    /\ pc[p] = "lock" /\ sems[handle[p[1]]] > 0
    /\ sems' = [sems EXCEPT ![handle[p[1]]] = @ - 1]
    /\ Goto(p, IF p[2] = "parent" THEN "append" ELSE "read")
    /\ UNCHANGED <<name, handle, stop, buf, file, produced, seen, starts, lapses>>

\* sem_post(sem); after a failed fopen() the producer's loop ends.
Unlock(p) ==
    /\ pc[p] \in {"unlock", "unlockBreak"}
    /\ sems' = [sems EXCEPT ![handle[p[1]]] = @ + 1]
    /\ Goto(p, IF pc[p] = "unlock" THEN "loop" ELSE "kill")
    /\ UNCHANGED <<name, handle, stop, buf, file, produced, seen, starts, lapses>>

\* fopen("a") .. fclose(): one write at the end of the file, or the failed open.
Write(r) ==
    /\ pc[Parent(r)] = "append"
    /\ \/ /\ file' = Append(file, NewLine(produced + 1))
          /\ produced' = produced + 1
          /\ Goto(Parent(r), "unlock")
       \/ /\ Parent(r) \in OpenFails
          /\ Goto(Parent(r), "unlockBreak")
          /\ UNCHANGED file /\ UNCHANGED produced
    /\ UNCHANGED <<sems, name, handle, stop, buf, seen, starts, lapses>>

\* fopen("r"), the fgets loop, and the loop that prints the unmarked lines.
Read(r) ==
    /\ pc[Child(r)] = "read"
    /\ \/ /\ buf' = [buf EXCEPT ![r] = ReadAll(file)]
          /\ again' = again \cup (shown \cap Unmarked(buf'[r]))
          /\ shown' = shown \cup Unmarked(buf'[r])
          /\ lapses' = IF buf'[r] = file THEN lapses ELSE lapses \cup {"CUT"}
          /\ Goto(Child(r), "trunc")
       \/ /\ Child(r) \in OpenFails
          /\ Goto(Child(r), "unlock")
          /\ UNCHANGED buf /\ UNCHANGED shown /\ UNCHANGED again /\ UNCHANGED lapses
    /\ UNCHANGED <<sems, name, handle, stop, file, produced, starts>>

\* fopen("w") empties the file; when it fails the marks are dropped silently.
Trunc(r) ==
    /\ pc[Child(r)] = "trunc"
    /\ \/ /\ file' = <<>>
          /\ Goto(Child(r), "write")
          /\ UNCHANGED buf /\ UNCHANGED lapses
       \/ /\ Child(r) \in OpenFails
          /\ lapses' = lapses \cup {"NOSAVE"}
          /\ buf' = [buf EXCEPT ![r] = <<>>]
          /\ Goto(Child(r), "unlock")
          /\ UNCHANGED file
    /\ UNCHANGED <<sems, name, handle, stop, produced, seen, starts>>

\* fputs of all lines, flushed by fclose().
Rewrite(r) ==
    /\ pc[Child(r)] = "write"
    /\ file' = Overwrite(file, Marked(buf[r]))
    /\ buf' = [buf EXCEPT ![r] = <<>>]
    /\ Goto(Child(r), "unlock")
    /\ UNCHANGED <<sems, name, handle, stop, produced, seen, starts, lapses>>

-----------------------------------------------------------------------------
(* The environment: ^C, which need not reach both processes, and SIGKILL.    *)

Signal(p) ==
    /\ Running(p) /\ ~stop[p]
    /\ stop' = [stop EXCEPT ![p] = TRUE]
    /\ UNCHANGED <<sems, name, handle, pc, buf, file, produced, seen, starts, lapses>>

\* The semaphore outlives the processes, with the value they left it.
Die(p) ==
    /\ p \in Killable /\ Running(p)
    /\ lapses' = IF InCS(p) THEN lapses \cup {"KILL"} ELSE lapses
    /\ buf' = IF p[2] = "child" THEN [buf EXCEPT ![p[1]] = <<>>] ELSE buf
    /\ Goto(p, "done")
    /\ UNCHANGED <<sems, name, handle, stop, file, produced, seen, starts>>

-----------------------------------------------------------------------------
ParentStep(r) ==
    \/ Fork(r) \/ ForkFailed(r) \/ Write(r) \/ Kill(r) \/ Wait(r) \/ Close(r)
    \/ Loop(Parent(r)) \/ Lock(Parent(r)) \/ Unlock(Parent(r))

ChildStep(r) ==
    \/ Read(r) \/ Trunc(r) \/ Rewrite(r)
    \/ Loop(Child(r)) \/ Lock(Child(r)) \/ Unlock(Child(r))

Next ==
    \/ \E r \in Runs : Open(r) \/ ParentStep(r) \/ ChildStep(r)
    \/ \E p \in Procs : Signal(p) \/ Die(p)

Spec == Init /\ [][Next]_vars

\* Started processes run on, and sem_post() wakes a waiter that in the end gets in.
Fairness ==
    /\ \A r \in Runs : WF_vars(ParentStep(r)) /\ WF_vars(ChildStep(r))
    /\ \A p \in Procs : SF_vars(Lock(p))

LiveSpec == Spec /\ Fairness

-----------------------------------------------------------------------------
(* Properties.                                                               *)

TypeOK ==
    /\ sems \in Seq({0, 1}) /\ name \in 0 .. Len(sems)
    /\ handle \in [Runs -> 0 .. Len(sems)]
    /\ pc \in [Procs -> PCs]
    /\ stop \in [Procs -> BOOLEAN]
    /\ buf \in [Runs -> Seq(Lines)]
    /\ file \in Seq(Lines) /\ produced \in Nat
    /\ shown \subseteq Nat /\ again \subseteq Nat
    /\ starts \in Nat
    /\ lapses \subseteq Lapse

\* Nobody has lost the semaphore that the others use.
Guarded == "UNLINK" \notin lapses

\* Across all runs one process at a time is between sem_wait() and sem_post(), unless a
\* run ended or failed to fork while another used the semaphore; processes that die
\* anywhere, and runs that find the semaphore of a dead one, do no harm to that.
MutexWhileGuarded ==
    Guarded => \A p, q \in Procs : InCS(p) /\ InCS(q) => p = q

\* The marks do what they are for: no line is analysed and printed a second time,
\* by whichever run, unless a pass died or could not save its marks.
ShownOnce == lapses \subseteq {"CUT"} => again = {}

\* The file as the processes outside the critical section are to see it.
Writers == {r \in Runs : pc[Child(r)] = "write"}
View == IF Writers = {} THEN file ELSE buf[CHOOSE r \in Writers : TRUE]

AF == INSTANCE AtomicFile WITH lines <- View, added <- produced

\* While all use one semaphore and no pass dies or falls short, every step is one of
\* the two atomic changes of AtomicFile or changes nothing.
AtomicWhileGuarded ==
    [][Guarded' /\ lapses' \cap {"KILL", "CUT"} = {} => [AF!Next]_AF!vars]_vars

\* A run whose parent has taken ^C ends, parent and child (main.c:122), whatever the
\* other runs do with the semaphore and its name; unless a process died holding it, for
\* then the run hangs and ^C cannot stop it, or the parent itself was killed.
StopEnds ==
    \A r \in Runs : stop[Parent(r)] /\ Parent(r) \notin Killable ~>
        \/ ~Running(Parent(r)) /\ ~Running(Child(r))
        \/ "KILL" \in lapses

\* The parent outlives its child: unless it was killed, a child that runs has a parent
\* that runs, so that ^C and the parent's kill() reach it.
NoOrphan ==
    \A r \in Runs : Running(Child(r)) /\ Parent(r) \notin Killable => Running(Parent(r))
=============================================================================
