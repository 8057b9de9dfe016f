---------------------------- MODULE ShmHandshake ----------------------------
(***************************************************************************)
(* Module3/10 (System V) and Module3/11 (POSIX): each run forks; the       *)
(* parent puts a set of numbers into shared memory, the child finds their  *)
(* minimum and maximum there, and the parent prints them.  The field state *)
(* hands the memory over: 0 to the parent, 1 to the child, 2 to the parent *)
(* with the answer.  All runs use one key, so they may meet in one segment.*)
(*                                                                         *)
(* One action is one access to the shared memory, or two that no other     *)
(* process can tell apart.  The build does not optimise and x86 keeps the  *)
(* order of stores, so the accesses take effect in the order written.      *)
(***************************************************************************)
EXTENDS Integers, Sequences, FiniteSets

CONSTANTS
    Runs,           \* the terminals the program is run on
    Signalled,      \* the processes that may receive SIGINT from outside
    Killable,       \* the processes that may die at any point (SIGKILL)
    ForkFails,      \* the runs whose fork() may fail
    PosixRuns,      \* the runs that remove a name (11) and not an identifier (10)
    MaxCount,       \* the longest set of numbers
    Numbers,        \* the numbers
    MaxStarts,      \* bound: how many runs are started
    MaxSets         \* bound: how many sets a run prints

Procs == Runs \X {"parent", "child"}
Parent(r) == <<r, "parent">>
Child(r) == <<r, "child">>

ASSUME ShmAssumption ==
    /\ Signalled \subseteq Procs /\ Killable \subseteq Procs
    /\ ForkFails \subseteq Runs /\ PosixRuns \subseteq Runs
    /\ MaxCount \in Nat \ {0} /\ Numbers \subseteq Int /\ 0 \in Numbers
    /\ MaxStarts \in Nat /\ MaxSets \in Nat

VARIABLES
    state,      \* SharedData.state of every segment
    count,      \* SharedData.count
    numbers,    \* SharedData.numbers
    minmax,     \* SharedData.min and .max
    processed,  \* SharedData.processed
    key,        \* the segment the key names, 0 when it names none
    made,       \* how many segments were made
    shm,        \* the segment each run has attached
    pc,         \* where each process is
    stop,       \* the flag the SIGINT handler sets, one per process
    i,          \* the loop variable of each process
    best,       \* the variables min and max of each child
    generated,  \* the numbers each parent has listed as ">Generated: "
    printed,    \* how many results each parent has printed
    wrong,      \* the runs that printed a minimum or maximum not of their set
    starts,     \* how many runs were started
    shared      \* TRUE once a run was started while processes of another were running

memory == <<state, count, numbers, minmax, processed>>
told == <<generated, printed, wrong>>
vars == <<state, count, numbers, minmax, processed, key, made, shm, pc, stop, i, best,
          generated, printed, wrong, starts, shared>>

PCs == {"off", "init", "fork", "wait0", "count", "fill", "publish", "wait2", "print",
        "ack", "kill", "wait", "remove", "poll", "scan", "result", "answer", "done"}

Segments == 1 .. MaxStarts
Running(p) == pc[p] \notin {"off", "done"}

Init ==
    /\ state = [g \in Segments |-> 0]
    /\ count = [g \in Segments |-> 0]
    /\ numbers = [g \in Segments |-> [j \in 1 .. MaxCount |-> 0]]
    /\ minmax = [g \in Segments |-> <<0, 0>>]
    /\ processed = [g \in Segments |-> 0]
    /\ key = 0 /\ made = 0
    /\ shm = [r \in Runs |-> 0]
    /\ pc = [p \in Procs |-> "off"]
    /\ stop = [p \in Procs |-> FALSE]
    /\ i = [p \in Procs |-> 1]
    /\ best = [r \in Runs |-> <<0, 0>>]
    /\ generated = [r \in Runs |-> <<>>]
    /\ printed = [r \in Runs |-> 0]
    /\ wrong = {} /\ starts = 0 /\ shared = FALSE

Goto(p, l) == pc' = [pc EXCEPT ![p] = l]

-----------------------------------------------------------------------------
(* Start and end of a run.                                                   *)

\* shmget(IPC_CREAT) and shmat(), or shm_open(O_CREAT), ftruncate() and mmap().
Open(r) ==
    /\ ~Running(Parent(r)) /\ ~Running(Child(r)) /\ starts < MaxStarts
    /\ starts' = starts + 1
    /\ IF key # 0 THEN UNCHANGED key /\ UNCHANGED made
       ELSE key' = made + 1 /\ made' = made + 1
    /\ shm' = [shm EXCEPT ![r] = key']
    /\ shared' = (shared \/ \E p \in Procs : Running(p))
    /\ stop' = [stop EXCEPT ![Parent(r)] = FALSE]
    /\ printed' = [printed EXCEPT ![r] = 0]
    /\ Goto(Parent(r), "init")
    /\ UNCHANGED <<memory, i, best, generated, wrong>>

\* Mutant: the segment is used as it was found.
ZeroedNot(field, g) == field

\* The field of a segment set to 0.
Zeroed(field, g) == [field EXCEPT ![g] = 0]

\* state = 0 and processed = 0, in whatever segment was found.
Reset(r) ==
    /\ pc[Parent(r)] = "init"
    /\ state' = Zeroed(state, shm[r])
    /\ processed' = Zeroed(processed, shm[r])
    /\ Goto(Parent(r), "fork")
    /\ UNCHANGED <<count, numbers, minmax, key, made, shm, stop, i, best, told, starts, shared>>

\* When fork() fails the program ends and leaves the segment.
Fork(r) ==
    /\ pc[Parent(r)] = "fork"
    /\ \/ /\ pc' = [pc EXCEPT ![Parent(r)] = "wait0", ![Child(r)] = "poll"]
          /\ stop' = [stop EXCEPT ![Child(r)] = stop[Parent(r)]]
       \/ r \in ForkFails /\ Goto(Parent(r), "done") /\ UNCHANGED stop
    /\ UNCHANGED <<memory, key, made, shm, i, best, told, starts, shared>>

\* Mutant: the signal goes to the parent itself.
StopSentSelf(r) == [stop EXCEPT ![Parent(r)] = TRUE]

\* What kill(pid, SIGINT) does to the flags.
StopSent(r) == [stop EXCEPT ![Child(r)] = TRUE]

\* The parent has left its loops.
Kill(r) ==
    /\ pc[Parent(r)] = "kill"
    /\ stop' = StopSent(r)
    /\ Goto(Parent(r), "wait")
    /\ UNCHANGED <<memory, key, made, shm, i, best, told, starts, shared>>

\* wait(NULL); what is printed then is processed, the number of results.
Wait(r) ==
    /\ pc[Parent(r)] = "wait" /\ ~Running(Child(r))
    /\ Goto(Parent(r), "remove")
    /\ UNCHANGED <<memory, key, made, shm, stop, i, best, told, starts, shared>>

\* IPC_RMID removes this segment, shm_unlink() whatever has the name by now.
Remove(r) ==
    /\ pc[Parent(r)] = "remove"
    /\ key' = IF r \in PosixRuns \/ key = shm[r] THEN 0 ELSE key
    /\ Goto(Parent(r), "done")
    /\ UNCHANGED <<memory, made, shm, stop, i, best, told, starts, shared>>

-----------------------------------------------------------------------------
(* The parent.                                                               *)

\* A busy loop and the test of stop after it.
Await(r, from, ready, to) ==
    /\ pc[Parent(r)] = from
    /\ \/ stop[Parent(r)] /\ Goto(Parent(r), "kill")
       \/ ~stop[Parent(r)] /\ ready /\ Goto(Parent(r), to)
    /\ UNCHANGED <<memory, key, made, shm, stop, i, best, told, starts, shared>>

\* Mutant: the parent does not wait until the child has answered.
AnswerReadyEarly == 1

\* The value of state that makes the parent go on to print.
AnswerReady == 2

AwaitFree(r) == Await(r, "wait0", state[shm[r]] = 0 /\ printed[r] < MaxSets, "count")
AwaitAnswer(r) == Await(r, "wait2", state[shm[r]] = AnswerReady, "print")

\* shm->count, a random number
Count(r) ==
    /\ pc[Parent(r)] = "count"
    /\ \E c \in 1 .. MaxCount : count' = [count EXCEPT ![shm[r]] = c]
    /\ i' = [i EXCEPT ![Parent(r)] = 1]
    /\ generated' = [generated EXCEPT ![r] = <<>>]
    /\ Goto(Parent(r), "fill")
    /\ UNCHANGED <<state, numbers, minmax, processed, key, made, shm, stop, best, printed,
                   wrong, starts, shared>>

\* One turn of the loop that fills and lists numbers[]; its test reads shm->count.
Fill(r) ==
    /\ pc[Parent(r)] = "fill"
    /\ \/ /\ i[Parent(r)] <= count[shm[r]]
          /\ \E n \in Numbers :
                /\ numbers' = [numbers EXCEPT ![shm[r]] =
                                  [@ EXCEPT ![i[Parent(r)]] = n]]
                /\ generated' = [generated EXCEPT ![r] = Append(@, n)]
          /\ i' = [i EXCEPT ![Parent(r)] = @ + 1]
          /\ UNCHANGED pc
       \/ /\ i[Parent(r)] > count[shm[r]]
          /\ Goto(Parent(r), "publish")
          /\ UNCHANGED numbers /\ UNCHANGED generated /\ UNCHANGED i
    /\ UNCHANGED <<state, count, minmax, processed, key, made, shm, stop, best, printed,
                   wrong, starts, shared>>

\* state = 1
Publish(r) ==
    /\ pc[Parent(r)] = "publish"
    /\ state' = [state EXCEPT ![shm[r]] = 1]
    /\ Goto(Parent(r), "wait2")
    /\ UNCHANGED <<count, numbers, minmax, processed, key, made, shm, stop, i, best, told,
                   starts, shared>>

\* v is the least, and w the greatest, of the first n numbers of s.
IsMinMax(v, w, s, n) ==
    /\ \E j \in 1 .. n : s[j] = v
    /\ \E j \in 1 .. n : s[j] = w
    /\ \A j \in 1 .. n : v <= s[j] /\ s[j] <= w

\* The results are printed, and processed counts them.
PrintResult(r) ==
    /\ pc[Parent(r)] = "print"
    /\ wrong' = IF IsMinMax(minmax[shm[r]][1], minmax[shm[r]][2], generated[r],
                            Len(generated[r]))
                THEN wrong ELSE wrong \cup {r}
    /\ printed' = [printed EXCEPT ![r] = @ + 1]
    /\ processed' = [processed EXCEPT ![shm[r]] = @ + 1]
    /\ Goto(Parent(r), "ack")
    /\ UNCHANGED <<state, count, numbers, minmax, key, made, shm, stop, i, best, generated,
                   starts, shared>>

\* state = 0
Ack(r) ==
    /\ pc[Parent(r)] = "ack"
    /\ state' = [state EXCEPT ![shm[r]] = 0]
    /\ Goto(Parent(r), "wait0")
    /\ UNCHANGED <<count, numbers, minmax, processed, key, made, shm, stop, i, best, told,
                   starts, shared>>

-----------------------------------------------------------------------------
(* The child.                                                                *)

\* while (!stop), and the start of a search when state is 1.
Poll(r) ==
    /\ pc[Child(r)] = "poll"
    /\ \/ stop[Child(r)] /\ Goto(Child(r), "done") /\ UNCHANGED i /\ UNCHANGED best
       \/ /\ ~stop[Child(r)] /\ state[shm[r]] = 1
          /\ best' = [best EXCEPT ![r] = <<numbers[shm[r]][1], numbers[shm[r]][1]>>]
          /\ i' = [i EXCEPT ![Child(r)] = 2]
          /\ Goto(Child(r), "scan")
    /\ UNCHANGED <<memory, key, made, shm, stop, told, starts, shared>>

\* Mutant: the search stops one number early.
InSetShort(j, c) == j < c

\* The test of the loop, with j counted from 1: i < shm->count.
InSet(j, c) == j <= c

\* One turn of the loop over numbers[].
Scan(r) ==
    /\ pc[Child(r)] = "scan"
    /\ \/ /\ InSet(i[Child(r)], count[shm[r]])
          /\ LET n == numbers[shm[r]][i[Child(r)]]
             IN  best' = [best EXCEPT ![r] = << IF n < @[1] THEN n ELSE @[1],
                                                IF n > @[2] THEN n ELSE @[2] >>]
          /\ i' = [i EXCEPT ![Child(r)] = @ + 1]
          /\ UNCHANGED pc
       \/ /\ ~InSet(i[Child(r)], count[shm[r]])
          /\ Goto(Child(r), "result")
          /\ UNCHANGED i /\ UNCHANGED best
    /\ UNCHANGED <<memory, key, made, shm, stop, told, starts, shared>>

\* shm->min and shm->max
Result(r) ==
    /\ pc[Child(r)] = "result"
    /\ minmax' = [minmax EXCEPT ![shm[r]] = best[r]]
    /\ Goto(Child(r), "answer")
    /\ UNCHANGED <<state, count, numbers, processed, key, made, shm, stop, i, best, told,
                   starts, shared>>

\* Mutant: the child frees the memory itself.
AnswerStateFree == 0

\* Mutant: the child writes a state that nobody waits for.
AnswerStateNext == 3

\* The value of state that hands the memory back.
AnswerState == 2

Answer(r) ==
    /\ pc[Child(r)] = "answer"
    /\ state' = [state EXCEPT ![shm[r]] = AnswerState]
    /\ Goto(Child(r), "poll")
    /\ UNCHANGED <<count, numbers, minmax, processed, key, made, shm, stop, i, best, told,
                   starts, shared>>

-----------------------------------------------------------------------------
(* The environment: ^C, which need not reach both processes, and SIGKILL.    *)

Signal(p) ==
    /\ p \in Signalled /\ Running(p) /\ ~stop[p]
    /\ stop' = [stop EXCEPT ![p] = TRUE]
    /\ UNCHANGED <<memory, key, made, shm, pc, i, best, told, starts, shared>>

\* The segment and its contents stay; a child outlives its parent.
Die(p) ==
    /\ p \in Killable /\ Running(p)
    /\ Goto(p, "done")
    /\ UNCHANGED <<memory, key, made, shm, stop, i, best, told, starts, shared>>

-----------------------------------------------------------------------------
ParentStep(r) ==
    \/ Reset(r) \/ Fork(r) \/ AwaitFree(r) \/ Count(r) \/ Fill(r) \/ Publish(r)
    \/ AwaitAnswer(r) \/ PrintResult(r) \/ Ack(r) \/ Kill(r) \/ Wait(r) \/ Remove(r)

ChildStep(r) == Poll(r) \/ Scan(r) \/ Result(r) \/ Answer(r)

Next ==
    \/ \E r \in Runs : Open(r) \/ ParentStep(r) \/ ChildStep(r)
    \/ \E p \in Procs : Signal(p) \/ Die(p)

Spec == Init /\ [][Next]_vars

\* The processes of a started run go on.
Fairness == \A r \in Runs : WF_vars(ParentStep(r)) /\ WF_vars(ChildStep(r))

LiveSpec == Spec /\ Fairness

-----------------------------------------------------------------------------
(* Properties.                                                               *)

TypeOK ==
    /\ state \in [Segments -> 0 .. 2]
    /\ count \in [Segments -> 0 .. MaxCount]
    /\ numbers \in [Segments -> [1 .. MaxCount -> Numbers]]
    /\ minmax \in [Segments -> Numbers \X Numbers]
    /\ processed \in [Segments -> Nat]
    /\ key \in 0 .. made /\ made \in 0 .. starts /\ starts \in 0 .. MaxStarts
    /\ shm \in [Runs -> 0 .. made]
    /\ pc \in [Procs -> PCs]
    /\ stop \in [Procs -> BOOLEAN]
    /\ i \in [Procs -> Nat \ {0}]
    /\ best \in [Runs -> Numbers \X Numbers]
    /\ generated \in [Runs -> Seq(Numbers)]
    /\ printed \in [Runs -> Nat]
    /\ wrong \subseteq Runs
    /\ shared \in BOOLEAN

\* What a parent prints as MIN and MAX are the minimum and maximum of the numbers it
\* printed as generated, as long as no run is started into the segment of another:
\* whatever is signalled or killed, and whatever an earlier run has left in the segment.
PrintedRight == ~shared => wrong = {}

\* The parent writes numbers[] and count only while the child is not between reading
\* state 1 and writing state 2, in which it reads them.
NoRace ==
    ~shared => \A r, s \in Runs :
        ~(pc[Parent(r)] \in {"count", "fill", "publish"}
            /\ pc[Child(s)] \in {"scan", "result", "answer"})

\* The number of sets printed at the end is the number of results the run has printed.
CountedOnce ==
    ~shared => \A r \in Runs : pc[Parent(r)] = "remove" => processed[shm[r]] = printed[r]

\* After ^C the run ends, parent and child, even when it waits for an answer that never
\* comes or another run has its hands in the segment; unless the parent is killed.
StopEnds ==
    \A r \in Runs : stop[Parent(r)] /\ Parent(r) \notin Killable ~>
        ~Running(Parent(r)) /\ ~Running(Child(r))

\* A set that is published is answered and printed, unless the run is interrupted, its
\* child ends early, or another run shares the segment.
AnswerPrinted ==
    \A r \in Runs : pc[Parent(r)] = "wait2" ~>
        \/ pc[Parent(r)] = "print"
        \/ stop[Parent(r)] \/ ~Running(Child(r)) \/ stop[Child(r)] \/ shared

\* "The cycle of the program is repeated until an interrupt signal arrives" (README.md:8
\* of Module3/10): when one parent at most is at work at any time, a parent never waits for
\* ever.
OneParent == \A q, r \in Runs : Running(Parent(q)) /\ Running(Parent(r)) => q = r

CycleRepeats ==
    []OneParent =>
        \A r \in Runs :
            pc[Parent(r)] \in {"wait0", "wait2"} /\ printed[r] < MaxSets ~>
                pc[Parent(r)] \notin {"wait0", "wait2"} \/ stop[Parent(r)]
=============================================================================
