---------------------------- MODULE SignalCounter ----------------------------
(***************************************************************************)
(* Module3/05: a program that writes to a file every second, counts the    *)
(* signals it gets down from three and ends when it finds the count at 0.  *)
(* Handlers of different signals interrupt main's loop and each other.     *)
(* SIGKILL cannot be handled, and what is written is left out.             *)
(***************************************************************************)
EXTENDS Integers, Sequences

CONSTANTS
    MaxSignals,     \* bound: how many signals come
    MaxNested       \* bound: how many handlers run in each other

\* What is assumed of the constants.
SignalsAssumption == {MaxSignals, MaxNested} \subseteq Nat

VARIABLES
    wait,           \* how many signals are to come
    tempWait,       \* how many were when main looked last
    handlers,       \* what each running handler has read, the latest first
    pc,             \* where main is
    signals         \* how many signals came

vars == <<wait, tempWait, handlers, pc, signals>>

Init == wait = 3 /\ tempWait = 3 /\ handlers = <<>> /\ pc = "off" /\ signals = 0

\* Until its handlers are set the program ends by any signal, and has done nothing.
Start ==
    /\ pc = "off" /\ pc' = "open"
    /\ UNCHANGED <<wait, tempWait, handlers, signals>>

\* listener(): "wait -= 1" reads and writes.
Signal ==
    /\ pc \notin {"off", "ended", "killed"}
    /\ signals < MaxSignals /\ Len(handlers) < MaxNested
    /\ handlers' = <<wait>> \o handlers /\ signals' = signals + 1
    /\ UNCHANGED <<wait, tempWait, pc>>

listener ==
    /\ pc \notin {"ended", "killed"} /\ handlers # <<>>
    /\ wait' \in {Head(handlers) - 1, wait - 1} /\ handlers' = Tail(handlers)
    /\ UNCHANGED <<tempWait, pc, signals>>

Kill ==
    /\ pc \notin {"ended", "killed"} /\ pc' = "killed"
    /\ UNCHANGED <<wait, tempWait, handlers, signals>>

\* main runs when no handler does.
Goes(from, to) ==
    /\ pc = from /\ handlers = <<>> /\ pc' = to
    /\ UNCHANGED <<wait, handlers, signals>>

\* A turn whose fopen() fails changes nothing.
Open == Goes("open", "note") /\ UNCHANGED tempWait

\* "Interrupt" is written, and the new count is remembered.
Note == Goes("note", "test") /\ tempWait' = wait

\* Mutant: the count is tested only when a signal came since the last turn.
TestWhenNoted ==
    \/ wait = 0 /\ tempWait # wait /\ Goes("test", "ended") /\ UNCHANGED tempWait
    \/ (wait # 0 \/ tempWait = wait) /\ Goes("test", "sleep") /\ UNCHANGED tempWait

Test ==
    \/ wait = 0 /\ Goes("test", "ended") /\ UNCHANGED tempWait
    \/ wait # 0 /\ Goes("test", "sleep") /\ UNCHANGED tempWait

\* A signal ends sleep() early.
Sleep == Goes("sleep", "open") /\ UNCHANGED tempWait

Next ==
    \/ Start \/ Signal \/ listener \/ Kill
    \/ Open \/ Note \/ Test \/ Sleep

\* fopen() does not fail for ever.
Fairness ==
    WF_vars(listener) /\ WF_vars(Open) /\ WF_vars(Note) /\ WF_vars(Test) /\ WF_vars(Sleep)

Spec == Init /\ [][Next]_vars /\ Fairness

-----------------------------------------------------------------------------
(* Properties.                                                               *)

TypeOK ==
    /\ {wait, tempWait} \subseteq 3 - MaxSignals .. 3
    /\ Len(handlers) <= MaxNested
    /\ \A i \in DOMAIN handlers : handlers[i] \in 3 - MaxSignals .. 3
    /\ pc \in {"off", "open", "note", "test", "sleep", "ended", "killed"}
    /\ signals \in 0 .. MaxSignals

\* When the count is 0 and no handler runs, the program ends; only a signal that comes
\* before main looks can keep it from that, and then for ever, since the count is tested
\* for 0 alone (main.c:34).
Ends == wait = 0 /\ handlers = <<>> ~> pc \in {"ended", "killed"} \/ wait < 0
=============================================================================
