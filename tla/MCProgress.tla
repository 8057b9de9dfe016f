------------------------------- MODULE MCProgress ------------------------------
(***************************************************************************)
(* The programs of Module3 and Module5 about which something is said that  *)
(* must happen, side by side: a behaviour is one of the program "which",   *)
(* and the variables of the others stay as they are, where no step of      *)
(* theirs is due.                                                          *)
(***************************************************************************)
EXTENDS Integers, Sequences

CONSTANTS r1, r2, c1, c2, c3

VARIABLES
    which,
    h_state, h_count, h_numbers, h_minmax, h_processed, h_key, h_made, h_shm, h_pc, h_stop,
    h_i, h_best, h_generated, h_printed, h_wrong, h_starts, h_shared,
    u_server, u_clients, u_up, u_down, u_pc, u_listener, u_heard, u_told, u_lapsed, u_lines,
    u_copies, u_starts,
    s_wait, s_tempWait, s_handlers, s_pc, s_signals,
    k_module, k_test, k_kbledstatus, k_my_timer, k_callback, k_seen, k_leds, k_stray, k_loads

shmVars == <<h_state, h_count, h_numbers, h_minmax, h_processed, h_key, h_made, h_shm, h_pc,
    h_stop, h_i, h_best, h_generated, h_printed, h_wrong, h_starts, h_shared>>
udpVars == <<u_server, u_clients, u_up, u_down, u_pc, u_listener, u_heard, u_told, u_lapsed,
    u_lines, u_copies, u_starts>>
scVars == <<s_wait, s_tempWait, s_handlers, s_pc, s_signals>>
klVars == <<k_module, k_test, k_kbledstatus, k_my_timer, k_callback, k_seen, k_leds,
    k_stray, k_loads>>

SHM == INSTANCE ShmHandshake WITH
    Runs <- {r1, r2}, Signalled <- {r1, r2} \X {"parent"}, Killable <- {<<r1, "child">>},
    ForkFails <- {r2}, PosixRuns <- {r2}, MaxCount <- 1, Numbers <- {0}, MaxStarts <- 2,
    MaxSets <- 1,
    state <- h_state, count <- h_count, numbers <- h_numbers, minmax <- h_minmax,
    processed <- h_processed, key <- h_key, made <- h_made, shm <- h_shm, pc <- h_pc,
    stop <- h_stop, i <- h_i, best <- h_best, generated <- h_generated,
    printed <- h_printed, wrong <- h_wrong, starts <- h_starts, shared <- h_shared

UDP == INSTANCE UdpChat WITH
    Clients <- {c1, c2, c3}, Faults <- {}, Killable <- FALSE, InputEnds <- FALSE,
    ForkFails <- {}, Buffer <- 4, MaxLines <- 2, MaxFlight <- 2, MaxCopies <- 1,
    MaxStarts <- 1,
    server <- u_server, clients <- u_clients, up <- u_up, down <- u_down, pc <- u_pc,
    listener <- u_listener, heard <- u_heard, told <- u_told, lapsed <- u_lapsed,
    lines <- u_lines, copies <- u_copies, starts <- u_starts

SC == INSTANCE SignalCounter WITH
    MaxSignals <- 6, MaxNested <- 2,
    wait <- s_wait, tempWait <- s_tempWait, handlers <- s_handlers, pc <- s_pc,
    signals <- s_signals

KL == INSTANCE KbLeds WITH
    Values <- {0, 7, 255}, RESTORE_LEDS <- 255, SysfsFails <- TRUE, MaxLoads <- 2,
    module <- k_module, test <- k_test, _kbledstatus <- k_kbledstatus, my_timer <- k_my_timer,
    callback <- k_callback, seen <- k_seen, leds <- k_leds, stray <- k_stray, loads <- k_loads

ASSUME UDP!UdpAssumption /\ SC!SignalsAssumption /\ KL!LedsAssumption

vars == <<which, shmVars, udpVars, scVars, klVars>>

Init ==
    /\ which \in {"SHM", "UDP", "SC", "KL"}
    /\ SHM!Init /\ UDP!Init /\ SC!Init /\ KL!Init

Next ==
    /\ UNCHANGED which
    /\ \/ which = "SHM" /\ SHM!Next /\ UNCHANGED <<udpVars, scVars, klVars>>
       \/ which = "UDP" /\ UDP!Next /\ UNCHANGED <<shmVars, scVars, klVars>>
       \/ which = "SC" /\ SC!Next /\ UNCHANGED <<shmVars, udpVars, klVars>>
       \/ which = "KL" /\ KL!Next /\ UNCHANGED <<shmVars, udpVars, scVars>>

Spec ==
    /\ Init /\ [][Next]_vars
    /\ SHM!Fairness /\ UDP!Fairness /\ SC!Fairness /\ KL!Fairness

-----------------------------------------------------------------------------
\* The variables of the four programs keep their types.
TypeOK == SHM!TypeOK /\ UDP!TypeOK /\ SC!TypeOK /\ KL!TypeOK

\* The handshake over shared memory: ^C ends a run, and a published set is answered.
StopEnds == SHM!StopEnds
AnswerPrinted == SHM!AnswerPrinted

\* The UDP chat, whose clients are alike: "shutdown" takes a client out of the table, and its
\* partner hears of it.
ShutdownLeaves == UDP!LeavesAfterShutdown(c1)
LeaveNoticed == UDP!HearsOfLeaving(c1, c2)

\* The counter of signals ends when it finds the count at 0.
Ends == SC!Ends

\* The keyboard's lights blink while the module is loaded.
Blinks == KL!Blinks
=============================================================================
