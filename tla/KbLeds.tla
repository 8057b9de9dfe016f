------------------------------- MODULE KbLeds --------------------------------
(***************************************************************************)
(* Module5/lab3: keyboard lights that blink by a timer until the module is *)
(* unloaded, with a value set through sysfs.  The steps of the timer's     *)
(* callback are actions, as are those of the cleanup, which may run on     *)
(* another processor at the same time.  Of code that runs after its module *)
(* was unloaded nothing is said.                                           *)
(***************************************************************************)
EXTENDS Integers

CONSTANTS
    Values,         \* the values written to /sys/kernel/systest/test
    RESTORE_LEDS,   \* 255: the lights show the state of the keyboard again
    SysfsFails,     \* TRUE when sysfs_create_file() may fail
    MaxLoads        \* bound: how often the module is loaded

\* What is assumed of the constants.
LedsAssumption ==
    RESTORE_LEDS \in Values /\ 0 \in Values /\ SysfsFails \in BOOLEAN /\ MaxLoads \in Nat

VARIABLES
    module,         \* "out", "live", or a step of kbleds_cleanup: "put", "deleted"
    test,           \* the value set through sysfs
    _kbledstatus,   \* what the lights were last asked to show
    my_timer,       \* "off" or "pending"
    callback,       \* where my_timer_func is
    seen,           \* what it saw in test
    leds,           \* what the keyboard shows
    stray,          \* history: whether the module was unloaded under its callback or its timer
    loads           \* how often the module was loaded

vars == <<module, test, _kbledstatus, my_timer, callback, seen, leds, stray, loads>>

Init ==
    /\ module = "out" /\ test = 0 /\ _kbledstatus = 0
    /\ my_timer = "off" /\ callback = "idle" /\ seen = 0
    /\ leds = RESTORE_LEDS /\ stray = FALSE /\ loads = 0

-----------------------------------------------------------------------------
\* insmod.  Without the directory in /sys nothing happens; without the file in it the timer
\* is set up all the same, and then the error that is returned takes the module out.
kbleds_init ==
    /\ module = "out" /\ ~ stray /\ loads < MaxLoads
    /\ test' = 0 /\ _kbledstatus' = 0 /\ seen' = 0
    /\ my_timer' = "pending" /\ loads' = loads + 1
    /\ \/ module' = "live" /\ UNCHANGED stray
       \/ SysfsFails /\ module' = "out" /\ stray' = TRUE
    /\ UNCHANGED <<callback, leds>>

foo_store(v) ==
    /\ module = "live" /\ test' = v
    /\ UNCHANGED <<module, _kbledstatus, my_timer, callback, seen, leds, stray, loads>>

\* kbleds_cleanup: kobject_put() takes the file away.
Put ==
    /\ module = "live" /\ module' = "put"
    /\ UNCHANGED <<test, _kbledstatus, my_timer, callback, seen, leds, stray, loads>>

\* timer_delete() does not wait for a callback that is running.
DeleteTimer ==
    /\ module = "put" /\ module' = "deleted"
    /\ my_timer' = "off" /\ stray' = (callback # "idle")
    /\ UNCHANGED <<test, _kbledstatus, callback, seen, leds, loads>>

Restore ==
    /\ module = "deleted" /\ module' = "out"
    /\ leds' = RESTORE_LEDS
    /\ UNCHANGED <<test, _kbledstatus, my_timer, callback, seen, stray, loads>>

-----------------------------------------------------------------------------
(* my_timer_func.                                                            *)

Fire ==
    /\ module # "out" /\ my_timer = "pending" /\ callback = "idle"
    /\ my_timer' = "off" /\ callback' = "compare"
    /\ UNCHANGED <<module, test, _kbledstatus, seen, leds, stray, loads>>

Goes(from, to) ==
    /\ module # "out" /\ callback = from /\ callback' = to
    /\ UNCHANGED <<module, test, stray, loads>>

Compare ==
    /\ Goes("compare", IF _kbledstatus = test THEN "restore" ELSE "light")
    /\ seen' = test
    /\ UNCHANGED <<_kbledstatus, my_timer, leds>>

\* The compiler may use the value of test it has compared or read it again.
Assign ==
    /\ \/ Goes("restore", "show") /\ _kbledstatus' = RESTORE_LEDS
       \/ Goes("light", "show") /\ _kbledstatus' \in {test, seen}
    /\ UNCHANGED <<my_timer, seen, leds>>

\* The ioctl KDSETLED.
Show ==
    /\ Goes("show", "rearm") /\ leds' = _kbledstatus
    /\ UNCHANGED <<_kbledstatus, my_timer, seen>>

\* Mutant: the timer is added again for one of the two states only.
RearmOnce ==
    /\ Goes("rearm", "idle")
    /\ my_timer' = IF _kbledstatus = RESTORE_LEDS THEN "pending" ELSE "off"
    /\ UNCHANGED <<_kbledstatus, seen, leds>>

Rearm ==
    /\ Goes("rearm", "idle") /\ my_timer' = "pending"
    /\ UNCHANGED <<_kbledstatus, seen, leds>>

-----------------------------------------------------------------------------
Next ==
    \/ kbleds_init \/ Put \/ DeleteTimer \/ Restore
    \/ \E v \in Values : foo_store(v)
    \/ Fire \/ Compare \/ Assign \/ Show \/ Rearm

\* The timer expires, and what has begun in the kernel is carried on.
Fairness ==
    /\ WF_vars(DeleteTimer) /\ WF_vars(Restore)
    /\ WF_vars(Fire) /\ WF_vars(Compare) /\ WF_vars(Assign) /\ WF_vars(Show) /\ WF_vars(Rearm)

Spec == Init /\ [][Next]_vars /\ Fairness

-----------------------------------------------------------------------------
(* Properties.                                                               *)

TypeOK ==
    /\ module \in {"out", "live", "put", "deleted"} /\ my_timer \in {"off", "pending"}
    /\ {test, _kbledstatus, seen, leds} \subseteq Values
    /\ callback \in {"idle", "compare", "restore", "light", "show", "rearm"}
    /\ stray \in BOOLEAN /\ loads \in 0 .. MaxLoads

\* "Blink keyboard leds until the module is unloaded" (kbleds_sysfs.c:2): without the module
\* the lights show the keyboard's state and no timer is left to change that.
BlinksUntilUnloaded == module = "out" => leds = RESTORE_LEDS /\ my_timer = "off"

\* As long as the module is loaded the lights go on and off, with the value that was last
\* written, whatever the callback saw of the writes before.
Blinks ==
    \A v \in Values :
        <>[](module = "live" /\ test = v) => []<>(leds = v) /\ []<>(leds = RESTORE_LEDS)
=============================================================================
